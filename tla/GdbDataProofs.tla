--------------------------- MODULE GdbDataProofs ---------------------------
(***************************************************************************)
(* Proofs about DebugModule under GdbData's requests: what may change the  *)
(* memory and the registers of a stopped core, why an operation fails, and *)
(* that one that returns WL_OK has done what it promises, so that the      *)
(* client is told the truth.  For words of four bytes, as in the code, for *)
(* every number of values of a byte, every size of memory, every set of    *)
(* registers, of operations and of requests, and any number of failing     *)
(* accesses.                                                               *)
(***************************************************************************)
EXTENDS GdbData, SequenceTheorems, TLAPS

---------------------------------------------------------------------------
(* Operations, calls and scripts *)

\* What the proofs need to know of an operation: IsOp without what is written.
Proper(o) ==
  \/ o.kind \in {"write", "read"} /\ o.addr \in Nat /\ o.size \in Sizes
  \/ o.kind = "bytes" /\ o.addr \in Nat /\ o.bytes \in Seq(Byte) /\ o.bytes # <<>>
  \/ o.kind = "block" /\ o.addr \in Nat /\ o.len \in Nat \ {0}
  \/ o.kind \in {"set", "get"} /\ o.reg \in Regs
  \/ o.kind = "all"

InMem(c) == c.call \in {"store", "load"}
ProperCall(c) ==
  \/ InMem(c) /\ c.addr \in Nat /\ c.size \in Nat \ {0}
  \/ c.call \in {"set", "get"} /\ c.reg \in Regs

\* What a call of an operation has to do with it.
PartOf(c, o) ==
  /\ c.call = "store" =>
       \A i \in 0 .. c.size - 1 : <<c.addr + i, ByteOf(c.val, i)>> \in AskedBytes(o)
  /\ c.call = "set" => <<c.reg, c.val>> \in AskedRegs(o)
  /\ InMem(c) <=> o.kind \in {"write", "read", "bytes", "block"}
  /\ InMem(c) /\ Answers(o) => c.addr \in Addr /\ c.addr % c.size = 0

\* The constants are what they should be.
LEMMA Sized ==
  /\ WordBytes \in Nat \ {0} /\ NBytes \in Nat \ {0} /\ Sizes \subseteq Nat \ {0}
  /\ 1 \in Sizes /\ WordBytes \in Sizes
  /\ Registers \in Seq(STRING) /\ {"x8", "x9"} \subseteq Regs
BY DmAssumption DEF Sizes, WordBytes

\* A sequence given by a function.
LEMMA SeqFcn ==
  ASSUME NEW n \in Nat, NEW S, NEW f \in [1 .. n -> S]
  PROVE  f \in Seq(S) /\ Len(f) = n
BY SMT

\* Multiples of a positive number.
LEMMA Multiple == ASSUME NEW w \in Nat \ {0}, NEW m \in Nat PROVE (w * m) % w = 0
OBVIOUS

---------------------------------------------------------------------------
(* The invariant *)

Call == Calls(op)[nth]
ValueOf(c) == IF c.call = "store" THEN c.val ELSE 0
SetAddress == [reg |-> "x9", write |-> TRUE, postexec |-> FALSE]
RunProgram == [reg |-> "x8", write |-> TRUE, postexec |-> TRUE]

\* Types, as far as they are needed.
Types ==
  /\ DOMAIN regs = Regs /\ DOMAIN progbuf = {1, 2}
  /\ running \in Command \cup {NoCommand}
  /\ faults \in Nat /\ hangs \in Nat
  /\ Idle => nth = 1 /\ ip = 1
  /\ ~Idle => Proper(op) /\ nth \in 1 .. Len(Calls(op)) /\ ip \in 1 .. Len(Script(Call))

\* What is being written was asked for.
Asked == ~Idle => AskedBytes(op) \subseteq issued.bytes /\ AskedRegs(op) \subseteq issued.regs

\* Another debugger's auto-execution ends with the first access there is.
Leftover == auto => ~Busy /\ (~Idle => ip = 1 /\ InMem(Call))

\* A command that is being executed does no harm, whatever has become of the
\* operation that started it: a register gets what was asked for, and the program
\* stores what was asked for where it was asked for.
Harmless ==
  Busy =>
    /\ running.write /\ running.reg \notin {"x8", "x9"} => <<running.reg, data0>> \in issued.regs
    /\ running.postexec => /\ running = RunProgram
                           /\ progbuf[1].insn \in {"store", "load"} /\ progbuf[1].size \in Nat \ {0}
    /\ running.postexec /\ progbuf[1].insn = "store" =>
         \A i \in 0 .. progbuf[1].size - 1 :
           <<regs["x9"] + i, ByteOf(data0, i)>> \in issued.bytes

\* Unless an error is remembered, every access of the call so far has taken effect.
InMemProgress(c) ==
  /\ ip > 2 => progbuf[1] = Insn(c.call, c.size)
  /\ ip > 3 => progbuf[2] = Ebreak
  /\ ip \in {2, 3, 4, 5, 7, 8, 10, 12} => ~Busy
  /\ ip = 5 => data0 = c.addr
  /\ ip = 6 => IF Busy THEN running = SetAddress /\ data0 = c.addr ELSE regs["x9"] = c.addr
  /\ ip \in {7, 8} => regs["x9"] = c.addr
  /\ ip = 8 => data0 = ValueOf(c)
  /\ ip = 9 /\ Busy => running = RunProgram /\ regs["x9"] = c.addr
  /\ ip = 11 /\ Busy => ~running.postexec
RegProgress(c) ==
  /\ c.call = "set" /\ ip = 2 => ~Busy /\ data0 = c.val
  /\ c.call = "get" /\ ip = 3 => ~Busy
  /\ ip > 1 /\ Busy => ~running.postexec
Progress ==
  ~Idle /\ cmderr = "none" => IF InMem(Call) THEN InMemProgress(Call) ELSE RegProgress(Call)

\* As long as no access failed and no command was given up on, nothing is left
\* behind by one call for the next, and there is one reason for an error.
Unanswerable(c) == InMem(c) /\ (c.addr \notin Addr \/ c.addr % c.size # 0)
Clean ==
  faults + hangs = 0 =>
    /\ Idle => ~Busy /\ cmderr = "none"
    /\ ~Idle =>
         IF At.access # "wait" THEN ~Busy /\ cmderr = "none"
         ELSE cmderr # "none" => ~Busy /\ (halted => Unanswerable(Call))

DmInv == Types /\ Asked /\ Leftover /\ Harmless /\ Progress /\ Clean

\* The accesses of a store or load.
LEMMA MemScript ==
  ASSUME NEW c, InMem(c)
  PROVE  LET s == Script(c)
         IN  /\ Len(s) = IF c.call = "store" THEN 9 ELSE 12
             /\ s[1] = W("AUTO", FALSE) /\ s[2] = W("PROGBUF0", Insn(c.call, c.size))
             /\ s[3] = W("PROGBUF1", Ebreak) /\ s[4] = W("DATA0", c.addr)
             /\ s[5] = C("x9", TRUE, FALSE) /\ s[6] = Wait
             /\ s[7] = W("DATA0", ValueOf(c)) /\ s[8] = C("x8", TRUE, TRUE) /\ s[9] = Wait
             /\ c.call = "load" =>
                  s[10] = C("x8", FALSE, FALSE) /\ s[11] = Wait /\ s[12] = R("DATA0")
<1> DEFINE a == W("AUTO", FALSE)
           b == W("PROGBUF0", Insn(c.call, c.size))
           d == W("PROGBUF1", Ebreak)
           e == W("DATA0", c.addr)
           f == C("x9", TRUE, FALSE)
           g == W("DATA0", ValueOf(c))
           h == C("x8", TRUE, TRUE)
           k == C("x8", FALSE, FALSE)
           l == R("DATA0")
           r == (<<a, b, d>> \o <<e, f, Wait>>) \o <<g, h, Wait>>
<1>1. c.call = "store" => Script(c) = r
  BY DEF Script, dm_run, dm_load_program, dm_command_in, ValueOf
<1>2. c.call = "load" => Script(c) = r \o <<k, Wait, l>>
  BY DEF Script, dm_run, dm_load_program, dm_command_in, dm_command_out, ValueOf
<1>3. /\ Len(r) = 9 /\ r[1] = a /\ r[2] = b /\ r[3] = d /\ r[4] = e /\ r[5] = f /\ r[6] = Wait
      /\ r[7] = g /\ r[8] = h /\ r[9] = Wait
  <2> HIDE DEF a, b, d, e, f, g, h
  <2> QED OBVIOUS
<1>4. LET s == r \o <<k, Wait, l>>
      IN  /\ Len(s) = 12 /\ s[1] = a /\ s[2] = b /\ s[3] = d /\ s[4] = e /\ s[5] = f /\ s[6] = Wait
          /\ s[7] = g /\ s[8] = h /\ s[9] = Wait /\ s[10] = k /\ s[11] = Wait /\ s[12] = l
  <2> HIDE DEF a, b, d, e, f, g, h, k, l
  <2> QED OBVIOUS
<1>5. CASE c.call = "store"
  <2> HIDE DEF r
  <2> QED BY <1>1, <1>3, <1>5
<1>6. CASE c.call = "load"
  <2> HIDE DEF r
  <2> QED BY <1>2, <1>4, <1>6
<1> QED BY <1>5, <1>6 DEF InMem

\* Those of a register access.
LEMMA RegScript ==
  ASSUME NEW c
  PROVE  /\ c.call = "set" => /\ Len(Script(c)) = 3 /\ Script(c)[1] = W("DATA0", c.val)
                              /\ Script(c)[2] = C(c.reg, TRUE, FALSE) /\ Script(c)[3] = Wait
         /\ c.call = "get" => /\ Len(Script(c)) = 3 /\ Script(c)[1] = C(c.reg, FALSE, FALSE)
                              /\ Script(c)[2] = Wait /\ Script(c)[3] = R("DATA0")
<1>1. ASSUME c.call = "set"
      PROVE  /\ Len(Script(c)) = 3 /\ Script(c)[1] = W("DATA0", c.val)
             /\ Script(c)[2] = C(c.reg, TRUE, FALSE) /\ Script(c)[3] = Wait
  <2>1. Script(c) = dm_command_in(c.reg, FALSE, c.val)
    BY <1>1 DEF Script
  <2> QED BY <2>1 DEF dm_command_in
<1>2. ASSUME c.call = "get"
      PROVE  /\ Len(Script(c)) = 3 /\ Script(c)[1] = C(c.reg, FALSE, FALSE)
             /\ Script(c)[2] = Wait /\ Script(c)[3] = R("DATA0")
  <2>1. Script(c) = dm_command_out(c.reg)
    BY <1>2 DEF Script
  <2> QED BY <2>1 DEF dm_command_out
<1> QED BY <1>1, <1>2

\* The pieces wl_dm_read_block cuts a block into.
LEMMA Pieces ==
  ASSUME NEW a \in Nat, NEW n \in Nat
  PROVE  /\ HeadOf(a, n) \in Nat /\ HeadOf(a, n) <= n /\ WordsOf(a, n) \in Nat
         /\ TailAt(a, n) \in Nat /\ TailAt(a, n) <= n
         /\ TailAt(a, n) = HeadOf(a, n) + WordsOf(a, n) * WordBytes
         /\ WordsOf(a, n) > 0 => (a + HeadOf(a, n)) % WordBytes = 0
<1> DEFINE u == (WordBytes - (a % WordBytes)) % WordBytes
<1>1. WordBytes \in Nat \ {0}
  BY Sized
<1>2. a % WordBytes \in Nat /\ a % WordBytes < WordBytes
  BY <1>1
<1>3. u \in Nat /\ u < WordBytes
  BY <1>1, <1>2
<1>4. (a + u) % WordBytes = 0
  BY <1>1
<1> HIDE DEF u
<1>5. HeadOf(a, n) = IF n < u THEN n ELSE u
  BY DEF HeadOf, u
<1>6. HeadOf(a, n) \in Nat /\ HeadOf(a, n) <= n /\ n - HeadOf(a, n) \in Nat
  BY <1>3, <1>5
<1>7. WordsOf(a, n) \in Nat /\ WordsOf(a, n) * WordBytes <= n - HeadOf(a, n)
  BY <1>1, <1>6 DEF WordsOf
<1>8. WordsOf(a, n) * WordBytes \in Nat
  BY <1>1, <1>7
<1>9. ASSUME WordsOf(a, n) > 0 PROVE (a + HeadOf(a, n)) % WordBytes = 0
  <2>1. WordsOf(a, n) * WordBytes >= WordBytes
    BY <1>1, <1>7, <1>9
  <2>2. n - HeadOf(a, n) >= WordBytes
    BY <1>1, <1>6, <1>7, <1>8, <2>1
  <2>3. HeadOf(a, n) = u
    BY <1>1, <1>3, <1>5, <2>2
  <2> QED BY <1>4, <2>3
<1> QED BY <1>6, <1>7, <1>8, <1>9 DEF TailAt

\* The calls of wl_dm_read_block, one by one.
LEMMA BlockIs ==
  ASSUME NEW a \in Nat, NEW n \in Nat \ {0}
  PROVE  LET s == wl_dm_read_block(a, n)
             h == HeadOf(a, n)
             w == WordsOf(a, n)
             t == TailAt(a, n)
         IN  /\ h \in Nat /\ w \in Nat /\ t = h + w * WordBytes /\ t <= n /\ t \in Nat
             /\ Len(s) = h + w + (n - t) /\ DOMAIN s = 1 .. h + w + (n - t)
             /\ \A i \in 1 .. h : s[i] = Load(a + i - 1, 1)
             /\ \A i \in 1 .. w : s[h + i] = Load(a + h + (i - 1) * WordBytes, WordBytes)
             /\ \A i \in 1 .. n - t : s[h + w + i] = Load(a + t + i - 1, 1)
<1> DEFINE h == HeadOf(a, n)
           w == WordsOf(a, n)
           t == TailAt(a, n)
           s1 == [i \in 1 .. h |-> Load(a + i - 1, 1)]
           s2 == [i \in 1 .. w |-> Load(a + h + (i - 1) * WordBytes, WordBytes)]
           s3 == [i \in 1 .. n - t |-> Load(a + t + i - 1, 1)]
           L == {s1[i] : i \in 1 .. h} \cup {s2[i] : i \in 1 .. w} \cup {s3[i] : i \in 1 .. n - t}
<1>0. wl_dm_read_block(a, n) = s1 \o s2 \o s3
  BY DEF wl_dm_read_block
<1>1. h \in Nat /\ w \in Nat /\ t \in Nat /\ t <= n /\ t = h + w * WordBytes /\ n - t \in Nat
  <2>1. h \in Nat /\ w \in Nat /\ t \in Nat /\ t <= n /\ t = h + w * WordBytes
    BY Pieces
  <2> QED BY <2>1
<1> HIDE DEF h, w, t
<1>2. s1 \in [1 .. h -> L] /\ s2 \in [1 .. w -> L] /\ s3 \in [1 .. n - t -> L]
  OBVIOUS
<1>3. /\ \A i \in 1 .. h : s1[i] = Load(a + i - 1, 1)
      /\ \A i \in 1 .. w : s2[i] = Load(a + h + (i - 1) * WordBytes, WordBytes)
      /\ \A i \in 1 .. n - t : s3[i] = Load(a + t + i - 1, 1)
  OBVIOUS
<1> HIDE DEF s1, s2, s3, L
<1>4. /\ s1 \in Seq(L) /\ Len(s1) = h /\ s2 \in Seq(L) /\ Len(s2) = w
      /\ s3 \in Seq(L) /\ Len(s3) = n - t
  BY <1>1, <1>2, SeqFcn
<1> DEFINE s12 == s1 \o s2
<1>5. /\ s12 \in Seq(L) /\ Len(s12) = h + w
      /\ \A i \in 1 .. h + w : s12[i] = IF i <= h THEN s1[i] ELSE s2[i - h]
  <2>1. /\ s12 \in Seq(L) /\ Len(s12) = Len(s1) + Len(s2)
        /\ \A i \in 1 .. Len(s1) + Len(s2) :
             s12[i] = IF i <= Len(s1) THEN s1[i] ELSE s2[i - Len(s1)]
    BY <1>4, ConcatProperties
  <2> QED BY <1>4, <2>1
<1> HIDE DEF s12
<1> DEFINE s == s12 \o s3
<1>6. /\ s \in Seq(L) /\ Len(s) = h + w + (n - t)
      /\ \A i \in 1 .. h + w + (n - t) :
           s[i] = IF i <= h + w THEN s12[i] ELSE s3[i - (h + w)]
  <2>1. /\ s \in Seq(L) /\ Len(s) = Len(s12) + Len(s3)
        /\ \A i \in 1 .. Len(s12) + Len(s3) :
             s[i] = IF i <= Len(s12) THEN s12[i] ELSE s3[i - Len(s12)]
    <3>1. s12 \in Seq(L) /\ s3 \in Seq(L)
      BY <1>4, <1>5
    <3> QED BY <3>1, ConcatProperties
  <2> QED BY <1>4, <1>5, <2>1
<1> HIDE DEF s
<1>7. DOMAIN s = 1 .. h + w + (n - t)
  BY <1>6
<1>8. \A i \in 1 .. h : s[i] = s1[i]
  BY <1>1, <1>5, <1>6
<1>9. ASSUME NEW i \in 1 .. w PROVE s[h + i] = s2[i]
  <2>1. h + i \in 1 .. h + w /\ ~(h + i <= h) /\ (h + i) - h = i /\ h + i \in 1 .. h + w + (n - t)
    BY <1>1
  <2>2. s[h + i] = s12[h + i]
    BY <1>1, <1>6, <2>1
  <2> QED BY <1>5, <2>1, <2>2
<1>10. ASSUME NEW i \in 1 .. n - t PROVE s[h + w + i] = s3[i]
  <2>1. /\ h + w + i \in 1 .. h + w + (n - t) /\ ~(h + w + i <= h + w)
        /\ (h + w + i) - (h + w) = i
    BY <1>1
  <2> QED BY <1>6, <2>1
<1>11. wl_dm_read_block(a, n) = s
  BY <1>0 DEF s, s12
<1> QED BY <1>1, <1>3, <1>6, <1>7, <1>8, <1>9, <1>10, <1>11 DEF h, w, t

\* What wl_dm_read_block reads: pieces that are aligned, lie in the block and follow
\* each other.
LEMMA BlockCalls ==
  ASSUME NEW a \in Nat, NEW n \in Nat \ {0}
  PROVE  LET s == wl_dm_read_block(a, n)
         IN  /\ Len(s) \in Nat \ {0}
             /\ \A i \in 1 .. Len(s) : \E b \in Nat, z \in Sizes :
                  s[i] = Load(b, z) /\ b % z = 0 /\ a <= b /\ b < a + n
             /\ s[1].addr = a
             /\ \A i \in 2 .. Len(s) : s[i].addr = s[i - 1].addr + s[i - 1].size
<1> DEFINE s == wl_dm_read_block(a, n)
           h == HeadOf(a, n)
           w == WordsOf(a, n)
           t == TailAt(a, n)
<1>1. /\ h \in Nat /\ w \in Nat /\ t = h + w * WordBytes /\ t <= n /\ t \in Nat
      /\ Len(s) = h + w + (n - t)
      /\ \A i \in 1 .. h : s[i] = Load(a + i - 1, 1)
      /\ \A i \in 1 .. w : s[h + i] = Load(a + h + (i - 1) * WordBytes, WordBytes)
      /\ \A i \in 1 .. n - t : s[h + w + i] = Load(a + t + i - 1, 1)
  <2> HIDE DEF s, h, w, t
  <2> QED BY BlockIs DEF s, h, w, t
<1>2. w > 0 => (a + h) % WordBytes = 0
  BY Pieces
<1> HIDE DEF s, h, w, t
<1> USE DEF WordBytes
<1>3. h + w + (n - t) \in Nat \ {0}
  BY <1>1
<1>4. ASSUME NEW i \in 1 .. Len(s)
      PROVE  \/ i \in 1 .. h /\ s[i] = Load(a + i - 1, 1)
             \/ i - h \in 1 .. w /\ s[i] = Load(a + h + (i - h - 1) * 4, 4)
             \/ i - h - w \in 1 .. n - t /\ s[i] = Load(a + t + i - h - w - 1, 1)
  <2>1. CASE i <= h
    <3>1. i \in 1 .. h
      BY <1>1, <2>1
    <3> QED BY <1>1, <3>1
  <2>2. CASE h < i /\ i <= h + w
    <3>1. i - h \in 1 .. w /\ h + (i - h) = i
      BY <1>1, <2>2
    <3>2. s[h + (i - h)] = Load(a + h + ((i - h) - 1) * 4, 4)
      BY <1>1, <3>1
    <3> QED BY <3>1, <3>2
  <2>3. CASE h + w < i
    <3>1. i - h - w \in 1 .. n - t /\ h + w + (i - h - w) = i
      BY <1>1, <2>3
    <3>2. s[h + w + (i - h - w)] = Load(a + t + (i - h - w) - 1, 1)
      BY <1>1, <3>1
    <3>3. a + t + (i - h - w) - 1 = a + t + i - h - w - 1
      BY <1>1
    <3> QED BY <3>1, <3>2, <3>3
  <2> QED BY <1>1, <2>1, <2>2, <2>3
<1>5. ASSUME NEW i \in 1 .. Len(s)
      PROVE  \E b \in Nat, z \in Sizes :
               s[i] = Load(b, z) /\ b % z = 0 /\ a <= b /\ b < a + n
  <2>1. 1 \in Sizes /\ 4 \in Sizes
    BY DEF Sizes
  <2>2. CASE i \in 1 .. h /\ s[i] = Load(a + i - 1, 1)
    <3>1. a + i - 1 \in Nat /\ (a + i - 1) % 1 = 0 /\ a <= a + i - 1 /\ a + i - 1 < a + n
      BY <1>1, <2>2
    <3> QED BY <2>1, <2>2, <3>1
  <2>3. CASE i - h \in 1 .. w /\ s[i] = Load(a + h + (i - h - 1) * 4, 4)
    <3> DEFINE b == a + h + (i - h - 1) * 4
    <3>1. b \in Nat /\ b % 4 = 0 /\ a <= b /\ b < a + n
      BY <1>1, <1>2, <2>3
    <3> HIDE DEF b
    <3>2. s[i] = Load(b, 4)
      BY <2>3 DEF b
    <3> QED BY <2>1, <3>1, <3>2
  <2>4. CASE i - h - w \in 1 .. n - t /\ s[i] = Load(a + t + i - h - w - 1, 1)
    <3> DEFINE b == a + t + i - h - w - 1
    <3>1. b \in Nat /\ b % 1 = 0 /\ a <= b /\ b < a + n
      BY <1>1, <2>4
    <3> HIDE DEF b
    <3>2. s[i] = Load(b, 1)
      BY <2>4 DEF b
    <3> QED BY <2>1, <3>1, <3>2
  <2> QED BY <1>4, <2>2, <2>3, <2>4
<1>6. s[1].addr = a
  <2>1. 1 \in 1 .. Len(s)
    BY <1>1, <1>3
  <2>2. CASE 1 \in 1 .. h /\ s[1] = Load(a + 1 - 1, 1)
    BY <2>2 DEF Load
  <2>3. CASE 1 - h \in 1 .. w /\ s[1] = Load(a + h + (1 - h - 1) * 4, 4)
    BY <1>1, <2>3 DEF Load
  <2>4. CASE 1 - h - w \in 1 .. n - t /\ s[1] = Load(a + t + 1 - h - w - 1, 1)
    BY <1>1, <2>4 DEF Load
  <2> QED BY <1>4, <2>1, <2>2, <2>3, <2>4
<1>7. ASSUME NEW i \in 2 .. Len(s) PROVE s[i].addr = s[i - 1].addr + s[i - 1].size
  <2>1. i \in 1 .. Len(s) /\ i - 1 \in 1 .. Len(s)
    BY <1>1, <1>3
  <2> DEFINE AddrAt(j) == IF j <= h THEN a + j - 1
                          ELSE IF j <= h + w THEN a + h + (j - h - 1) * 4
                          ELSE a + t + j - h - w - 1
             SizeAt(j) == IF j <= h THEN 1 ELSE IF j <= h + w THEN 4 ELSE 1
  <2>2. ASSUME NEW j \in 1 .. Len(s) PROVE s[j].addr = AddrAt(j) /\ s[j].size = SizeAt(j)
    <3>1. CASE j \in 1 .. h /\ s[j] = Load(a + j - 1, 1)
      BY <1>1, <3>1 DEF Load
    <3>2. CASE j - h \in 1 .. w /\ s[j] = Load(a + h + (j - h - 1) * 4, 4)
      <4>1. ~(j <= h) /\ j <= h + w
        BY <1>1, <3>2
      <4> QED BY <3>2, <4>1 DEF Load
    <3>3. CASE j - h - w \in 1 .. n - t /\ s[j] = Load(a + t + j - h - w - 1, 1)
      <4>1. ~(j <= h) /\ ~(j <= h + w)
        BY <1>1, <3>3
      <4> QED BY <3>3, <4>1 DEF Load
    <3> QED BY <1>4, <3>1, <3>2, <3>3
  <2>3. AddrAt(i) = AddrAt(i - 1) + SizeAt(i - 1)
    BY <1>1
  <2> HIDE DEF AddrAt, SizeAt
  <2> QED BY <2>1, <2>2, <2>3
<1> QED BY <1>1, <1>3, <1>5, <1>6, <1>7 DEF s

\* What the calls of an operation are.
LEMMA CallsAre ==
  ASSUME NEW o, Proper(o)
  PROVE  /\ Len(Calls(o)) \in Nat \ {0}
         /\ \A n \in 1 .. Len(Calls(o)) : ProperCall(Calls(o)[n]) /\ PartOf(Calls(o)[n], o)
<1>1. CASE o.kind = "write"
  <2>1. Calls(o) = <<Store(o.addr, o.size, o.val)>>
    BY <1>1 DEF Calls
  <2>2. ProperCall(Store(o.addr, o.size, o.val))
    BY <1>1, Sized DEF Proper, ProperCall, Store, InMem
  <2>3. PartOf(Store(o.addr, o.size, o.val), o)
    <3>1. Answers(o) => o.addr \in Addr /\ o.addr % o.size = 0
      BY <1>1, Sized DEF Answers, InMemory, Addr, Proper
    <3> QED BY <1>1, <3>1 DEF PartOf, Store, InMem, AskedBytes
  <2> QED BY <2>1, <2>2, <2>3
<1>2. CASE o.kind = "read"
  <2>1. Calls(o) = <<Load(o.addr, o.size)>>
    BY <1>2 DEF Calls
  <2>2. ProperCall(Load(o.addr, o.size))
    BY <1>2, Sized DEF Proper, ProperCall, Load, InMem
  <2>3. PartOf(Load(o.addr, o.size), o)
    <3>1. Answers(o) => o.addr \in Addr /\ o.addr % o.size = 0
      BY <1>2, Sized DEF Answers, InMemory, Addr, Proper
    <3> QED BY <1>2, <3>1 DEF PartOf, Load, InMem
  <2> QED BY <2>1, <2>2, <2>3
<1>3. CASE o.kind = "bytes"
  <2>1. /\ o.addr \in Nat /\ o.bytes \in Seq(Byte) /\ Len(o.bytes) \in Nat \ {0}
        /\ DOMAIN o.bytes = 1 .. Len(o.bytes)
    BY <1>3 DEF Proper
  <2> DEFINE k == Len(o.bytes)
             f == [i \in 1 .. k |-> Store(o.addr + i - 1, 1, o.bytes[i])]
  <2>2. Calls(o) = f
    BY <1>3, <2>1 DEF Calls
  <2>3. Len(f) = k
    <3>1. f \in [1 .. k -> {f[i] : i \in 1 .. k}]
      OBVIOUS
    <3> HIDE DEF f
    <3> QED BY <2>1, <3>1, SeqFcn
  <2>4. ASSUME NEW n \in 1 .. k
        PROVE  ProperCall(f[n]) /\ PartOf(f[n], o)
    <3>1. /\ o.addr + n - 1 \in Nat
          /\ f[n] = Store(o.addr + n - 1, 1, o.bytes[n])
      BY <2>1
    <3>2. ProperCall(f[n])
      BY <3>1 DEF ProperCall, Store, InMem
    <3>3. <<o.addr + n - 1, ByteOf(o.bytes[n], 0)>> \in AskedBytes(o)
      BY <1>3, <2>1 DEF AskedBytes
    <3>4. Answers(o) => o.addr + n - 1 \in Addr /\ (o.addr + n - 1) % 1 = 0
      BY <1>3, <2>1, <3>1, Sized DEF Answers, InMemory, Addr
    <3>5. /\ f[n].call = "store" /\ f[n].addr = o.addr + n - 1 /\ f[n].size = 1
          /\ f[n].val = o.bytes[n]
      BY <3>1 DEF Store
    <3>6. ASSUME NEW i \in 0 .. f[n].size - 1
          PROVE  <<f[n].addr + i, ByteOf(f[n].val, i)>> \in AskedBytes(o)
      <4>1. i = 0 /\ f[n].addr + i = o.addr + n - 1
        BY <3>1, <3>5
      <4> QED BY <3>3, <3>5, <4>1
    <3> HIDE DEF f
    <3> QED BY <1>3, <3>2, <3>4, <3>5, <3>6 DEF PartOf, InMem
  <2> QED BY <2>1, <2>2, <2>3, <2>4
<1>4. CASE o.kind = "block"
  <2>1. Calls(o) = wl_dm_read_block(o.addr, o.len) /\ o.addr \in Nat /\ o.len \in Nat \ {0}
    BY <1>4 DEF Calls, Proper
  <2> DEFINE s == wl_dm_read_block(o.addr, o.len)
  <2>2. /\ Len(s) \in Nat \ {0}
        /\ \A i \in 1 .. Len(s) : \E b \in Nat, z \in Sizes :
             s[i] = Load(b, z) /\ b % z = 0 /\ o.addr <= b /\ b < o.addr + o.len
    BY <2>1, BlockCalls
  <2> HIDE DEF s
  <2>3. ASSUME NEW i \in 1 .. Len(s) PROVE ProperCall(s[i]) /\ PartOf(s[i], o)
    <3>1. PICK b \in Nat, z \in Sizes :
             s[i] = Load(b, z) /\ b % z = 0 /\ o.addr <= b /\ b < o.addr + o.len
      BY <2>2
    <3>2. Answers(o) => b \in Addr
      BY <1>4, <2>1, <3>1, Sized DEF Answers, InMemory, Addr
    <3>3. z \in Nat \ {0}
      BY Sized
    <3> QED BY <1>4, <3>1, <3>2, <3>3 DEF ProperCall, PartOf, InMem, Load
  <2> QED BY <2>1, <2>2, <2>3 DEF s
<1>5. CASE o.kind = "set"
  <2>1. Calls(o) = <<[call |-> "set", reg |-> o.reg, val |-> o.val]>> /\ o.reg \in Regs
    BY <1>5 DEF Calls, Proper
  <2> QED BY <1>5, <2>1 DEF ProperCall, PartOf, InMem, AskedRegs
<1>6. CASE o.kind = "get"
  <2>1. Calls(o) = <<[call |-> "get", reg |-> o.reg]>> /\ o.reg \in Regs
    BY <1>6 DEF Calls, Proper
  <2> QED BY <1>6, <2>1 DEF ProperCall, PartOf, InMem
<1>7. CASE o.kind = "all"
  <2> DEFINE k == Len(Registers)
             f == [i \in 1 .. k |-> [call |-> "get", reg |-> Registers[i]]]
  <2>1. k \in Nat /\ DOMAIN Registers = 1 .. k
    BY Sized
  <2>2. Calls(o) = f
    BY <1>7, <2>1 DEF Calls
  <2>3. Len(f) = k
    <3>1. f \in [1 .. k -> {f[i] : i \in 1 .. k}]
      OBVIOUS
    <3> HIDE DEF f
    <3> QED BY <2>1, <3>1, SeqFcn
  <2>4. ASSUME NEW n \in 1 .. k
        PROVE  ProperCall(f[n]) /\ PartOf(f[n], o)
    <3>1. f[n] = [call |-> "get", reg |-> Registers[n]] /\ Registers[n] \in Regs
      BY <2>1 DEF Regs
    <3> QED BY <1>7, <3>1 DEF ProperCall, PartOf, InMem
  <2>5. k # 0
    BY <2>1, Sized DEF Regs
  <2> QED BY <2>1, <2>2, <2>3, <2>4, <2>5
<1> QED BY <1>1, <1>2, <1>3, <1>4, <1>5, <1>6, <1>7 DEF Proper

---------------------------------------------------------------------------
(* The tool's steps *)

\* The access the tool is at.
LEMMA AtIs ==
  ASSUME Types, ~Idle
  PROVE  /\ ProperCall(Call) /\ PartOf(Call, op)
         /\ Len(Calls(op)) \in Nat \ {0} /\ nth \in Nat \ {0} /\ nth <= Len(Calls(op))
         /\ ip \in 1 .. Len(Script(Call)) /\ At = Script(Call)[ip]
         /\ InMem(Call) =>
              /\ Len(Script(Call)) = IF Call.call = "store" THEN 9 ELSE 12
              /\ ip > 9 => Call.call = "load"
              /\ ip = 1 => At = W("AUTO", FALSE)
              /\ ip = 2 => At = W("PROGBUF0", Insn(Call.call, Call.size))
              /\ ip = 3 => At = W("PROGBUF1", Ebreak)
              /\ ip = 4 => At = W("DATA0", Call.addr)
              /\ ip = 5 => At = C("x9", TRUE, FALSE)
              /\ ip = 7 => At = W("DATA0", ValueOf(Call))
              /\ ip = 8 => At = C("x8", TRUE, TRUE)
              /\ ip \in {6, 9, 11} => At = Wait
              /\ ip = 10 => At = C("x8", FALSE, FALSE)
              /\ ip = 12 => At = R("DATA0")
         /\ ~InMem(Call) =>
              /\ Len(Script(Call)) = 3 /\ Call.call \in {"set", "get"} /\ Call.reg \in Regs
              /\ Call.call = "set" => /\ ip = 1 => At = W("DATA0", Call.val)
                                      /\ ip = 2 => At = C(Call.reg, TRUE, FALSE)
                                      /\ ip = 3 => At = Wait
              /\ Call.call = "get" => /\ ip = 1 => At = C(Call.reg, FALSE, FALSE)
                                      /\ ip = 2 => At = Wait
                                      /\ ip = 3 => At = R("DATA0")
<1>1. /\ Proper(op) /\ nth \in 1 .. Len(Calls(op)) /\ ip \in 1 .. Len(Script(Call))
      /\ At = Script(Call)[ip]
  BY DEF Types, At, Call
<1>2. /\ ProperCall(Call) /\ PartOf(Call, op) /\ Len(Calls(op)) \in Nat \ {0}
      /\ nth \in Nat \ {0} /\ nth <= Len(Calls(op))
  BY <1>1, CallsAre DEF Call
<1>3. CASE InMem(Call)
  <2>1. /\ Len(Script(Call)) = IF Call.call = "store" THEN 9 ELSE 12
        /\ Script(Call)[1] = W("AUTO", FALSE)
        /\ Script(Call)[2] = W("PROGBUF0", Insn(Call.call, Call.size))
        /\ Script(Call)[3] = W("PROGBUF1", Ebreak) /\ Script(Call)[4] = W("DATA0", Call.addr)
        /\ Script(Call)[5] = C("x9", TRUE, FALSE) /\ Script(Call)[6] = Wait
        /\ Script(Call)[7] = W("DATA0", ValueOf(Call)) /\ Script(Call)[8] = C("x8", TRUE, TRUE)
        /\ Script(Call)[9] = Wait
        /\ Call.call = "load" => /\ Script(Call)[10] = C("x8", FALSE, FALSE)
                                 /\ Script(Call)[11] = Wait /\ Script(Call)[12] = R("DATA0")
    BY <1>3, MemScript
  <2>2. Call.call \in {"store", "load"}
    BY <1>3 DEF InMem
  <2>3. ip > 9 => Call.call = "load"
    BY <1>1, <2>1, <2>2
  <2>4. /\ ip = 1 => At = W("AUTO", FALSE)
        /\ ip = 2 => At = W("PROGBUF0", Insn(Call.call, Call.size))
        /\ ip = 3 => At = W("PROGBUF1", Ebreak)
        /\ ip = 4 => At = W("DATA0", Call.addr)
        /\ ip = 5 => At = C("x9", TRUE, FALSE)
    BY <1>1, <2>1, Zenon
  <2>5. /\ ip = 7 => At = W("DATA0", ValueOf(Call))
        /\ ip = 8 => At = C("x8", TRUE, TRUE)
        /\ ip \in {6, 9} => At = Wait
    BY <1>1, <2>1, Zenon
  <2>6. /\ ip = 10 => At = C("x8", FALSE, FALSE)
        /\ ip = 11 => At = Wait
        /\ ip = 12 => At = R("DATA0")
    <3>1. ip \in {10, 11, 12} => Call.call = "load"
      BY <2>3
    <3> QED BY <1>1, <2>1, <3>1, Zenon
  <2>7. ip \in {6, 9, 11} => At = Wait
    BY <2>5, <2>6
  <2> QED BY <1>1, <1>2, <1>3, <2>1, <2>3, <2>4, <2>5, <2>6, <2>7, Zenon
<1>4. CASE ~InMem(Call)
  <2>1. Call.call \in {"set", "get"} /\ Call.reg \in Regs
    BY <1>2, <1>4 DEF ProperCall
  <2> QED BY <1>1, <1>2, <1>4, <2>1, RegScript
<1> QED BY <1>3, <1>4

\* The tool goes on to the next access, to the next call or to the end.
LEMMA Advances ==
  ASSUME Types, ~Idle, NEW STATE w, Advance(w)
  PROVE  /\ (Idle => nth = 1 /\ ip = 1)'
         /\ (~Idle => Proper(op) /\ nth \in 1 .. Len(Calls(op)) /\ ip \in 1 .. Len(Script(Call)))'
         /\ \/ op' = op /\ nth' = nth /\ ip' = ip + 1 /\ Call' = Call /\ ~Idle'
            \/ op' = op /\ nth' = nth + 1 /\ ip' = 1 /\ ip = Len(Script(Call)) /\ ~Idle'
            \/ /\ op' = NoOp /\ nth' = 1 /\ ip' = 1 /\ ip = Len(Script(Call)) /\ Idle'
               /\ result'.status = "ok"
<1>1. /\ Proper(op) /\ Len(Calls(op)) \in Nat \ {0} /\ nth \in Nat \ {0}
      /\ nth <= Len(Calls(op)) /\ ip \in 1 .. Len(Script(Call))
  BY AtIs DEF Types
<1>2. Len(Script(Call)) \in {3, 9, 12}
  BY AtIs
<1>3. CASE ip < Len(Script(Call)) /\ ip' = ip + 1 /\ UNCHANGED <<op, nth>>
  BY <1>1, <1>2, <1>3 DEF Idle, Call
<1>4. CASE /\ ip >= Len(Script(Call)) /\ nth < Len(Calls(op))
           /\ nth' = nth + 1 /\ ip' = 1 /\ UNCHANGED op
  <2>1. nth + 1 \in 1 .. Len(Calls(op)) /\ ip = Len(Script(Call))
    BY <1>1, <1>2, <1>4
  <2>2. ProperCall(Calls(op)[nth + 1])
    BY <1>1, <2>1, CallsAre
  <2>3. Len(Script(Calls(op)[nth + 1])) \in {3, 9, 12}
    BY <2>2, MemScript, RegScript DEF ProperCall
  <2>4. Call' = Calls(op)[nth + 1] /\ ~Idle' /\ Proper(op)'
    BY <1>1, <1>4 DEF Call, Idle
  <2>5. 1 \in 1 .. Len(Script(Call'))
    <3> DEFINE c == Calls(op)[nth + 1]
    <3>1. 1 \in 1 .. Len(Script(c))
      <4>1. \A k \in {3, 9, 12} : 1 \in 1 .. k
        OBVIOUS
      <4> QED BY <2>3, <4>1, Zenon
    <3> QED BY <2>4, <3>1, Zenon
  <2> QED BY <1>4, <2>1, <2>4, <2>5
<1>5. CASE /\ ip >= Len(Script(Call))
           /\ op' = NoOp /\ nth' = 1 /\ ip' = 1 /\ result'.status = "ok"
  BY <1>1, <1>2, <1>5 DEF Idle, NoOp
<1> QED BY <1>1, <1>2, <1>3, <1>4, <1>5 DEF Advance, Call

\* The tool gives up.
LEMMA Returns ==
  ASSUME NEW s, Return(s)
  PROVE  Idle' /\ nth' = 1 /\ ip' = 1 /\ op' = NoOp /\ result'.status = s
BY DEF Return, Idle, NoOp

\* At the first access of a call nothing has been done, and between operations
\* nothing is to be done.
LEMMA NoProgress == Idle' \/ ip' = 1 => Progress'
<1>1. Idle' => Progress'
  BY DEF Progress
<1>2. ip' = 1 => Progress'
  BY DEF Progress, InMemProgress, RegProgress
<1> QED BY <1>1, <1>2

\* As long as nothing is remembered, the module is free wherever the tool does
\* not wait for it.
LEMMA FreeToGo ==
  Types /\ Progress /\ ~Idle /\ cmderr = "none" /\ ip # 1 /\ At.access # "wait" => ~Busy
<1> SUFFICES ASSUME Types, Progress, ~Idle, cmderr = "none", ip # 1, At.access # "wait"
             PROVE  ~Busy
  OBVIOUS
<1>1. CASE InMem(Call)
  <2>1. ip \in {2, 3, 4, 5, 7, 8, 10, 12}
    <3>1. Wait.access = "wait"
      BY DEF Wait
    <3>2. ip \in 1 .. 12
      BY <1>1, AtIs
    <3>3. ip \notin {6, 9, 11}
      BY <1>1, <3>1, AtIs
    <3> QED BY <3>2, <3>3
  <2> QED BY <1>1, <2>1 DEF Progress, InMemProgress
<1>2. CASE ~InMem(Call)
  <2>1. Wait.access = "wait"
    BY DEF Wait
  <2>2. (Call.call = "set" /\ ip = 2) \/ (Call.call = "get" /\ ip = 3)
    <3>1. ip \in 1 .. 3 /\ Call.call \in {"set", "get"}
      BY <1>2, AtIs
    <3>2. /\ Call.call = "set" => ip # 3
          /\ Call.call = "get" => ip # 2
      BY <1>2, <2>1, AtIs
    <3> QED BY <3>1, <3>2
  <2> QED BY <1>2, <2>2 DEF Progress, RegProgress
<1> QED BY <1>1, <1>2

\* The kinds of accesses.
LEMMA Kinds ==
  /\ \A r, v : W(r, v).access = "write" /\ W(r, v).reg = r /\ W(r, v).val = v
  /\ Wait.access = "wait" /\ \A r : R(r).access = "read"
BY DEF W, Wait, R

\* The commands.
LEMMA CommandIs ==
  /\ \A r : C(r, FALSE, FALSE).cmd = [reg |-> r, write |-> FALSE, postexec |-> FALSE]
  /\ \A r : C(r, TRUE, FALSE).cmd = [reg |-> r, write |-> TRUE, postexec |-> FALSE]
  /\ C("x9", TRUE, FALSE).cmd = SetAddress /\ C("x8", TRUE, TRUE).cmd = RunProgram
  /\ \A r : C(r, FALSE, FALSE).access = "command" /\ C(r, TRUE, FALSE).access = "command"
  /\ C("x8", TRUE, TRUE).access = "command"
BY DEF C, SetAddress, RunProgram

\* A write that a busy module refuses changes nothing but the error.
LEMMA DmiBusy ==
  ASSUME DmiWrite(At), Busy
  PROVE  UNCHANGED <<data0, progbuf, auto, running, last>> /\ cmderr' # "none"
BY DEF DmiWrite, Latch

\* A register of an idle module is written; nothing is executed.
LEMMA DmiSet ==
  ASSUME DmInv, ~Idle, At.access = "write", DmiWrite(At), ~Busy
  PROVE  /\ cmderr' = cmderr /\ running' = NoCommand
         /\ At.reg = "AUTO" => auto' = At.val /\ UNCHANGED <<data0, progbuf>>
         /\ At.reg # "AUTO" => ~auto /\ auto' = auto
         /\ At.reg = "DATA0" => data0' = At.val /\ UNCHANGED progbuf
         /\ At.reg = "PROGBUF0" => progbuf' = [progbuf EXCEPT ![1] = At.val] /\ UNCHANGED data0
         /\ At.reg = "PROGBUF1" => progbuf' = [progbuf EXCEPT ![2] = At.val] /\ UNCHANGED data0
         /\ At.reg \in {"AUTO", "DATA0", "PROGBUF0", "PROGBUF1"}
<1>1. running = NoCommand
  BY DEF Busy
<1>2. At.reg # "AUTO" => ~auto
  <2>1. auto => At = W("AUTO", FALSE)
    BY AtIs DEF DmInv, Leftover
  <2> QED BY <2>1, Kinds
<1> QED BY <1>1, <1>2 DEF DmiWrite

\* A command is given to an idle module.
LEMMA DmiCommand ==
  ASSUME DmInv, ~Idle, At.access = "command", DmiWrite(At), ~Busy
  PROVE  /\ cmderr' = cmderr /\ UNCHANGED <<data0, progbuf, auto>> /\ ~auto
         /\ running' \in {At.cmd, NoCommand}
         /\ cmderr = "none" /\ At.cmd # NoCommand => running' = At.cmd
         /\ running' # NoCommand => cmderr = "none"
<1>1. ~auto
  <2>1. auto => At = W("AUTO", FALSE)
    BY AtIs DEF DmInv, Leftover
  <2> QED BY <2>1, Kinds
<1> QED BY <1>1 DEF DmiWrite, Start

\* What is written where.
LEMMA Writing ==
  ASSUME Types, ~Idle, At.access \in {"write", "command"}
  PROVE  IF InMem(Call)
         THEN /\ ip \in {1, 2, 3, 4, 5, 7, 8, 10}
              /\ ip \in {1, 2, 3, 4, 7} <=> At.access = "write"
              /\ ip = 1 <=> At.access = "write" /\ At.reg = "AUTO"
              /\ ip = 1 => At.val = FALSE
         ELSE /\ Call.call = "set" => ip \in {1, 2} /\ (ip = 1 <=> At.access = "write")
              /\ Call.call = "get" => ip = 1 /\ At.access = "command"
              /\ At.access = "write" => At.reg = "DATA0"
<1>1. CASE InMem(Call)
  <2>1. ip \in 1 .. 12 /\ ip \notin {6, 9, 11, 12}
    BY <1>1, AtIs, Kinds
  <2>2. /\ ip = 1 => At.access = "write" /\ At.reg = "AUTO" /\ At.val = FALSE
        /\ ip \in {2, 3, 4, 7} => At.access = "write" /\ At.reg # "AUTO"
        /\ ip \in {5, 8, 10} => At.access = "command"
    <3>1. ip = 1 => At.access = "write" /\ At.reg = "AUTO" /\ At.val = FALSE
      <4>1. ip = 1 => At = W("AUTO", FALSE)
        BY <1>1, AtIs
      <4>2. /\ W("AUTO", FALSE).access = "write" /\ W("AUTO", FALSE).reg = "AUTO"
            /\ W("AUTO", FALSE).val = FALSE
        BY Kinds, Zenon
      <4> QED BY <4>1, <4>2, Zenon
    <3>2. ip = 2 => At.access = "write" /\ At.reg # "AUTO"
      BY <1>1, AtIs, Kinds
    <3>3. ip = 3 => At.access = "write" /\ At.reg # "AUTO"
      BY <1>1, AtIs, Kinds
    <3>4. ip = 4 => At.access = "write" /\ At.reg # "AUTO"
      BY <1>1, AtIs, Kinds
    <3>5. ip = 7 => At.access = "write" /\ At.reg # "AUTO"
      BY <1>1, AtIs, Kinds
    <3>6. ip = 5 => At.access = "command"
      BY <1>1, AtIs, CommandIs
    <3>7. ip = 8 => At.access = "command"
      BY <1>1, AtIs, CommandIs
    <3>8. ip = 10 => At.access = "command"
      BY <1>1, AtIs, CommandIs
    <3> QED BY <3>1, <3>2, <3>3, <3>4, <3>5, <3>6, <3>7, <3>8
  <2> QED BY <1>1, <2>1, <2>2
<1>2. CASE ~InMem(Call)
  <2>1. Call.call \in {"set", "get"} /\ ip \in 1 .. 3
    BY <1>2, AtIs
  <2>2. CASE Call.call = "set"
    <3>1. ip # 3
      BY <1>2, <2>2, AtIs, Kinds
    <3>2. ip = 1 => At.access = "write" /\ At.reg = "DATA0"
      BY <1>2, <2>2, AtIs, Kinds
    <3>3. ip = 2 => At.access = "command"
      BY <1>2, <2>2, AtIs, CommandIs
    <3> QED BY <1>2, <2>1, <2>2, <3>1, <3>2, <3>3
  <2>3. CASE Call.call = "get"
    <3>1. ip # 3
      BY <1>2, <2>3, AtIs, Kinds
    <3>2. ip # 2
      BY <1>2, <2>3, AtIs, Kinds
    <3>3. ip = 1 => At.access = "command"
      BY <1>2, <2>3, AtIs, CommandIs
    <3> QED BY <1>2, <2>1, <2>3, <3>1, <3>2, <3>3
  <2> QED BY <2>1, <2>2, <2>3
<1> QED BY <1>1, <1>2

\* Whatever is written, what is executed does no harm, and another debugger's
\* auto-execution is off.
LEMMA DmiKeeps ==
  ASSUME DmInv, ~Idle, At.access \in {"write", "command"}, DmiWrite(At),
         UNCHANGED <<target, issued>>
  PROVE  /\ DOMAIN progbuf' = {1, 2} /\ running' \in Command \cup {NoCommand}
         /\ ~auto' /\ Harmless'
         /\ cmderr' = "none" => ~Busy /\ cmderr = "none"
<1> USE DEF target
<1>1. CASE Busy
  <2>1. UNCHANGED <<data0, progbuf, auto, running>> /\ cmderr' # "none"
    BY <1>1, DmiBusy
  <2>2. ~auto
    BY <1>1 DEF DmInv, Leftover
  <2> QED BY <2>1, <2>2 DEF DmInv, Types, Harmless, Busy
<1>2. CASE ~Busy /\ At.access = "write"
  <2>1. /\ cmderr' = cmderr /\ running' = NoCommand
        /\ DOMAIN progbuf' = {1, 2}
    BY <1>2, DmiSet DEF DmInv, Types
  <2>2. ~auto'
    <3>1. At.reg = "AUTO" => At.val = FALSE
      BY <1>2, Writing DEF DmInv
    <3> QED BY <1>2, <3>1, DmiSet, Zenon
  <2> QED BY <1>2, <2>1, <2>2 DEF Harmless, Busy
<1>3. CASE ~Busy /\ At.access = "command"
  <2>1. /\ cmderr' = cmderr /\ UNCHANGED <<data0, progbuf, auto>> /\ ~auto
        /\ running' \in {At.cmd, NoCommand} /\ (running' # NoCommand => cmderr = "none")
    BY <1>3, DmiCommand
  <2>2. /\ At.cmd \in Command
        /\ At.cmd.write /\ At.cmd.reg \notin {"x8", "x9"} /\ cmderr = "none" =>
             <<At.cmd.reg, data0>> \in issued.regs
        /\ At.cmd.postexec => At.cmd = RunProgram
        /\ At.cmd.postexec /\ cmderr = "none" =>
             progbuf[1].insn \in {"store", "load"} /\ progbuf[1].size \in Nat \ {0}
        /\ At.cmd.postexec /\ progbuf[1].insn = "store" /\ cmderr = "none" =>
             \A i \in 0 .. progbuf[1].size - 1 :
               <<regs["x9"] + i, ByteOf(data0, i)>> \in issued.bytes
    <3>1. CASE InMem(Call) /\ ip = 5
      <4>1. At.cmd = SetAddress
        BY <3>1, AtIs, CommandIs DEF DmInv
      <4> QED BY <4>1, Sized DEF SetAddress, Command
    <3>2. CASE InMem(Call) /\ ip = 8
      <4>1. At.cmd = RunProgram
        BY <3>2, AtIs, CommandIs DEF DmInv
      <4>2. cmderr = "none" => /\ progbuf[1] = Insn(Call.call, Call.size)
                               /\ regs["x9"] = Call.addr /\ data0 = ValueOf(Call)
        BY <3>2 DEF DmInv, Progress, InMemProgress
      <4>3. /\ Call.call = "store" =>
                 \A i \in 0 .. Call.size - 1 :
                   <<Call.addr + i, ByteOf(Call.val, i)>> \in issued.bytes
        BY AtIs DEF DmInv, Asked, PartOf
      <4>4. cmderr = "none" /\ progbuf[1].insn = "store" =>
              /\ Call.call = "store" /\ progbuf[1].size = Call.size /\ data0 = Call.val
              /\ regs["x9"] = Call.addr
        BY <4>2 DEF Insn, ValueOf
      <4>5. Call.call \in {"store", "load"} /\ Call.size \in Nat \ {0}
        BY <3>2, AtIs DEF DmInv, InMem, ProperCall
      <4>6. cmderr = "none" =>
              progbuf[1].insn \in {"store", "load"} /\ progbuf[1].size \in Nat \ {0}
        BY <4>2, <4>5 DEF Insn
      <4> QED BY <4>1, <4>3, <4>4, <4>6, Sized DEF RunProgram, Command
    <3>3. CASE InMem(Call) /\ ip = 10
      <4>1. At.cmd = [reg |-> "x8", write |-> FALSE, postexec |-> FALSE]
        BY <3>3, AtIs, CommandIs DEF DmInv
      <4> QED BY <4>1, Sized DEF Command
    <3>4. CASE ~InMem(Call) /\ Call.call = "set"
      <4>1. ip = 2
        BY <1>3, <3>4, Writing DEF DmInv
      <4>2. /\ At.cmd = [reg |-> Call.reg, write |-> TRUE, postexec |-> FALSE]
            /\ Call.reg \in Regs
        BY <3>4, <4>1, AtIs, CommandIs DEF DmInv
      <4>3. cmderr = "none" => data0 = Call.val
        BY <3>4, <4>1 DEF DmInv, Progress, RegProgress
      <4>4. <<Call.reg, Call.val>> \in issued.regs
        BY <3>4, AtIs DEF DmInv, Asked, PartOf
      <4> QED BY <4>2, <4>3, <4>4 DEF Command
    <3>5. CASE ~InMem(Call) /\ Call.call = "get"
      <4>1. ip = 1
        BY <1>3, <3>5, Writing DEF DmInv
      <4>2. /\ At.cmd = [reg |-> Call.reg, write |-> FALSE, postexec |-> FALSE]
            /\ Call.reg \in Regs
        BY <3>5, <4>1, AtIs, CommandIs DEF DmInv
      <4> QED BY <4>2 DEF Command
    <3>6. InMem(Call) => ip \in {5, 8, 10}
      BY <1>3, Writing DEF DmInv
    <3>7. ~InMem(Call) => Call.call \in {"set", "get"}
      BY AtIs DEF DmInv
    <3> QED BY <3>1, <3>2, <3>3, <3>4, <3>5, <3>6, <3>7
  <2>3. Harmless'
    BY <2>1, <2>2 DEF Harmless, Busy
  <2> QED BY <1>3, <2>1, <2>2, <2>3 DEF DmInv, Types
<1> QED BY <1>1, <1>2, <1>3

\* A write that took effect leaves what the next access counts on.
LEMMA WriteProgress ==
  ASSUME DmInv, ~Idle, At.access \in {"write", "command"}, DmiWrite(At),
         Call' = Call, ip' = ip + 1, UNCHANGED target
  PROVE  Progress'
<1> SUFFICES ASSUME (~Idle)', cmderr' = "none"
             PROVE  (IF InMem(Call) THEN InMemProgress(Call) ELSE RegProgress(Call))'
  BY DEF Progress
<1>1. ~Busy /\ cmderr = "none" /\ regs' = regs
  <2>1. DmiWrite(At) /\ (At.access = "write" \/ At.access = "command")
    OBVIOUS
  <2>2. Busy => cmderr' # "none"
    BY DmiBusy
  <2>3. cmderr' = cmderr
    BY <2>1, <2>2, DmiSet, DmiCommand
  <2> QED BY <2>2, <2>3 DEF target
<1>2. At.access = "write" =>
         /\ running' = NoCommand
         /\ At.reg = "AUTO" => UNCHANGED <<data0, progbuf>>
         /\ At.reg = "DATA0" => data0' = At.val /\ UNCHANGED progbuf
         /\ At.reg = "PROGBUF0" => progbuf' = [progbuf EXCEPT ![1] = At.val] /\ UNCHANGED data0
         /\ At.reg = "PROGBUF1" => progbuf' = [progbuf EXCEPT ![2] = At.val] /\ UNCHANGED data0
  BY <1>1, DmiSet
<1>3. At.access = "command" =>
         /\ UNCHANGED <<data0, progbuf>>
         /\ At.cmd # NoCommand => running' = At.cmd
         /\ running' \in {At.cmd, NoCommand}
  BY <1>1, DmiCommand
<1>4. DOMAIN progbuf = {1, 2} /\ Types
  BY DEF DmInv, Types
<1>5. CASE InMem(Call)
  <2>1. ip \in {1, 2, 3, 4, 5, 7, 8, 10}
    BY <1>4, <1>5, Writing
  <2>2. InMemProgress(Call)
    BY <1>1, <1>5 DEF DmInv, Progress
  <2>3. CASE ip \in {1, 2, 3, 4, 7}
    <3>1. At.access = "write" /\ ~Busy'
      BY <1>2, <1>4, <1>5, <2>3, Writing DEF Busy
    <3>2. CASE ip = 1
      BY <1>5, <3>1, <3>2 DEF InMemProgress
    <3>3. CASE ip = 2
      <4>1. progbuf'[1] = Insn(Call.call, Call.size)
        BY <1>2, <1>4, <1>5, <3>1, <3>3, AtIs, Kinds
      <4> QED BY <1>5, <3>1, <3>3, <4>1 DEF InMemProgress
    <3>4. CASE ip = 3
      <4>1. progbuf'[2] = Ebreak /\ progbuf'[1] = progbuf[1]
        BY <1>2, <1>4, <1>5, <3>1, <3>4, AtIs, Kinds
      <4> QED BY <1>5, <2>2, <3>1, <3>4, <4>1 DEF InMemProgress
    <3>5. CASE ip = 4
      <4>1. data0' = Call.addr /\ progbuf' = progbuf
        BY <1>2, <1>4, <1>5, <3>1, <3>5, AtIs, Kinds
      <4> QED BY <1>5, <2>2, <3>1, <3>5, <4>1 DEF InMemProgress
    <3>6. CASE ip = 7
      <4>1. data0' = ValueOf(Call) /\ progbuf' = progbuf
        BY <1>2, <1>4, <1>5, <3>1, <3>6, AtIs, Kinds
      <4> QED BY <1>1, <1>5, <2>2, <3>1, <3>6, <4>1 DEF InMemProgress, ValueOf
    <3> QED BY <2>3, <3>2, <3>3, <3>4, <3>5, <3>6
  <2>4. CASE ip \in {5, 8, 10}
    <3>1. At.access = "command" /\ UNCHANGED <<data0, progbuf>>
      BY <1>3, <1>4, <1>5, <2>4, AtIs, CommandIs
    <3>2. CASE ip = 5
      <4>1. At.cmd = SetAddress /\ SetAddress # NoCommand
        BY <1>4, <1>5, <3>2, AtIs, CommandIs DEF SetAddress, NoCommand
      <4>2. running' = SetAddress
        BY <1>3, <3>1, <4>1
      <4>3. Busy'
        BY <4>1, <4>2 DEF Busy
      <4> QED BY <1>5, <2>2, <3>1, <3>2, <4>2, <4>3 DEF InMemProgress
    <3>3. CASE ip = 8
      <4>1. At.cmd = RunProgram /\ RunProgram # NoCommand
        BY <1>4, <1>5, <3>3, AtIs, CommandIs DEF RunProgram, NoCommand
      <4>2. running' = RunProgram
        BY <1>3, <3>1, <4>1
      <4> QED BY <1>1, <1>5, <2>2, <3>1, <3>3, <4>2 DEF InMemProgress
    <3>4. CASE ip = 10
      <4>1. At.cmd = [reg |-> "x8", write |-> FALSE, postexec |-> FALSE]
        BY <1>4, <1>5, <3>4, AtIs, CommandIs
      <4>2. ~(running'.postexec)
        BY <1>3, <3>1, <4>1 DEF NoCommand
      <4> QED BY <1>5, <2>2, <3>1, <3>4, <4>2 DEF InMemProgress
    <3> QED BY <2>4, <3>2, <3>3, <3>4
  <2> QED BY <1>5, <2>1, <2>3, <2>4
<1>6. CASE ~InMem(Call)
  <2>1. Call.call \in {"set", "get"}
    BY <1>4, <1>6, AtIs
  <2>2. CASE Call.call = "set" /\ ip = 1
    <3>1. At.access = "write" /\ At.reg = "DATA0" /\ At.val = Call.val
      BY <1>4, <1>6, <2>2, AtIs, Kinds
    <3>2. data0' = Call.val /\ ~Busy'
      BY <1>2, <3>1 DEF Busy
    <3> QED BY <1>6, <2>2, <3>2 DEF RegProgress
  <2>3. CASE (Call.call = "set" /\ ip = 2) \/ Call.call = "get"
    <3>1. /\ At.access = "command" /\ (Call.call = "get" => ip = 1)
          /\ ~At.cmd.postexec
      <4>1. CASE Call.call = "set" /\ ip = 2
        <5>1. At.cmd = [reg |-> Call.reg, write |-> TRUE, postexec |-> FALSE]
          BY <1>4, <1>6, <4>1, AtIs, CommandIs
        <5>2. At.access = "command"
          BY <1>4, <1>6, <4>1, AtIs, CommandIs
        <5> QED BY <4>1, <5>1, <5>2
      <4>2. CASE Call.call = "get"
        <5>1. ip = 1
          BY <1>4, <1>6, <4>2, Writing
        <5>2. At.cmd = [reg |-> Call.reg, write |-> FALSE, postexec |-> FALSE]
          BY <1>4, <1>6, <4>2, <5>1, AtIs, CommandIs
        <5>3. At.access = "command"
          BY <1>4, <1>6, <4>2, <5>1, AtIs, CommandIs
        <5> QED BY <5>1, <5>2, <5>3
      <4> QED BY <2>3, <4>1, <4>2
    <3>2. ~(running'.postexec)
      BY <1>3, <3>1 DEF NoCommand
    <3> QED BY <1>6, <2>3, <3>1, <3>2 DEF RegProgress
  <2>4. Call.call = "set" => ip \in {1, 2}
    BY <1>4, <1>6, Writing
  <2> QED BY <2>1, <2>2, <2>3, <2>4
<1> QED BY <1>5, <1>6

\* A script ends with a wait or a read.
LEMMA WriteIsNotLast ==
  ASSUME Types, ~Idle, At.access \in {"write", "command"}
  PROVE  ip # Len(Script(Call))
<1>1. CASE InMem(Call)
  <2>1. ip \in {1, 2, 3, 4, 5, 7, 8, 10}
    BY <1>1, Writing
  <2>2. Len(Script(Call)) \in {9, 12}
    BY <1>1, AtIs
  <2>3. \A i \in {1, 2, 3, 4, 5, 7, 8, 10}, k \in {9, 12} : i # k
    OBVIOUS
  <2> QED BY <2>1, <2>2, <2>3, Zenon
<1>2. CASE ~InMem(Call)
  <2>1. ip \in {1, 2} /\ Len(Script(Call)) = 3
    BY <1>2, Writing, AtIs
  <2> QED BY <2>1
<1> QED BY <1>1, <1>2

\* The invariant when the tool goes on after an access that succeeded.
LEMMA GoesOn ==
  ASSUME DmInv, ~Idle, NEW STATE w, Advance(w),
         DOMAIN regs' = Regs, DOMAIN progbuf' = {1, 2}, running' \in Command \cup {NoCommand},
         UNCHANGED <<faults, hangs, issued>>, ~auto', Harmless',
         Call' = Call /\ ip' = ip + 1 => Progress',
         faults + hangs = 0 => cmderr' = "none" /\ (ip = Len(Script(Call)) => ~Busy')
  PROVE  DmInv'
<1>1. Types /\ Asked /\ Types'
  BY Advances DEF DmInv, Types
<1>2. \/ op' = op /\ ip' = ip + 1 /\ Call' = Call /\ ~Idle'
      \/ op' = op /\ ip' = 1 /\ ip = Len(Script(Call)) /\ ~Idle'
      \/ ip' = 1 /\ ip = Len(Script(Call)) /\ Idle'
  BY <1>1, Advances
<1>3. Asked'
  BY <1>1, <1>2 DEF Asked, Idle
<1>4. Progress'
  BY <1>2, NoProgress
<1>5. Clean'
  <2> SUFFICES ASSUME (faults + hangs = 0)'
               PROVE  /\ (Idle => ~Busy /\ cmderr = "none")'
                      /\ (~Idle => IF At.access # "wait" THEN ~Busy /\ cmderr = "none"
                                   ELSE cmderr # "none" => ~Busy /\ (halted => Unanswerable(Call)))'
    BY DEF Clean
  <2>1. cmderr' = "none" /\ (ip = Len(Script(Call)) => ~Busy')
    OBVIOUS
  <2>2. (Types /\ Progress /\ ~Idle /\ cmderr = "none" /\ ip # 1 /\ At.access # "wait" => ~Busy)'
    BY FreeToGo, PTL
  <2>3. ip' = 1 => ~Busy'
    <3>1. ip \in Nat \ {0}
      BY <1>1, AtIs
    <3> QED BY <1>2, <2>1, <3>1
  <2>4. Idle' => ip' = 1
    BY <1>2
  <2> QED BY <1>1, <1>4, <2>1, <2>2, <2>3, <2>4
<1> QED BY <1>1, <1>3, <1>4, <1>5 DEF DmInv, Leftover

\* The invariant when it gives up.
LEMMA GivesUp ==
  ASSUME NEW s, Return(s),
         DOMAIN regs' = Regs, DOMAIN progbuf' = {1, 2}, running' \in Command \cup {NoCommand},
         faults' \in Nat, hangs' \in Nat, auto' => ~Busy', Harmless',
         faults' + hangs' = 0 => ~Busy' /\ cmderr' = "none"
  PROVE  DmInv'
<1>1. Idle' /\ nth' = 1 /\ ip' = 1
  BY Returns
<1>2. Types' /\ Asked' /\ Leftover' /\ Clean'
  BY <1>1 DEF Types, Asked, Leftover, Clean
<1>3. Progress'
  BY <1>1, NoProgress
<1> QED BY <1>2, <1>3 DEF DmInv

\* An access that failed, if the module is as it was or the access took effect.
LEMMA Fails ==
  ASSUME DmInv, Fault
  PROVE  faults' \in Nat /\ hangs' \in Nat /\ faults' + hangs' # 0 /\ UNCHANGED issued
BY DEF Fault, DmInv, Types

LEMMA WriteKeeps == ASSUME DmInv, wl_linke_dmi_write PROVE DmInv'
<1>1. /\ ~Idle /\ At.access \in {"write", "command"} /\ UNCHANGED target
      /\ \/ DmiWrite(At) /\ Advance(got) /\ UNCHANGED counts
         \/ DmiWrite(At) /\ Return("usb") /\ Fault
         \/ UNCHANGED module /\ Return("usb") /\ Fault
  BY DEF wl_linke_dmi_write, InOp
<1>2. Types /\ DOMAIN regs' = Regs
  BY <1>1 DEF DmInv, Types, target
<1>3. ASSUME DmiWrite(At), UNCHANGED issued
      PROVE  /\ DOMAIN progbuf' = {1, 2} /\ running' \in Command \cup {NoCommand}
             /\ ~auto' /\ Harmless'
  BY <1>1, <1>3, DmiKeeps
<1>4. CASE DmiWrite(At) /\ Advance(got) /\ UNCHANGED counts
  <2>1. UNCHANGED <<faults, hangs, issued>>
    BY <1>4 DEF counts
  <2>2. Call' = Call /\ ip' = ip + 1 => Progress'
    BY <1>1, <1>4, WriteProgress
  <2>3. ip # Len(Script(Call))
    BY <1>1, <1>2, WriteIsNotLast
  <2>4. faults + hangs = 0 => cmderr' = "none"
    <3>1. faults + hangs = 0 => ~Busy /\ cmderr = "none"
      <4>1. At.access # "wait"
        BY <1>1
      <4> QED BY <1>1, <4>1 DEF DmInv, Clean
    <3>2. ~Busy => cmderr' = cmderr
      BY <1>1, <1>4, DmiSet, DmiCommand
    <3> QED BY <3>1, <3>2
  <2> QED BY <1>1, <1>2, <1>3, <1>4, <2>1, <2>2, <2>3, <2>4, GoesOn
<1>5. CASE DmiWrite(At) /\ Return("usb") /\ Fault
  BY <1>2, <1>3, <1>5, Fails, GivesUp
<1>6. CASE UNCHANGED module /\ Return("usb") /\ Fault
  <2>1. /\ DOMAIN progbuf' = {1, 2} /\ running' \in Command \cup {NoCommand}
        /\ auto' => ~Busy'
    BY <1>6 DEF module, DmInv, Types, Leftover, Busy
  <2>2. Harmless'
    BY <1>1, <1>6, Fails DEF module, target, DmInv, Harmless, Busy
  <2> QED BY <1>2, <1>6, <2>1, <2>2, Fails, GivesUp
<1> QED BY <1>1, <1>4, <1>5, <1>6

\* What is read or waited for where.
LEMMA Reading ==
  ASSUME Types, ~Idle, At.access = "read"
  PROVE  ip = Len(Script(Call)) /\ ip # 1
<1>1. /\ \A r, v : W(r, v).access # "read"
      /\ \A r : C(r, FALSE, FALSE).access # "read" /\ C(r, TRUE, FALSE).access # "read"
      /\ C("x8", TRUE, TRUE).access # "read" /\ Wait.access # "read"
  BY Kinds, CommandIs
<1>2. CASE InMem(Call)
  <2>1. ip \in 1 .. 12 /\ (ip > 9 => Len(Script(Call)) = 12)
    BY <1>2, AtIs
  <2>2. ip \notin {1, 2, 3, 4, 7}
    BY <1>1, <1>2, AtIs
  <2>3. ip \notin {5, 8, 10}
    BY <1>1, <1>2, AtIs
  <2>4. ip \notin {6, 9, 11}
    BY <1>1, <1>2, AtIs
  <2>5. \A i \in 1 .. 12 :
           i \notin {1, 2, 3, 4, 7} /\ i \notin {5, 8, 10} /\ i \notin {6, 9, 11} => i = 12
    OBVIOUS
  <2>6. ip = 12
    BY <2>1, <2>2, <2>3, <2>4, <2>5, Zenon
  <2> QED BY <2>1, <2>6
<1>3. CASE ~InMem(Call)
  <2>1. ip \in 1 .. 3 /\ Len(Script(Call)) = 3 /\ Call.call \in {"set", "get"}
    BY <1>3, AtIs
  <2>2. Call.call = "set" => ip \notin {1, 2, 3}
    BY <1>1, <1>3, AtIs
  <2>3. Call.call = "get" => ip \notin {1, 2}
    BY <1>1, <1>3, AtIs
  <2> QED BY <2>1, <2>2, <2>3
<1> QED BY <1>2, <1>3

LEMMA Waiting ==
  ASSUME Types, ~Idle, At.access = "wait"
  PROVE  /\ InMem(Call) => ip \in {6, 9, 11}
         /\ Call.call = "set" => ip = 3
         /\ Call.call = "get" => ip = 2
<1>1. /\ \A r, v : W(r, v).access # "wait"
      /\ \A r : C(r, FALSE, FALSE).access # "wait" /\ C(r, TRUE, FALSE).access # "wait"
      /\ C("x8", TRUE, TRUE).access # "wait" /\ \A r : R(r).access # "wait"
  BY Kinds, CommandIs
<1>2. ASSUME InMem(Call) PROVE ip \in {6, 9, 11}
  <2>1. ip \in 1 .. 12
    BY <1>2, AtIs
  <2>2. ip \notin {1, 2, 3, 4, 7}
    BY <1>1, <1>2, AtIs
  <2>3. ip \notin {5, 8, 10, 12}
    BY <1>1, <1>2, AtIs
  <2> QED BY <2>1, <2>2, <2>3
<1>3. ASSUME Call.call = "set" PROVE ip = 3
  <2>1. ~InMem(Call)
    BY <1>3 DEF InMem
  <2>2. ip \in 1 .. 3 /\ ip \notin {1, 2}
    BY <1>1, <1>3, <2>1, AtIs
  <2> QED BY <2>2
<1>4. ASSUME Call.call = "get" PROVE ip = 2
  <2>1. ~InMem(Call)
    BY <1>4 DEF InMem
  <2>2. ip \in 1 .. 3 /\ ip \notin {1, 3}
    BY <1>1, <1>4, <2>1, AtIs
  <2> QED BY <2>2
<1> QED BY <1>2, <1>3, <1>4

LEMMA ReadKeeps == ASSUME DmInv, wl_linke_dmi_read PROVE DmInv'
<1>1. /\ ~Idle /\ At.access = "read" /\ UNCHANGED target
      /\ \/ /\ ~Busy /\ Advance(Append(got, data0))
            /\ IF auto THEN Start(last) ELSE UNCHANGED running
            /\ UNCHANGED <<data0, progbuf, auto, last, cmderr, counts>>
         \/ UNCHANGED module /\ Return("usb") /\ Fault
  BY DEF wl_linke_dmi_read, InOp
<1>2. Types /\ DOMAIN regs' = Regs
  BY <1>1 DEF DmInv, Types, target
<1>3. ip = Len(Script(Call)) /\ ip # 1
  BY <1>1, <1>2, Reading
<1>4. ~auto
  BY <1>1, <1>3 DEF DmInv, Leftover
<1>5. CASE /\ ~Busy /\ Advance(Append(got, data0)) /\ UNCHANGED running
           /\ UNCHANGED <<data0, progbuf, auto, last, cmderr, counts>>
  <2>1. UNCHANGED <<faults, hangs, issued>> /\ ~Busy' /\ ~auto'
    BY <1>4, <1>5 DEF counts, Busy
  <2>2. DOMAIN progbuf' = {1, 2} /\ running' \in Command \cup {NoCommand} /\ Harmless'
    BY <1>2, <1>5, <2>1 DEF Types, Harmless
  <2>3. ip' # ip + 1
    <3>1. ip \in Nat \ {0}
      BY <1>1, <1>2, AtIs
    <3>2. ip' = 1
      BY <1>3, <1>5, <3>1 DEF Advance, Call
    <3> QED BY <3>1, <3>2
  <2>4. faults + hangs = 0 => cmderr' = "none"
    <3>1. At.access # "wait"
      BY <1>1
    <3> QED BY <1>1, <1>5, <3>1 DEF DmInv, Clean
  <2> QED BY <1>1, <1>2, <1>5, <2>1, <2>2, <2>3, <2>4, GoesOn
<1>6. CASE UNCHANGED module /\ Return("usb") /\ Fault
  <2>1. /\ DOMAIN progbuf' = {1, 2} /\ running' \in Command \cup {NoCommand}
        /\ auto' => ~Busy'
    BY <1>6 DEF module, DmInv, Types, Leftover, Busy
  <2>2. Harmless'
    BY <1>1, <1>6, Fails DEF module, target, DmInv, Harmless, Busy
  <2> QED BY <1>2, <1>6, <2>1, <2>2, Fails, GivesUp
<1> QED BY <1>1, <1>4, <1>5, <1>6

LEMMA WaitKeeps == ASSUME DmInv, dm_wait PROVE DmInv'
<1>1. /\ ~Idle /\ At.access = "wait" /\ UNCHANGED target
      /\ \/ ~Busy /\ cmderr = "none" /\ Advance(got) /\ UNCHANGED <<module, counts>>
         \/ ~Busy /\ cmderr # "none" /\ Return("target") /\ ClearError /\ UNCHANGED counts
         \/ /\ Return("target") /\ Fault /\ (UNCHANGED module \/ ClearError)
         \/ /\ Return("target") /\ hangs' = hangs + 1
            /\ UNCHANGED <<module, faults, nops, issued, kept>>
         \/ Return("usb") /\ Fault /\ UNCHANGED module
  BY DEF dm_wait, InOp
<1>2. Types /\ DOMAIN regs' = Regs
  BY <1>1 DEF DmInv, Types, target
<1>3. ip # 1
  <2>1. InMem(Call) \/ Call.call \in {"set", "get"}
    BY <1>1, <1>2, AtIs
  <2> QED BY <1>1, <1>2, <2>1, Waiting
<1>4. ~auto
  BY <1>1, <1>3 DEF DmInv, Leftover
<1>5. ASSUME UNCHANGED <<data0, progbuf, auto, running, issued>>
      PROVE  /\ DOMAIN progbuf' = {1, 2} /\ running' \in Command \cup {NoCommand}
             /\ ~auto' /\ Harmless' /\ Busy' = Busy
  <2>1. DOMAIN progbuf' = {1, 2} /\ running' \in Command \cup {NoCommand} /\ ~auto'
    BY <1>2, <1>4, <1>5 DEF Types
  <2>2. Harmless' /\ Busy' = Busy
    BY <1>1, <1>5 DEF target, DmInv, Harmless, Busy
  <2> QED BY <2>1, <2>2
<1>6. CASE ~Busy /\ cmderr = "none" /\ Advance(got) /\ UNCHANGED <<module, counts>>
  <2>1. UNCHANGED <<faults, hangs, issued, data0, progbuf, auto, running, cmderr, regs>>
    BY <1>1, <1>6 DEF module, counts, target
  <2>2. ~Busy'
    BY <1>5, <1>6, <2>1
  <2>3. ASSUME Call' = Call, ip' = ip + 1 PROVE Progress'
    <3>1. CASE InMem(Call)
      <4>1. InMemProgress(Call) /\ ip \in {6, 9, 11}
        BY <1>1, <1>2, <1>6, <3>1, Waiting DEF DmInv, Progress
      <4>2. InMemProgress(Call)'
        BY <1>6, <2>1, <2>2, <2>3, <4>1 DEF InMemProgress
      <4> QED BY <2>3, <3>1, <4>2 DEF Progress
    <3>2. CASE ~InMem(Call)
      <4>1. Call.call \in {"set", "get"}
        BY <1>1, <1>2, <3>2, AtIs
      <4>2. RegProgress(Call)'
        BY <1>1, <1>2, <2>2, <2>3, <4>1, Waiting DEF RegProgress
      <4> QED BY <2>3, <3>2, <4>2 DEF Progress
    <3> QED BY <3>1, <3>2
  <2> QED BY <1>1, <1>2, <1>5, <1>6, <2>1, <2>2, <2>3, GoesOn
<1>7. CASE ~Busy /\ cmderr # "none" /\ Return("target") /\ ClearError /\ UNCHANGED counts
  <2>1. /\ UNCHANGED <<data0, progbuf, auto, running, issued, faults, hangs>>
        /\ cmderr' = "none"
    BY <1>7 DEF ClearError, counts
  <2> QED BY <1>2, <1>5, <1>7, <2>1, GivesUp DEF Types
<1>8. CASE Return("target") /\ Fault /\ (UNCHANGED module \/ ClearError)
  <2>1. UNCHANGED <<data0, progbuf, auto, running>>
    BY <1>8 DEF ClearError, module
  <2> QED BY <1>2, <1>5, <1>8, <2>1, Fails, GivesUp
<1>9. CASE /\ Return("target") /\ hangs' = hangs + 1
           /\ UNCHANGED <<module, faults, nops, issued, kept>>
  <2>1. /\ UNCHANGED <<data0, progbuf, auto, running, issued>>
        /\ faults' \in Nat /\ hangs' \in Nat /\ faults' + hangs' # 0
    BY <1>2, <1>9 DEF module, Types
  <2> QED BY <1>2, <1>5, <1>9, <2>1, GivesUp
<1>10. CASE Return("usb") /\ Fault /\ UNCHANGED module
  <2>1. UNCHANGED <<data0, progbuf, auto, running>>
    BY <1>10 DEF module
  <2> QED BY <1>2, <1>5, <1>10, <2>1, Fails, GivesUp
<1> QED BY <1>1, <1>6, <1>7, <1>8, <1>9, <1>10

---------------------------------------------------------------------------
(* The module's steps *)

\* What a load of n bytes at a finds, and what a store of n bytes at a leaves.
WordAt(a, n) == WordOf([i \in 0 .. 3 |-> IF i < n THEN mem[a + i] ELSE 0])
StoredAt(a, n, v) ==
  [b \in Addr |-> IF a <= b /\ b < a + n THEN ByteOf(v, b - a) ELSE mem[b]]

\* What a command that completes on a stopped core does.
LEMMA Completes ==
  ASSUME DmInv, Execute, halted
  PROVE  /\ running.postexec =>
              \/ /\ mem' = mem /\ cmderr' = Latch("none") /\ progbuf[1].insn = "load"
                 /\ regs["x9"] \in Addr /\ regs["x9"] % progbuf[1].size = 0
                 /\ regs' = [regs EXCEPT !["x8"] = WordAt(regs["x9"], progbuf[1].size)]
              \/ /\ mem' = mem /\ regs' = [regs EXCEPT !["x8"] = data0]
                 /\ cmderr' = Latch("bus") \/ cmderr' = Latch("exception")
                 /\ \/ progbuf[2] # Ebreak
                    \/ regs["x9"] \notin Addr \/ regs["x9"] % progbuf[1].size # 0
              \/ /\ progbuf[1].insn = "store" /\ cmderr' = Latch("none")
                 /\ regs["x9"] \in Addr /\ regs["x9"] % progbuf[1].size = 0
                 /\ regs' = [regs EXCEPT !["x8"] = data0]
                 /\ mem' = StoredAt(regs["x9"], progbuf[1].size, data0)
         /\ ~running.postexec =>
              /\ mem' = mem /\ cmderr' = Latch("none")
              /\ regs' = IF running.write THEN [regs EXCEPT ![running.reg] = data0] ELSE regs
         /\ data0' = IF running.write THEN data0 ELSE regs[running.reg]
<1>1. Busy /\ data0' = IF running.write THEN data0 ELSE regs[running.reg]
  BY DEF Execute
<1>2. running \in Command /\ DOMAIN regs = Regs
  BY DEF Execute, Busy, DmInv, Types
<1>3. ASSUME ~running.postexec
      PROVE  /\ mem' = mem /\ cmderr' = Latch("none")
             /\ regs' = IF running.write THEN [regs EXCEPT ![running.reg] = data0] ELSE regs
  BY <1>3 DEF Execute
<1>4. ASSUME running.postexec
      PROVE  \/ /\ mem' = mem /\ cmderr' = Latch("none") /\ progbuf[1].insn = "load"
                /\ regs["x9"] \in Addr /\ regs["x9"] % progbuf[1].size = 0
                /\ regs' = [regs EXCEPT !["x8"] = WordAt(regs["x9"], progbuf[1].size)]
             \/ /\ mem' = mem /\ regs' = [regs EXCEPT !["x8"] = data0]
                /\ cmderr' = Latch("bus") \/ cmderr' = Latch("exception")
                /\ \/ progbuf[2] # Ebreak
                   \/ regs["x9"] \notin Addr \/ regs["x9"] % progbuf[1].size # 0
             \/ /\ progbuf[1].insn = "store" /\ cmderr' = Latch("none")
                /\ regs["x9"] \in Addr /\ regs["x9"] % progbuf[1].size = 0
                /\ regs' = [regs EXCEPT !["x8"] = data0]
                /\ mem' = StoredAt(regs["x9"], progbuf[1].size, data0)
  <2>1. running = RunProgram /\ progbuf[1].insn \in {"store", "load"}
    BY <1>4 DEF Execute, DmInv, Harmless
  <2> DEFINE r == [regs EXCEPT !["x8"] = data0]
             after == RunProgbuf(mem, r)
             a == regs["x9"]
             n == progbuf[1].size
             word == WordAt(a, n)
             stored == StoredAt(a, n, data0)
             err == IF progbuf[2] # Ebreak \/ progbuf[1] = Ebreak \/ a % n # 0 THEN "exception"
                    ELSE IF a \notin Addr THEN "bus" ELSE "none"
  <2>2. running.write /\ running.reg = "x8" /\ running.postexec
    BY <2>1 DEF RunProgram
  <2>3. mem' = after.mem /\ regs' = after.regs /\ cmderr' = Latch(after.err)
    <3> HIDE DEF after
    <3>1. LET moved == IF running.write THEN [regs EXCEPT ![running.reg] = data0] ELSE regs
              res == IF running.postexec THEN RunProgbuf(mem, moved)
                     ELSE [mem |-> mem, regs |-> moved, err |-> "none"]
          IN  mem' = res.mem /\ regs' = res.regs /\ cmderr' = Latch(res.err)
      BY DEF Execute
    <3> QED BY <2>2, <3>1 DEF after
  <2>4. r["x9"] = a /\ r["x8"] = data0
    BY <1>2, Sized
  <2>5. progbuf[1] # Ebreak
    BY <2>1 DEF Ebreak, Insn
  <2>6. after = CASE err # "none" -> [mem |-> mem, regs |-> r, err |-> err]
                  [] err = "none" /\ progbuf[1].insn = "store" ->
                       [mem |-> stored, regs |-> r, err |-> err]
                  [] err = "none" /\ progbuf[1].insn = "load" ->
                       [mem |-> mem, err |-> err, regs |-> [r EXCEPT !["x8"] = word]]
    <3> HIDE DEF r
    <3> QED BY <2>4, Zenon DEF RunProgbuf, WordAt, StoredAt
  <2> HIDE DEF after, word, stored
  <2>7. CASE err # "none"
    <3>1. after = [mem |-> mem, regs |-> r, err |-> err]
      BY <2>6, <2>7
    <3>2. err \in {"exception", "bus"} /\ (progbuf[2] # Ebreak \/ a % n # 0 \/ a \notin Addr)
      BY <2>5, <2>7
    <3> QED BY <2>3, <3>1, <3>2
  <2>8. CASE err = "none" /\ progbuf[1].insn = "store"
    <3>1. after = [mem |-> stored, regs |-> r, err |-> err]
      BY <2>6, <2>8
    <3>2. a \in Addr /\ a % n = 0
      BY <2>8
    <3> QED BY <2>3, <2>8, <3>1, <3>2 DEF stored
  <2>9. CASE err = "none" /\ progbuf[1].insn = "load"
    <3>1. after = [mem |-> mem, err |-> err, regs |-> [r EXCEPT !["x8"] = word]]
      BY <2>6, <2>9
    <3>2. after.mem = mem /\ after.err = "none" /\ after.regs = [r EXCEPT !["x8"] = word]
      BY <2>9, <3>1
    <3>3. after.regs = [regs EXCEPT !["x8"] = word]
      BY <1>2, <3>2, Sized
    <3>4. a \in Addr /\ a % n = 0
      BY <2>9
    <3> QED BY <2>3, <2>9, <3>2, <3>3, <3>4 DEF word
  <2> QED BY <2>1, <2>7, <2>8, <2>9
<1> QED BY <1>1, <1>3, <1>4 DEF Execute

\* While a command is executed the tool waits, unless it has given up or has met
\* an error since.
LEMMA Awaited ==
  ASSUME DmInv, Busy, ~Idle, cmderr = "none"
  PROVE  /\ InMem(Call) => /\ ip \in {1, 6, 9, 11}
                           /\ ip = 6 => running = SetAddress /\ data0 = Call.addr
                           /\ ip = 11 => ~running.postexec
                           /\ ip = 9 => /\ progbuf[1] = Insn(Call.call, Call.size)
                                        /\ progbuf[2] = Ebreak /\ regs["x9"] = Call.addr
         /\ ~InMem(Call) => /\ Call.call \in {"set", "get"}
                            /\ ip > 1 => ~running.postexec
                            /\ Call.call = "set" => ip # 2
                            /\ Call.call = "get" => ip # 3
<1>1. ASSUME InMem(Call)
      PROVE  /\ ip \in {1, 6, 9, 11}
             /\ ip = 6 => running = SetAddress /\ data0 = Call.addr
             /\ ip = 11 => ~running.postexec
             /\ ip = 9 => /\ progbuf[1] = Insn(Call.call, Call.size)
                          /\ progbuf[2] = Ebreak /\ regs["x9"] = Call.addr
  <2>1. InMemProgress(Call)
    BY <1>1 DEF DmInv, Progress
  <2>2. ip \in 1 .. 12
    BY <1>1, AtIs DEF DmInv
  <2>3. ip \notin {2, 3, 4, 5, 7, 8, 10, 12}
    BY <2>1 DEF InMemProgress
  <2> QED BY <2>1, <2>2, <2>3 DEF InMemProgress
<1>2. ASSUME ~InMem(Call)
      PROVE  /\ Call.call \in {"set", "get"}
             /\ ip > 1 => ~running.postexec
             /\ Call.call = "set" => ip # 2
             /\ Call.call = "get" => ip # 3
  <2>1. RegProgress(Call)
    BY <1>2 DEF DmInv, Progress
  <2>2. Call.call \in {"set", "get"}
    BY <1>2, AtIs DEF DmInv
  <2> QED BY <2>1, <2>2 DEF RegProgress
<1> QED BY <1>1, <1>2

LEMMA ExecuteKeeps == ASSUME DmInv, Execute PROVE DmInv'
<1>1. /\ Busy /\ running' = NoCommand /\ ~Busy'
      /\ UNCHANGED <<halted, progbuf, auto, op, nth, ip, got, result, faults, hangs, issued>>
  BY DEF Execute, Busy, tool, counts
<1>2. Call' = Call /\ At' = At /\ Idle' = Idle
  BY <1>1 DEF Call, At, Idle
<1>3. running \in Command /\ DOMAIN regs = Regs /\ Types
  BY <1>1 DEF Busy, DmInv, Types
<1>4. ASSUME ~halted
      PROVE  cmderr' = Latch("halt") /\ UNCHANGED <<mem, regs, data0>>
  BY <1>4 DEF Execute
<1>5. DOMAIN regs' = Regs
  <2>1. CASE halted
    <3>1. CASE running.postexec
      <4>1. \/ regs' = [regs EXCEPT !["x8"] = WordAt(regs["x9"], progbuf[1].size)]
            \/ regs' = [regs EXCEPT !["x8"] = data0]
        BY <2>1, <3>1, Completes
      <4> QED BY <1>3, <4>1
    <3>2. CASE ~running.postexec
      <4>1. regs' = regs \/ regs' = [regs EXCEPT ![running.reg] = data0]
        BY <2>1, <3>2, Completes
      <4> QED BY <1>3, <4>1
    <3> QED BY <3>1, <3>2
  <2>2. CASE ~halted
    BY <1>3, <1>4, <2>2
  <2> QED BY <2>1, <2>2
<1>6. Types'
  <2>1. (~Idle => Proper(op) /\ nth \in 1 .. Len(Calls(op)) /\ ip \in 1 .. Len(Script(Call)))'
    BY <1>1, <1>2, <1>3 DEF Types
  <2> QED BY <1>1, <1>2, <1>3, <1>5, <2>1 DEF Types
<1>7. Asked' /\ Leftover' /\ Harmless'
  BY <1>1, <1>2 DEF DmInv, Asked, Leftover, Harmless
<1>8. ASSUME cmderr' = "none"
      PROVE  cmderr = "none" /\ halted
  <2>1. halted
    BY <1>4, <1>8 DEF Latch
  <2>2. cmderr' \in {Latch("none"), Latch("bus"), Latch("exception")}
    BY <2>1, Completes
  <2> QED BY <1>8, <2>1, <2>2 DEF Latch
<1>9. Progress'
  <2> SUFFICES ASSUME ~Idle, cmderr' = "none"
               PROVE  (IF InMem(Call) THEN InMemProgress(Call) ELSE RegProgress(Call))'
    BY <1>2 DEF Progress
  <2>1. cmderr = "none" /\ halted
    BY <1>8
  <2>2. CASE InMem(Call)
    <3>1. ip \in {1, 6, 9, 11} /\ InMemProgress(Call)
      BY <1>1, <2>1, <2>2, Awaited DEF DmInv, Progress
    <3>2. ip = 6 => regs'["x9"] = Call.addr
      <4> SUFFICES ASSUME ip = 6 PROVE regs'["x9"] = Call.addr
        OBVIOUS
      <4>1. running = SetAddress /\ data0 = Call.addr
        BY <1>1, <2>1, <2>2, Awaited
      <4>2. regs' = [regs EXCEPT !["x9"] = data0]
        BY <2>1, <4>1, Completes DEF SetAddress
      <4> QED BY <1>3, <4>1, <4>2, Sized
    <3>3. InMemProgress(Call)'
      BY <1>1, <1>2, <3>1, <3>2 DEF InMemProgress
    <3> QED BY <1>2, <2>2, <3>3
  <2>3. CASE ~InMem(Call)
    <3>1. RegProgress(Call)'
      BY <1>1, <1>2, <2>1, <2>3, Awaited DEF RegProgress
    <3> QED BY <1>2, <2>3, <3>1
  <2> QED BY <2>2, <2>3
<1>10. Clean'
  <2> SUFFICES ASSUME faults + hangs = 0
               PROVE  /\ (Idle => ~Busy /\ cmderr = "none")'
                      /\ (~Idle => IF At.access # "wait" THEN ~Busy /\ cmderr = "none"
                                   ELSE cmderr # "none" => ~Busy /\ (halted => Unanswerable(Call)))'
    BY <1>1 DEF Clean
  <2>1. ~Idle /\ At.access = "wait" /\ cmderr = "none"
    BY <1>1 DEF DmInv, Clean
  <2>2. ASSUME cmderr' # "none", halted PROVE Unanswerable(Call)
    <3>1. /\ running.postexec
          /\ \/ progbuf[2] # Ebreak
             \/ regs["x9"] \notin Addr \/ regs["x9"] % progbuf[1].size # 0
      BY <2>1, <2>2, Completes DEF Latch
    <3>2. ip # 1
      <4>1. InMem(Call) \/ Call.call \in {"set", "get"}
        BY <1>3, <2>1, AtIs
      <4> QED BY <1>3, <2>1, <4>1, Waiting
    <3>3. InMem(Call)
      <4> SUFFICES ASSUME ~InMem(Call) PROVE FALSE
        OBVIOUS
      <4>1. ip \in 1 .. 3
        BY <1>3, <2>1, AtIs
      <4>2. ip > 1
        BY <3>2, <4>1
      <4> QED BY <1>1, <2>1, <3>1, <4>2, Awaited
    <3>4. ip = 9
      <4>1. ip \in {1, 6, 9, 11} /\ (ip = 6 => running = SetAddress) /\ ip # 11
        BY <1>1, <2>1, <3>1, <3>3, Awaited
      <4>2. ip # 6
        BY <3>1, <4>1 DEF SetAddress
      <4> QED BY <3>2, <4>1, <4>2
    <3>5. /\ progbuf[1] = Insn(Call.call, Call.size)
          /\ progbuf[2] = Ebreak /\ regs["x9"] = Call.addr
      BY <1>1, <2>1, <3>3, <3>4, Awaited
    <3> QED BY <3>1, <3>3, <3>5 DEF Unanswerable, Insn
  <2> QED BY <1>1, <1>2, <2>1, <2>2
<1> QED BY <1>6, <1>7, <1>9, <1>10 DEF DmInv

---------------------------------------------------------------------------
(* Between two operations *)

\* Nothing that happens between two operations and leaves the module alone matters.
LEMMA BetweenKeeps ==
  ASSUME DmInv, Idle,
         UNCHANGED <<regs, module, op, nth, ip, faults, hangs, issued>>
  PROVE  DmInv'
<1>1. Idle' /\ Busy' = Busy
  BY DEF Idle, Busy, module
<1>2. Types'
  BY <1>1 DEF DmInv, Types, module
<1>3. Asked' /\ Leftover' /\ Progress'
  BY <1>1 DEF DmInv, Asked, Leftover, Progress, module
<1>4. Harmless'
  BY <1>1 DEF DmInv, Harmless, module
<1>5. Clean'
  BY <1>1 DEF DmInv, Clean, module
<1> QED BY <1>2, <1>3, <1>4, <1>5 DEF DmInv

\* What the callers ask for is an operation.
LEMMA OpsAreProper == ASSUME NEW o, IsOp(o) PROVE Proper(o)
BY DmAssumption DEF IsOp, Proper, Word

LEMMA RequestsAreProper == ASSUME NEW r \in RequestSet PROVE Proper(OpOf(r))
<1>1. IsRequest(r)
  BY RequestAssumption
<1>2. \A w \in Word : w \in Nat
  BY DmAssumption DEF Word
<1>3. WordBytes \in Sizes
  BY Sized
<1>4. CASE r.kind = "g"
  BY <1>4 DEF OpOf, gdb_handle_g, Proper
<1>5. CASE r.kind \in {"p", "P"} /\ r.reg \in Regs
  <2>1. OpOf(r) = gdb_handle_p(r)
    BY <1>5 DEF OpOf
  <2>2. gdb_handle_p(r).kind \in {"set", "get"} /\ gdb_handle_p(r).reg = r.reg
    BY DEF gdb_handle_p
  <2> QED BY <1>5, <2>1, <2>2 DEF Proper
<1>6. CASE r.kind = "m" /\ r.addr \in Word /\ r.len \in Nat \ {0}
  <2>1. OpOf(r) = gdb_handle_m(r)
    BY <1>6 DEF OpOf
  <2> QED BY <1>2, <1>6, <2>1 DEF Proper, gdb_handle_m
<1>7. CASE r.kind = "M" /\ r.addr \in Word /\ r.text \in Seq(Byte) /\ r.text # <<>>
  <2>1. OpOf(r) = gdb_handle_M(r)
    BY <1>7 DEF OpOf
  <2> QED BY <1>2, <1>7, <2>1 DEF Proper, gdb_handle_M
<1>8. ASSUME r.addr.number \in Word PROVE parse_argument(r.addr) \in Nat
  BY <1>2, <1>8 DEF parse_argument
<1>9. CASE r.kind = "read32" /\ r.addr.number \in Word
  <2>1. OpOf(r) = monitor_read32(r)
    BY <1>9 DEF OpOf
  <2> QED BY <1>3, <1>8, <1>9, <2>1 DEF Proper, monitor_read32
<1>10. CASE r.kind = "write32" /\ r.addr.number \in Word
  <2>1. OpOf(r) = monitor_write32(r)
    BY <1>10 DEF OpOf
  <2> QED BY <1>3, <1>8, <1>10, <2>1 DEF Proper, monitor_write32
<1> QED BY <1>1, <1>4, <1>5, <1>6, <1>7, <1>9, <1>10 DEF IsRequest

LEMMA BeginKeeps == ASSUME DmInv, NEW o, Proper(o), Begin(o) PROVE DmInv'
<1>1. /\ Idle /\ nth = 1 /\ ip = 1 /\ op' = o /\ nth' = 1 /\ ip' = 1
      /\ auto => o.kind \in {"write", "read", "bytes", "block"}
      /\ UNCHANGED <<regs, data0, progbuf, auto, running, cmderr, faults, hangs>>
  BY DEF Begin, DmInv, Types, target, module
<1>2. /\ issued.bytes \cup AskedBytes(o) = issued'.bytes
      /\ issued.regs \cup AskedRegs(o) = issued'.regs
  BY DEF Begin
<1>3. ~Idle' /\ Busy' = Busy /\ Call' = Calls(o)[1]
  BY <1>1 DEF Idle, Busy, Call, Proper
<1>4. /\ Len(Calls(o)) \in Nat \ {0}
      /\ ProperCall(Calls(o)[1]) /\ PartOf(Calls(o)[1], o)
  BY CallsAre
<1>5. Types'
  <2>1. Len(Script(Calls(o)[1])) \in {3, 9, 12}
    BY <1>4, MemScript, RegScript DEF ProperCall
  <2>2. \A k \in {3, 9, 12} : 1 \in 1 .. k
    OBVIOUS
  <2>3. 1 \in 1 .. Len(Script(Calls(o)[1]))
    BY <2>1, <2>2, Zenon
  <2>4. 1 \in 1 .. Len(Calls(o))
    BY <1>4
  <2> QED BY <1>1, <1>3, <2>3, <2>4 DEF DmInv, Types
<1>6. Asked'
  BY <1>1, <1>2 DEF Asked
<1>7. Leftover'
  BY <1>1, <1>3, <1>4 DEF DmInv, Leftover, PartOf
<1>8. Harmless'
  BY <1>1, <1>2, <1>3 DEF DmInv, Harmless
<1>9. Progress'
  BY <1>1, NoProgress
<1>10. Clean'
  BY <1>1, <1>3 DEF DmInv, Clean
<1> QED BY <1>5, <1>6, <1>7, <1>8, <1>9, <1>10 DEF DmInv

---------------------------------------------------------------------------
(* What a step writes, and why an operation fails *)

LEMMA DmInit == GInit => DmInv
<1> SUFFICES ASSUME GInit PROVE DmInv
  OBVIOUS
<1>1. Idle /\ nth = 1 /\ ip = 1 /\ ~Busy /\ running = NoCommand /\ cmderr = "none"
  BY DEF GInit, Init, Idle, NoOp, Busy
<1>2. Types
  <2>1. DOMAIN regs = Regs /\ DOMAIN progbuf = {1, 2} /\ faults \in Nat /\ hangs \in Nat
    BY DmAssumption DEF GInit, Init
  <2> QED BY <1>1, <2>1 DEF Types
<1> QED BY <1>1, <1>2 DEF DmInv, Asked, Leftover, Harmless, Progress, Clean

LEMMA DmNext == DmInv /\ [GNext]_gvars => DmInv'
<1> SUFFICES ASSUME DmInv, [GNext]_gvars PROVE DmInv'
  OBVIOUS
<1>1. CASE Tool
  BY <1>1, WriteKeeps, ReadKeeps, WaitKeeps DEF Tool
<1>2. CASE Execute
  BY <1>2, ExecuteKeeps
<1>3. CASE HaltOrResume
  BY <1>3, BetweenKeeps DEF HaltOrResume, tool, counts
<1>4. CASE ProgramRuns
  BY <1>4, BetweenKeeps DEF ProgramRuns, tool, counts
<1>5. CASE \E o \in OpSet : Begin(o)
  BY <1>5, OpAssumption, OpsAreProper, BeginKeeps
<1>6. CASE \E r \in RequestSet : Begin(OpOf(r))
  BY <1>6, RequestsAreProper, BeginKeeps
<1>7. CASE \E r \in RequestSet : Refuse(r)
  BY <1>7, BetweenKeeps DEF Refuse, target
<1>8. CASE UNCHANGED gvars
  <2>1. UNCHANGED <<halted, regs, data0, progbuf, auto, running, cmderr,
                    op, nth, ip, faults, hangs, issued>>
    BY <1>8 DEF gvars, vars, target, module, tool, counts
  <2>2. Call' = Call /\ At' = At /\ Idle' = Idle /\ Busy' = Busy
    BY <2>1 DEF Call, At, Idle, Busy
  <2>3. Types' /\ Asked' /\ Leftover'
    BY <2>1, <2>2 DEF DmInv, Types, Asked, Leftover
  <2>4. Harmless' /\ Clean'
    BY <2>1, <2>2 DEF DmInv, Harmless, Clean
  <2>5. Progress'
    <3>1. InMemProgress(Call)' = InMemProgress(Call)
      BY <2>1, <2>2 DEF InMemProgress
    <3>2. RegProgress(Call)' = RegProgress(Call)
      BY <2>1, <2>2 DEF RegProgress
    <3> QED BY <2>1, <2>2, <3>1, <3>2 DEF DmInv, Progress
  <2> QED BY <2>3, <2>4, <2>5 DEF DmInv
<1> QED BY <1>1, <1>2, <1>3, <1>4, <1>5, <1>6, <1>7, <1>8
        DEF GNext, Environment, gdb_handle_packet

LEMMA DmInvariant == GSpec => []DmInv
<1>1. GInit => DmInv
  BY DmInit
<1>2. DmInv /\ [GNext]_gvars => DmInv'
  BY DmNext
<1> QED BY <1>1, <1>2, PTL DEF GSpec

\* Only a command that completes touches a stopped core.
LEMMA OnlyExecute ==
  ASSUME [GNext]_gvars, ~Execute, halted
  PROVE  UNCHANGED <<mem, regs>>
<1>1. CASE Tool
  BY <1>1 DEF Tool, wl_linke_dmi_write, wl_linke_dmi_read, dm_wait, target
<1>2. CASE HaltOrResume \/ ProgramRuns
  BY <1>2 DEF HaltOrResume, ProgramRuns
<1>3. CASE \E o \in OpSet : Begin(o)
  BY <1>3 DEF Begin, target
<1>4. CASE \E r \in RequestSet : Begin(OpOf(r)) \/ Refuse(r)
  BY <1>4 DEF Begin, Refuse, target
<1>5. CASE UNCHANGED gvars
  BY <1>5 DEF gvars, vars, target
<1> QED BY <1>1, <1>2, <1>3, <1>4, <1>5 DEF GNext, Environment, gdb_handle_packet

\* And it writes what was asked for.
LEMMA ExecuteWritesAsked ==
  ASSUME DmInv, Execute, halted
  PROVE  /\ \A a \in Addr : mem'[a] # mem[a] => <<a, mem'[a]>> \in issued.bytes
         /\ \A r \in Regs \ {"x8", "x9"} : regs'[r] # regs[r] => <<r, regs'[r]>> \in issued.regs
<1>1. Busy /\ DOMAIN regs = Regs /\ Harmless
  BY DEF Execute, DmInv, Types
<1>2. CASE ~running.postexec
  <2>1. mem' = mem /\ regs' = IF running.write THEN [regs EXCEPT ![running.reg] = data0] ELSE regs
    BY <1>2, Completes
  <2>2. running.write /\ running.reg \notin {"x8", "x9"} => <<running.reg, data0>> \in issued.regs
    BY <1>1 DEF Harmless
  <2> QED BY <1>1, <2>1, <2>2
<1>3. CASE running.postexec
  <2>1. /\ progbuf[1].size \in Nat \ {0}
        /\ progbuf[1].insn = "store" =>
             \A i \in 0 .. progbuf[1].size - 1 :
               <<regs["x9"] + i, ByteOf(data0, i)>> \in issued.bytes
    BY <1>1, <1>3 DEF Harmless
  <2>2. /\ \/ mem' = mem
           \/ /\ progbuf[1].insn = "store" /\ regs["x9"] \in Addr
              /\ mem' = StoredAt(regs["x9"], progbuf[1].size, data0)
        /\ \/ regs' = [regs EXCEPT !["x8"] = data0]
           \/ regs' = [regs EXCEPT !["x8"] = WordAt(regs["x9"], progbuf[1].size)]
    BY <1>3, Completes
  <2>3. \A r \in Regs \ {"x8", "x9"} : regs'[r] = regs[r]
    BY <1>1, <2>2
  <2>4. ASSUME NEW a \in Addr, mem'[a] # mem[a]
        PROVE  <<a, mem'[a]>> \in issued.bytes
    <3>1. /\ progbuf[1].insn = "store" /\ regs["x9"] \in Addr
          /\ mem' = [b \in Addr |->
                       IF regs["x9"] <= b /\ b < regs["x9"] + progbuf[1].size
                       THEN ByteOf(data0, b - regs["x9"]) ELSE mem[b]]
      BY <2>2, <2>4 DEF StoredAt
    <3>2. /\ regs["x9"] <= a /\ a < regs["x9"] + progbuf[1].size
          /\ mem'[a] = ByteOf(data0, a - regs["x9"])
      BY <2>4, <3>1
    <3>3. \A b \in Addr : b \in Nat
      BY Sized DEF Addr
    <3>4. /\ a - regs["x9"] \in 0 .. progbuf[1].size - 1
          /\ regs["x9"] + (a - regs["x9"]) = a
      BY <2>1, <3>1, <3>2, <3>3
    <3> QED BY <2>1, <3>1, <3>2, <3>4
  <2> QED BY <2>3, <2>4
<1> QED BY <1>2, <1>3

\* Theorem: the memory of a stopped core, and its registers but x8 and x9, change
\* only as some caller of dm.c asked, whatever failed and however late a command
\* completes.
THEOREM OnlyAsked == GSpec => OnlyAskedWrites
<1>1. DmInv /\ [GNext]_gvars =>
        [halted =>
           /\ \A a \in Addr : mem'[a] # mem[a] => <<a, mem'[a]>> \in issued.bytes
           /\ \A r \in Regs \ {"x8", "x9"} :
                regs'[r] # regs[r] => <<r, regs'[r]>> \in issued.regs]_vars
  <2> SUFFICES ASSUME DmInv, [GNext]_gvars, halted
               PROVE  /\ \A a \in Addr : mem'[a] # mem[a] => <<a, mem'[a]>> \in issued.bytes
                      /\ \A r \in Regs \ {"x8", "x9"} :
                           regs'[r] # regs[r] => <<r, regs'[r]>> \in issued.regs
    OBVIOUS
  <2>1. CASE Execute
    BY <2>1, ExecuteWritesAsked
  <2>2. CASE ~Execute
    BY <2>2, OnlyExecute
  <2> QED BY <2>1, <2>2
<1> QED BY <1>1, DmInvariant, PTL DEF GSpec, OnlyAskedWrites

\* Without an access that fails or a command given up on, the tool reports a
\* failure only for what the target cannot do.
LEMMA FailsForAReason ==
  ASSUME DmInv, [GNext]_gvars, ~Idle, Idle', result'.status # "ok", halted,
         faults' + hangs' = 0
  PROVE  ~Answers(op)
<1>1. Types /\ faults \in Nat /\ hangs \in Nat
  BY DEF DmInv, Types
<1>2. ~Fault
  BY <1>1 DEF Fault
<1>3. hangs' # hangs + 1
  <2>1. faults' \in Nat /\ hangs' \in Nat
    BY DmNext DEF DmInv, Types
  <2>2. \A f, h, k \in Nat : f + h = 0 => h # k + 1
    OBVIOUS
  <2> QED BY <1>1, <2>1, <2>2
<1>4. ASSUME NEW STATE w, Advance(w) PROVE FALSE
  BY <1>1, <1>4, Advances
<1>5. Tool
  <2>1. ASSUME UNCHANGED op PROVE FALSE
    BY <2>1 DEF Idle
  <2> QED BY <2>1 DEF GNext, Environment, Execute, HaltOrResume, ProgramRuns, Begin, Refuse,
                      gdb_handle_packet, gvars, vars, tool
<1>6. ~wl_linke_dmi_write /\ ~wl_linke_dmi_read
  BY <1>2, <1>4 DEF wl_linke_dmi_write, wl_linke_dmi_read
<1>7. At.access = "wait" /\ cmderr # "none" /\ UNCHANGED counts
  BY <1>2, <1>3, <1>4, <1>5, <1>6 DEF Tool, dm_wait
<1>8. Unanswerable(Call)
  <2>1. faults + hangs = 0
    BY <1>7 DEF counts
  <2> QED BY <1>7, <2>1 DEF DmInv, Clean
<1> QED BY <1>1, <1>8, AtIs DEF Unanswerable, PartOf

\* Theorem: as long as no access has failed and no command was given up on, an
\* operation of dm.c on a stopped core that returns an error was asked for memory
\* that does not answer or for an access that is not aligned.
THEOREM FailuresExplained == GSpec => FailureExplained
<1>1. DmInv /\ [GNext]_gvars =>
        [~Idle /\ Idle' /\ result'.status # "ok" /\ halted /\ faults' + hangs' = 0
           => ~Answers(op)]_vars
  BY FailsForAReason
<1> QED BY <1>1, DmInvariant, PTL DEF GSpec, FailureExplained

---------------------------------------------------------------------------
(* Words, bytes and memory *)

\* The digits of a number.
LEMMA Digit ==
  ASSUME NEW b \in Nat \ {0}, NEW x \in 0 .. b - 1, NEW y \in Nat
  PROVE  (x + b * y) % b = x /\ (x + b * y) \div b = y /\ x + b * y \in Nat
<1>1. x + b * y \in Nat /\ x < b /\ x >= 0
  OBVIOUS
<1> QED BY <1>1

\* The values of a byte.
LEMMA BaseIs == Base \in Nat \ {0} /\ 1 < Base /\ Byte \subseteq Nat /\ 0 \in Byte
BY DmAssumption DEF Byte

\* A number of one digit more.
LEMMA DigitBound ==
  ASSUME NEW b \in Nat \ {0}, NEW m \in Nat, NEW x \in 0 .. b - 1, NEW y \in 0 .. m - 1
  PROVE  x + b * y \in 0 .. b * m - 1
<1>1. b * y + b <= b * m
  <2>1. y + 1 <= m
    OBVIOUS
  <2>2. b * (y + 1) <= b * m
    BY <2>1
  <2> QED BY <2>2
<1>2. b * y \in Nat /\ b * m \in Nat
  OBVIOUS
<1> DEFINE p == b * y
           q == b * m
<1> HIDE DEF p, q
<1>3. p \in Nat /\ q \in Nat /\ p + b <= q
  BY <1>1, <1>2 DEF p, q
<1>4. x + p \in 0 .. q - 1
  BY <1>3
<1> QED BY <1>4 DEF p, q

\* The word that four bytes make, and its bytes.
LEMMA WordIs ==
  ASSUME NEW b \in [0 .. 3 -> Byte]
  PROVE  WordOf(b) \in Word /\ \A k \in 0 .. 3 : ByteOf(WordOf(b), k) = b[k]
<1> DEFINE y2 == b[2] + Base * b[3]
           y1 == b[1] + Base * y2
           y0 == b[0] + Base * y1
           m2 == Base * Base
           m1 == Base * m2
           m0 == Base * m1
<1>1. Base \in Nat \ {0} /\ Base > 1
  BY BaseIs
<1>2. b[0] \in 0 .. Base - 1 /\ b[1] \in 0 .. Base - 1 /\ b[2] \in 0 .. Base - 1 /\ b[3] \in 0 .. Base - 1
  BY DEF Byte
<1>3. y2 \in 0 .. m2 - 1 /\ m2 \in Nat
  BY <1>1, <1>2, DigitBound
<1>4. y1 \in 0 .. m1 - 1 /\ m1 \in Nat
  <2> HIDE DEF y2, m2
  <2> QED BY <1>1, <1>2, <1>3, DigitBound
<1>5. y0 \in 0 .. m0 - 1
  <2> HIDE DEF y1, m1
  <2> QED BY <1>1, <1>2, <1>4, DigitBound
<1>6. y2 % Base = b[2] /\ y2 \div Base = b[3]
  BY <1>1, <1>2, Digit
<1>7. y1 % Base = b[1] /\ y1 \div Base = y2
  <2>1. y2 \in Nat
    BY <1>3
  <2> HIDE DEF y2
  <2> QED BY <1>1, <1>2, <2>1, Digit
<1>8. y0 % Base = b[0] /\ y0 \div Base = y1
  <2>1. y1 \in Nat
    <3> HIDE DEF y1, m1
    <3> QED BY <1>4
  <2> HIDE DEF y1
  <2> QED BY <1>1, <1>2, <2>1, Digit
<1>9. b[3] % Base = b[3]
  BY <1>1, <1>2
<1>10. WordOf(b) = y0
  BY DEF WordOf
<1>11. WordOf(b) \in Word
  <2>1. m0 = Base * Base * Base * Base
    BY <1>1
  <2> HIDE DEF y0, m0
  <2> QED BY <1>5, <1>10, <2>1 DEF Word
<1> HIDE DEF y0, y1, y2
<1>12. ByteOf(y0, 0) = b[0] /\ ByteOf(y0, 1) = b[1] /\ ByteOf(y0, 2) = b[2] /\ ByteOf(y0, 3) = b[3]
  <2>1. Shifted(y0, 0) = y0
    BY DEF Shifted
  <2>2. Shifted(y0, 1) = y1
    <3>1. Shifted(y0, 1) = y0 \div Base
      BY DEF Shifted
    <3> QED BY <1>8, <3>1
  <2>3. Shifted(y0, 2) = y2
    <3>1. Shifted(y0, 2) = (y0 \div Base) \div Base
      BY DEF Shifted
    <3> QED BY <1>7, <1>8, <3>1
  <2>4. Shifted(y0, 3) = b[3]
    <3>1. Shifted(y0, 3) = ((y0 \div Base) \div Base) \div Base
      BY DEF Shifted
    <3> QED BY <1>6, <1>7, <1>8, <3>1
  <2> QED BY <1>6, <1>7, <1>8, <1>9, <2>1, <2>2, <2>3, <2>4 DEF ByteOf
<1>13. \A k \in 0 .. 3 : k = 0 \/ k = 1 \/ k = 2 \/ k = 3
  OBVIOUS
<1> QED BY <1>10, <1>11, <1>12, <1>13, Zenon

\* The bytes of a word.
LEMMA ByteIs ==
  /\ \A w \in Word, k \in 0 .. 3 : ByteOf(w, k) \in Byte
  /\ \A x \in Byte : ByteOf(x, 0) = x
  /\ Byte \subseteq Word /\ Word \subseteq Nat
<1>1. Base \in Nat \ {0} /\ Base > 1
  BY BaseIs
<1>2. Word \subseteq Nat
  BY <1>1 DEF Word
<1>3. ASSUME NEW w \in Word, NEW k \in 0 .. 3 PROVE ByteOf(w, k) \in Byte
  <2>1. w \in Nat
    BY <1>2
  <2>2. \A v \in Nat : v \div Base \in Nat /\ v % Base \in Byte
    BY <1>1 DEF Byte
  <2>3. k = 0 \/ k = 1 \/ k = 2 \/ k = 3
    OBVIOUS
  <2>4. CASE k = 0
    <3>1. Shifted(w, k) = w
      BY <2>4 DEF Shifted
    <3> QED BY <2>1, <2>2, <3>1 DEF ByteOf
  <2>5. CASE k = 1
    <3>1. Shifted(w, k) = w \div Base
      BY <2>5 DEF Shifted
    <3> QED BY <2>1, <2>2, <3>1, Zenon DEF ByteOf
  <2>6. CASE k = 2
    <3>1. Shifted(w, k) = (w \div Base) \div Base
      BY <2>6 DEF Shifted
    <3> QED BY <2>1, <2>2, <3>1, Zenon DEF ByteOf
  <2>7. CASE k = 3
    <3>1. Shifted(w, k) = ((w \div Base) \div Base) \div Base
      BY <2>7 DEF Shifted
    <3> QED BY <2>1, <2>2, <3>1, Zenon DEF ByteOf
  <2> QED BY <2>3, <2>4, <2>5, <2>6, <2>7
<1>4. ASSUME NEW x \in Byte PROVE ByteOf(x, 0) = x
  <2>1. Shifted(x, 0) = x
    BY DEF Shifted
  <2>2. x % Base = x
    BY <1>1 DEF Byte
  <2> QED BY <2>1, <2>2 DEF ByteOf
<1>5. Byte \subseteq Word
  <2>1. Base * Base >= Base /\ Base * Base \in Nat
    BY <1>1
  <2>2. Base * Base * Base * Base >= Base
    <3> DEFINE q == Base * Base
    <3>1. q \in Nat /\ q >= Base /\ q > 1
      BY <1>1, <2>1
    <3>2. q * Base >= q /\ q * Base \in Nat
      <4> HIDE DEF q
      <4> QED BY <1>1, <3>1
    <3>3. q * Base * Base >= q * Base
      <4> DEFINE p == q * Base
      <4> HIDE DEF p, q
      <4>1. p \in Nat
        BY <3>2 DEF p
      <4>2. p * Base >= p
        BY <1>1, <4>1
      <4> QED BY <4>2 DEF p
    <3> QED BY <1>1, <3>1, <3>2, <3>3
  <2> DEFINE z == Base * Base * Base * Base
  <2>3. z \in Int /\ z >= Base
    BY <1>1, <2>2
  <2>4. Word = 0 .. z - 1
    BY DEF Word
  <2> HIDE DEF z
  <2> QED BY <1>1, <2>3, <2>4 DEF Byte
<1> QED BY <1>2, <1>3, <1>4, <1>5

\* An aligned access that starts in memory ends there.
LEMMA Fits ==
  ASSUME NEW a \in Addr, NEW n \in Sizes, a % n = 0
  PROVE  a + n <= NBytes
<1>1. a \in Nat /\ a < NBytes /\ NBytes \in Nat /\ NBytes % 4 = 0
  BY DmAssumption DEF Addr, WordBytes
<1>2. n = 1 \/ n = 2 \/ n = 4
  BY DEF Sizes, WordBytes
<1>3. NBytes % n = 0
  BY <1>1, <1>2
<1>4. CASE n = 1
  BY <1>1, <1>4
<1>5. CASE n = 2
  BY <1>1, <1>5
<1>6. CASE n = 4
  BY <1>1, <1>6
<1> QED BY <1>2, <1>4, <1>5, <1>6

\* What a load finds.
LEMMA WordAtIs ==
  ASSUME mem \in [Addr -> Byte], NEW a \in Addr, NEW n \in Sizes, a % n = 0
  PROVE  WordAt(a, n) \in Word /\ \A k \in 0 .. n - 1 : ByteOf(WordAt(a, n), k) = mem[a + k]
<1> DEFINE b == [i \in 0 .. 3 |-> IF i < n THEN mem[a + i] ELSE 0]
<1>1. a + n <= NBytes /\ a \in Nat /\ n \in Nat /\ n <= 4 /\ NBytes \in Nat
  BY Fits, Sized DEF Addr, Sizes, WordBytes
<1>2. b \in [0 .. 3 -> Byte]
  <2>1. ASSUME NEW i \in 0 .. 3, i < n PROVE mem[a + i] \in Byte
    <3>1. a + i \in Addr
      BY <1>1, <2>1 DEF Addr
    <3> QED BY <3>1
  <2> QED BY <2>1, BaseIs
<1>3. WordAt(a, n) = WordOf(b)
  BY DEF WordAt
<1>4. \A k \in 0 .. n - 1 : k \in 0 .. 3 /\ b[k] = mem[a + k]
  BY <1>1
<1> HIDE DEF b
<1> QED BY <1>2, <1>3, <1>4, WordIs

\* What a store leaves.
LEMMA StoredAtIs ==
  ASSUME mem \in [Addr -> Byte], NEW a \in Addr, NEW n \in Sizes, a % n = 0, NEW v \in Word
  PROVE  /\ StoredAt(a, n, v) \in [Addr -> Byte]
         /\ \A k \in 0 .. n - 1 : StoredAt(a, n, v)[a + k] = ByteOf(v, k)
         /\ \A x \in Addr : x < a \/ x >= a + n => StoredAt(a, n, v)[x] = mem[x]
<1>1. a + n <= NBytes /\ a \in Nat /\ n \in Nat /\ n <= 4 /\ NBytes \in Nat /\ Addr \subseteq Nat
  BY Fits, Sized DEF Addr, Sizes, WordBytes
<1>2. ASSUME NEW x \in Addr, a <= x, x < a + n PROVE x - a \in 0 .. 3 /\ x - a \in 0 .. n - 1
  <2>1. x \in Nat
    BY <1>1
  <2> QED BY <1>1, <1>2, <2>1
<1>3. StoredAt(a, n, v) \in [Addr -> Byte]
  BY <1>2, ByteIs DEF StoredAt
<1>4. ASSUME NEW k \in 0 .. n - 1 PROVE StoredAt(a, n, v)[a + k] = ByteOf(v, k)
  <2>1. a + k \in Addr /\ a <= a + k /\ a + k < a + n /\ (a + k) - a = k
    BY <1>1 DEF Addr
  <2> QED BY <2>1 DEF StoredAt
<1>5. ASSUME NEW x \in Addr, x < a \/ x >= a + n PROVE StoredAt(a, n, v)[x] = mem[x]
  <2>1. x \in Nat
    BY <1>1
  <2>2. ~(a <= x /\ x < a + n)
    BY <1>1, <1>5, <2>1
  <2> QED BY <2>2 DEF StoredAt
<1> QED BY <1>3, <1>4, <1>5

---------------------------------------------------------------------------
(* What the calls of an operation are *)

\* What is in a call, and what kind of call an operation makes.
TypedCall(c) ==
  /\ InMem(c) => c.size \in Sizes
  /\ c.call \in {"store", "set"} => c.val \in Word
Kindred(c, o) ==
  /\ c.call = "store" <=> o.kind \in {"write", "bytes"}
  /\ c.call = "load" <=> o.kind \in {"read", "block"}
  /\ c.call = "set" <=> o.kind = "set"
  /\ c.call = "get" <=> o.kind \in {"get", "all"}

\* The calls of an operation follow each other through memory, and what one stores
\* the later ones leave alone.
Following(s) ==
  /\ InMem(s[1]) => s[1].addr \in Word
  /\ \A n \in 2 .. Len(s) :
       /\ s[n].call # "set"
       /\ InMem(s[n]) => s[n].addr = s[n - 1].addr + s[n - 1].size
       /\ s[n].call = "store" => \A i \in 1 .. n - 1 : s[i].addr + s[i].size <= s[n].addr

\* The calls of an operation.
LEMMA CallsOf ==
  ASSUME NEW o, IsOp(o)
  PROVE  /\ DOMAIN Calls(o) = 1 .. Len(Calls(o))
         /\ \A n \in 1 .. Len(Calls(o)) : TypedCall(Calls(o)[n]) /\ Kindred(Calls(o)[n], o)
         /\ Following(Calls(o))
<1>0. Word \subseteq Nat /\ Byte \subseteq Word /\ 1 \in Sizes /\ Sizes \subseteq Nat \ {0}
  BY ByteIs, Sized
<1>a. ASSUME NEW c, TypedCall(c), Kindred(c, o), InMem(c) => c.addr \in Word, Calls(o) = <<c>>
      PROVE  /\ DOMAIN Calls(o) = 1 .. Len(Calls(o))
             /\ \A n \in 1 .. Len(Calls(o)) : TypedCall(Calls(o)[n]) /\ Kindred(Calls(o)[n], o)
             /\ Following(Calls(o))
  <2>1. Len(<<c>>) = 1 /\ <<c>>[1] = c /\ DOMAIN <<c>> = 1 .. 1
    OBVIOUS
  <2>2. \A n \in 1 .. 1 : n = 1
    OBVIOUS
  <2>3. \A n \in 2 .. 1 : FALSE
    OBVIOUS
  <2>4. Following(<<c>>)
    BY <1>a, <2>1, <2>3, Zenon DEF Following
  <2> QED BY <1>a, <2>1, <2>2, <2>4, Zenon
<1>1. CASE o.kind = "write"
  <2> DEFINE c == Store(o.addr, o.size, o.val)
  <2>1. o.addr \in Word /\ o.size \in Sizes /\ o.val \in Word
    BY <1>1 DEF IsOp
  <2>2. c.call = "store" /\ c.addr = o.addr /\ c.size = o.size /\ c.val = o.val
    BY DEF Store
  <2>3. Calls(o) = <<c>>
    BY <1>1 DEF Calls
  <2> HIDE DEF c
  <2>4. TypedCall(c) /\ Kindred(c, o)
    BY <1>1, <2>1, <2>2 DEF TypedCall, Kindred, InMem
  <2> QED BY <1>a, <2>1, <2>2, <2>3, <2>4
<1>2. CASE o.kind = "read"
  <2> DEFINE c == Load(o.addr, o.size)
  <2>1. o.addr \in Word /\ o.size \in Sizes
    BY <1>2 DEF IsOp
  <2>2. c.call = "load" /\ c.addr = o.addr /\ c.size = o.size
    BY DEF Load
  <2>3. Calls(o) = <<c>>
    BY <1>2 DEF Calls
  <2> HIDE DEF c
  <2>4. TypedCall(c) /\ Kindred(c, o)
    BY <1>2, <2>1, <2>2 DEF TypedCall, Kindred, InMem
  <2> QED BY <1>a, <2>1, <2>2, <2>3, <2>4
<1>3. CASE o.kind = "bytes"
  <2>1. /\ o.addr \in Word /\ o.bytes \in Seq(Byte) /\ Len(o.bytes) \in Nat \ {0}
        /\ DOMAIN o.bytes = 1 .. Len(o.bytes)
    BY <1>3 DEF IsOp
  <2> DEFINE k == Len(o.bytes)
             f == [i \in 1 .. k |-> Store(o.addr + i - 1, 1, o.bytes[i])]
  <2>2. Calls(o) = f
    BY <1>3, <2>1 DEF Calls
  <2>3. Len(f) = k
    <3>1. f \in [1 .. k -> {f[i] : i \in 1 .. k}]
      OBVIOUS
    <3> HIDE DEF f
    <3> QED BY <2>1, <3>1, SeqFcn
  <2>4. \A n \in 1 .. k : /\ f[n].call = "store" /\ f[n].addr = o.addr + n - 1
                          /\ f[n].size = 1 /\ f[n].val = o.bytes[n]
    BY DEF Store
  <2>5. DOMAIN f = 1 .. k
    OBVIOUS
  <2> HIDE DEF f
  <2>6. \A n \in 1 .. k : o.bytes[n] \in Byte
    BY <2>1
  <2>7. ASSUME NEW n \in 1 .. k PROVE TypedCall(f[n]) /\ Kindred(f[n], o)
    BY <1>0, <1>3, <2>4, <2>6 DEF TypedCall, Kindred
  <2>8. Following(f)
    <3>1. f[1].addr \in Word
      <4>1. 1 \in 1 .. k /\ o.addr + 1 - 1 = o.addr
        BY <1>0, <2>1
      <4> QED BY <2>1, <2>4, <4>1
    <3>2. ASSUME NEW n \in 2 .. k
          PROVE  /\ f[n].call # "set" /\ f[n].addr = f[n - 1].addr + f[n - 1].size
                 /\ \A i \in 1 .. n - 1 : f[i].addr + f[i].size <= f[n].addr
      <4>1. n \in 1 .. k /\ n - 1 \in 1 .. k /\ \A i \in 1 .. n - 1 : i \in 1 .. k
        BY <2>1
      <4>2. /\ f[n].call = "store" /\ f[n].addr = o.addr + n - 1
            /\ f[n - 1].addr = o.addr + (n - 1) - 1 /\ f[n - 1].size = 1
        BY <2>4, <4>1
      <4>3. o.addr \in Nat
        BY <1>0, <2>1
      <4>4. f[n].addr = f[n - 1].addr + f[n - 1].size
        BY <4>1, <4>2, <4>3
      <4>5. ASSUME NEW i \in 1 .. n - 1 PROVE f[i].addr + f[i].size <= f[n].addr
        <5>1. f[i].addr = o.addr + i - 1 /\ f[i].size = 1
          BY <2>4, <4>1
        <5> QED BY <4>2, <4>3, <5>1
      <4> QED BY <4>2, <4>4, <4>5
    <3> QED BY <2>3, <3>1, <3>2 DEF Following
  <2> QED BY <2>2, <2>3, <2>5, <2>7, <2>8
<1>4. CASE o.kind = "block"
  <2>1. /\ Calls(o) = wl_dm_read_block(o.addr, o.len) /\ o.addr \in Word
        /\ o.addr \in Nat /\ o.len \in Nat \ {0}
    BY <1>0, <1>4 DEF Calls, IsOp
  <2>2. DOMAIN Calls(o) = 1 .. Len(Calls(o))
    BY <2>1, BlockIs
  <2>3. /\ \A i \in 1 .. Len(Calls(o)) : \E b \in Nat, z \in Sizes :
             Calls(o)[i] = Load(b, z)
        /\ Calls(o)[1].addr = o.addr
        /\ \A i \in 2 .. Len(Calls(o)) : Calls(o)[i].addr = Calls(o)[i - 1].addr + Calls(o)[i - 1].size
        /\ Len(Calls(o)) \in Nat
    <3> DEFINE s == wl_dm_read_block(o.addr, o.len)
    <3>1. /\ \A i \in 1 .. Len(s) : \E b \in Nat, z \in Sizes :
               s[i] = Load(b, z) /\ b % z = 0 /\ o.addr <= b /\ b < o.addr + o.len
          /\ s[1].addr = o.addr
          /\ \A i \in 2 .. Len(s) : s[i].addr = s[i - 1].addr + s[i - 1].size
          /\ Len(s) \in Nat
      BY <2>1, BlockCalls
    <3> QED BY <2>1, <3>1
  <2>4. ASSUME NEW i \in 1 .. Len(Calls(o))
        PROVE  Calls(o)[i].call = "load" /\ Calls(o)[i].size \in Sizes
    <3>1. PICK b \in Nat, z \in Sizes : Calls(o)[i] = Load(b, z)
      BY <2>3
    <3>2. Load(b, z).call = "load" /\ Load(b, z).size = z
      BY DEF Load
    <3> QED BY <3>1, <3>2, Zenon
  <2>5. ASSUME NEW i \in 1 .. Len(Calls(o))
        PROVE  TypedCall(Calls(o)[i]) /\ Kindred(Calls(o)[i], o)
    BY <1>4, <2>4 DEF TypedCall, Kindred, InMem
  <2>6. Following(Calls(o))
    <3>1. \A i \in 2 .. Len(Calls(o)) : Calls(o)[i].call = "load"
      BY <2>3, <2>4
    <3> QED BY <2>1, <2>3, <3>1 DEF Following
  <2> QED BY <2>2, <2>5, <2>6
<1>5. CASE o.kind = "set"
  <2> DEFINE c == [call |-> "set", reg |-> o.reg, val |-> o.val]
  <2>1. Calls(o) = <<c>> /\ o.val \in Word
    BY <1>5 DEF Calls, IsOp
  <2>2. c.call = "set" /\ c.val = o.val
    OBVIOUS
  <2> HIDE DEF c
  <2>3. TypedCall(c) /\ Kindred(c, o) /\ ~InMem(c)
    BY <1>5, <2>1, <2>2 DEF TypedCall, Kindred, InMem
  <2> QED BY <1>a, <2>1, <2>3
<1>6. CASE o.kind = "get"
  <2> DEFINE c == [call |-> "get", reg |-> o.reg]
  <2>1. Calls(o) = <<c>>
    BY <1>6 DEF Calls
  <2>2. c.call = "get"
    OBVIOUS
  <2> HIDE DEF c
  <2>3. TypedCall(c) /\ Kindred(c, o) /\ ~InMem(c)
    BY <1>6, <2>1, <2>2 DEF TypedCall, Kindred, InMem
  <2> QED BY <1>a, <2>1, <2>3
<1>7. CASE o.kind = "all"
  <2> DEFINE k == Len(Registers)
             f == [i \in 1 .. k |-> [call |-> "get", reg |-> Registers[i]]]
  <2>1. k \in Nat /\ DOMAIN Registers = 1 .. k /\ k # 0
    BY Sized DEF Regs
  <2>2. Calls(o) = f
    BY <1>7, <2>1 DEF Calls
  <2>3. Len(f) = k
    <3>1. f \in [1 .. k -> {f[i] : i \in 1 .. k}]
      OBVIOUS
    <3> HIDE DEF f
    <3> QED BY <2>1, <3>1, SeqFcn
  <2>4. DOMAIN f = 1 .. k /\ \A n \in 1 .. k : f[n].call = "get"
    OBVIOUS
  <2> HIDE DEF f
  <2>5. ASSUME NEW n \in 1 .. k PROVE TypedCall(f[n]) /\ Kindred(f[n], o) /\ ~InMem(f[n])
    BY <1>7, <2>4 DEF TypedCall, Kindred, InMem
  <2>6. Following(f)
    <3>1. 1 \in 1 .. k /\ \A n \in 2 .. k : n \in 1 .. k
      BY <2>1
    <3> QED BY <2>3, <2>4, <2>5, <3>1 DEF Following
  <2> QED BY <2>2, <2>3, <2>4, <2>5, <2>6
<1> QED BY <1>1, <1>2, <1>3, <1>4, <1>5, <1>6, <1>7 DEF IsOp

\* What a request asks for is an operation.
LEMMA RequestsAreOps == ASSUME NEW r \in RequestSet PROVE IsOp(OpOf(r))
<1>1. IsRequest(r)
  BY RequestAssumption
<1>2. WordBytes \in Sizes /\ 0 \in Word /\ 0 \in Byte
  BY Sized, BaseIs, ByteIs
<1>3. CASE r.kind = "g"
  BY <1>3 DEF OpOf, gdb_handle_g, IsOp
<1>4. CASE r.kind = "p" /\ r.reg \in Regs
  <2>1. OpOf(r) = [kind |-> "get", reg |-> r.reg]
    BY <1>4 DEF OpOf, gdb_handle_p
  <2> QED BY <1>4, <2>1 DEF IsOp
<1>5. CASE r.kind = "P" /\ r.reg \in Regs /\ r.text \in Seq(Byte)
  <2>1. parse_hex_u32(r.text) \in Word
    <3> DEFINE b == [i \in 0 .. 3 |-> IF i < Len(r.text) THEN r.text[Len(r.text) - i] ELSE 0]
    <3>1. b \in [0 .. 3 -> Byte]
      BY <1>2, <1>5
    <3>2. parse_hex_u32(r.text) = WordOf(b)
      BY DEF parse_hex_u32
    <3> HIDE DEF b
    <3> QED BY <3>1, <3>2, WordIs
  <2>2. OpOf(r) = [kind |-> "set", reg |-> r.reg, val |-> parse_hex_u32(r.text)]
    BY <1>5 DEF OpOf, gdb_handle_p
  <2> QED BY <1>5, <2>1, <2>2 DEF IsOp
<1>6. CASE r.kind = "m" /\ r.addr \in Word /\ r.len \in Nat \ {0}
  <2>1. OpOf(r) = gdb_handle_m(r)
    BY <1>6 DEF OpOf
  <2> QED BY <1>6, <2>1 DEF IsOp, gdb_handle_m
<1>7. CASE r.kind = "M" /\ r.addr \in Word /\ r.text \in Seq(Byte) /\ r.text # <<>>
  <2>1. OpOf(r) = gdb_handle_M(r)
    BY <1>7 DEF OpOf
  <2> QED BY <1>7, <2>1 DEF IsOp, gdb_handle_M
<1>8. \A x : x.number \in Word => parse_argument(x) \in Word
  BY <1>2 DEF parse_argument
<1>9. CASE r.kind = "read32" /\ r.addr.number \in Word
  <2>1. OpOf(r) = monitor_read32(r)
    BY <1>9 DEF OpOf
  <2> QED BY <1>2, <1>8, <1>9, <2>1 DEF IsOp, monitor_read32
<1>10. CASE r.kind = "write32" /\ r.addr.number \in Word /\ r.val.number \in Word
  <2>1. OpOf(r) = monitor_write32(r)
    BY <1>10 DEF OpOf
  <2> QED BY <1>2, <1>8, <1>10, <2>1 DEF IsOp, monitor_write32
<1> QED BY <1>1, <1>3, <1>4, <1>5, <1>6, <1>7, <1>9, <1>10 DEF IsRequest

---------------------------------------------------------------------------
(* What is known of the data while an operation runs *)

\* The operations that fetch what a caller gets.
Reads(o) == o.kind \in {"read", "block", "get", "all"}

\* A call has done its work, and w is what it read.
CallDone(c, w) ==
  /\ c.call = "store" => \A k \in 0 .. c.size - 1 : mem[c.addr + k] = ByteOf(c.val, k)
  /\ c.call = "load" => w = WordAt(c.addr, c.size)
  /\ c.call = "set" => regs[c.reg] = c.val
  /\ c.call = "get" => w = regs[c.reg]

\* A call on memory that the core accepts.
Reachable(c) == InMem(c) => c.addr \in Addr /\ c.addr % c.size = 0

\* The commands that fetch a register and assign to one.
Fetch(r) == [reg |-> r, write |-> FALSE, postexec |-> FALSE]
Assign(r) == [reg |-> r, write |-> TRUE, postexec |-> FALSE]

\* Memory, registers and DATA0 hold bytes and words, PROGBUF a program.
Program == \E i \in {"store", "load"}, n \in Sizes : progbuf = <<Insn(i, n), Ebreak>>
Values ==
  /\ mem \in [Addr -> Byte] /\ regs \in [Regs -> Word] /\ kept \in [Regs -> Word]
  /\ data0 \in Word /\ got \in Seq(Word)
  /\ Program
  /\ ~Idle => IsOp(op)

\* What is left of the types: flags, errors and what the bounds allow.
Flags ==
  /\ halted \in BOOLEAN /\ auto \in BOOLEAN /\ last \in Command \cup {NoCommand}
  /\ cmderr \in {"none", "busy", "exception", "halt", "bus"}
  /\ result.status \in {"none", "ok", "usb", "target", "usage"}
  /\ faults \in 0 .. MaxFaults /\ hangs \in 0 .. MaxHangs /\ nops \in 0 .. MaxOps

\* One word has been read for every earlier call that reads.
Answered == Len(got) = IF ~Idle /\ Reads(op) THEN nth - 1 ELSE 0

\* The core accepted every earlier call, and while no error is reported each has done
\* its work, which the later ones have not undone; the command of the last of them is
\* over when the next call begins.
Reached == ~Idle => \A i \in 1 .. nth - 1 : Reachable(Calls(op)[i])
Behind ==
  ~Idle /\ cmderr = "none" =>
    /\ \A i \in 1 .. nth - 1 : CallDone(Calls(op)[i], got[i])
    /\ nth > 1 /\ ip = 1 => ~Busy

\* How far the call in progress is: what the command that runs is about to use, and
\* what the one that has completed left in DATA0, in a register and in memory.
MemCurrent(c) ==
  /\ c.call = "store" /\ ip = 9 =>
       IF Busy THEN data0 = c.val ELSE Reachable(c) /\ CallDone(c, 0)
  /\ c.call = "load" /\ ip > 8 /\ ~(ip = 9 /\ Busy) =>
       Reachable(c) /\ regs["x8"] = WordAt(c.addr, c.size)
  /\ ip = 11 /\ Busy => running = Fetch("x8")
  /\ ip > 10 /\ ~(ip = 11 /\ Busy) => data0 = regs["x8"]
RegCurrent(c) ==
  /\ c.call = "set" /\ ip = 3 =>
       IF Busy THEN running = Assign(c.reg) /\ data0 = c.val ELSE regs[c.reg] = c.val
  /\ c.call = "get" /\ ip > 1 =>
       IF Busy THEN running = Fetch(c.reg) ELSE data0 = regs[c.reg]
Current ==
  ~Idle /\ cmderr = "none" => IF InMem(Call) THEN MemCurrent(Call) ELSE RegCurrent(Call)

\* DATA0 is read only after a command that completed without an error.
Settled == ~Idle /\ At.access = "read" => ~Busy /\ cmderr = "none"

\* The operation that runs for a request is the one the request asks for.
Requested == ~Idle /\ req.kind # "none" => req \in RequestSet /\ op = OpOf(req)

\* What remains to be shown of a step besides DmInv and the flags.
Data == Values /\ Answered /\ Reached /\ Behind /\ Current /\ Settled /\ Requested

\* The commands that the tool gives.
LEMMA CommandAt ==
  ASSUME Types, ~Idle, At.access = "command"
  PROVE  /\ At.cmd \in Command /\ At.cmd # NoCommand
         /\ InMem(Call) => /\ ip \in {5, 8, 10}
                           /\ ip = 5 => At.cmd = SetAddress
                           /\ ip = 8 => At.cmd = RunProgram
                           /\ ip = 10 => At.cmd = Fetch("x8")
         /\ ~InMem(Call) => /\ Call.call = "set" => ip = 2 /\ At.cmd = Assign(Call.reg)
                            /\ Call.call = "get" => ip = 1 /\ At.cmd = Fetch(Call.reg)
<1>1. \A r \in Regs : /\ Fetch(r) \in Command /\ Assign(r) \in Command
                      /\ Fetch(r) # NoCommand /\ Assign(r) # NoCommand
  BY DmAssumption DEF Fetch, Assign, Command, NoCommand
<1>2. SetAddress \in Command /\ RunProgram \in Command /\ SetAddress # NoCommand /\ RunProgram # NoCommand
  BY Sized DEF SetAddress, RunProgram, Command, NoCommand
<1>3. "x8" \in Regs
  BY Sized
<1>4. CASE InMem(Call)
  <2>1. ip \in {5, 8, 10}
    <3>1. ip \in {1, 2, 3, 4, 5, 7, 8, 10} /\ ip \notin {1, 2, 3, 4, 7}
      BY <1>4, Writing
    <3> QED BY <3>1
  <2>2. ip = 5 => At.cmd = SetAddress
    BY <1>4, AtIs, CommandIs
  <2>3. ip = 8 => At.cmd = RunProgram
    BY <1>4, AtIs, CommandIs
  <2>4. ip = 10 => At.cmd = Fetch("x8")
    BY <1>4, AtIs, CommandIs DEF Fetch
  <2> QED BY <1>1, <1>2, <1>3, <1>4, <2>1, <2>2, <2>3, <2>4
<1>5. CASE ~InMem(Call)
  <2>1. Call.call \in {"set", "get"} /\ Call.reg \in Regs
    BY <1>5, AtIs
  <2>2. Call.call = "set" => ip = 2
    BY <1>5, Writing
  <2>3. Call.call = "get" => ip = 1
    BY <1>5, Writing
  <2>4. Call.call = "set" => At.cmd = Assign(Call.reg)
    BY <1>5, <2>2, AtIs, CommandIs DEF Assign
  <2>5. Call.call = "get" => At.cmd = Fetch(Call.reg)
    BY <1>5, <2>3, AtIs, CommandIs DEF Fetch
  <2> QED BY <1>1, <1>5, <2>1, <2>2, <2>3, <2>4, <2>5
<1> QED BY <1>4, <1>5

\* What the tool writes is a word, and what it loads a program.
LEMMA CallIs ==
  ASSUME Types, Values, Reached, ~Idle
  PROVE  /\ TypedCall(Call) /\ Kindred(Call, op)
         /\ InMem(Call) => Call.addr \in Word
         /\ ValueOf(Call) \in Word
         /\ \A i \in 1 .. nth - 1 : TypedCall(Calls(op)[i]) /\ Kindred(Calls(op)[i], op)
         /\ Following(Calls(op))
<1>1. IsOp(op) /\ nth \in 1 .. Len(Calls(op)) /\ Len(Calls(op)) \in Nat
  BY CallsAre DEF Values, Types
<1>2. /\ \A n \in 1 .. Len(Calls(op)) : TypedCall(Calls(op)[n]) /\ Kindred(Calls(op)[n], op)
      /\ Following(Calls(op))
  BY <1>1, CallsOf
<1>3. TypedCall(Call) /\ Kindred(Call, op)
  BY <1>1, <1>2 DEF Call
<1>4. \A i \in 1 .. nth - 1 : i \in 1 .. Len(Calls(op))
  BY <1>1
<1>5. ASSUME InMem(Call) PROVE Call.addr \in Word
  <2>1. CASE nth = 1
    BY <1>2, <1>5, <2>1 DEF Following, Call
  <2>2. CASE nth # 1
    <3> DEFINE c == Calls(op)[nth - 1]
    <3>1. nth \in 2 .. Len(Calls(op)) /\ nth - 1 \in 1 .. nth - 1
      BY <1>1, <2>2
    <3>2. Call.addr = c.addr + c.size
      BY <1>2, <1>5, <3>1 DEF Following, Call
    <3>3. Reachable(c)
      BY <3>1 DEF Reached
    <3>4. InMem(c) /\ TypedCall(c)
      <4>1. Kindred(c, op) /\ TypedCall(c)
        BY <1>2, <1>4, <3>1
      <4> HIDE DEF c
      <4> QED BY <1>3, <1>5, <4>1 DEF Kindred, InMem
    <3> HIDE DEF c
    <3>5. c.addr \in Addr /\ c.size \in Sizes /\ c.addr % c.size = 0
      BY <3>3, <3>4 DEF Reachable, TypedCall
    <3>6. c.addr + c.size <= NBytes /\ c.addr \in Nat /\ c.size \in Nat
      <4>1. c.addr + c.size <= NBytes
        BY <3>5, Fits
      <4>2. c.addr \in Nat
        BY <3>5 DEF Addr
      <4>3. c.size \in Nat
        BY <3>5, Sized
      <4> QED BY <4>1, <4>2, <4>3
    <3>7. c.addr + c.size \in Word
      <4> DEFINE z == Base * Base * Base * Base
      <4>1. NBytes \in 0 .. z - 1 /\ NBytes \in Nat /\ z \in Int
        BY DmAssumption DEF Word
      <4>2. Word = 0 .. z - 1
        BY DEF Word
      <4> HIDE DEF z
      <4> QED BY <3>6, <4>1, <4>2
    <3> QED BY <3>2, <3>7
  <2> QED BY <2>1, <2>2
<1>6. ValueOf(Call) \in Word
  BY <1>3, BaseIs, ByteIs DEF ValueOf, TypedCall
<1> QED BY <1>2, <1>3, <1>4, <1>5, <1>6

\* A write of a DMI register leaves words and a program.
LEMMA DmiValues ==
  ASSUME DmInv, Values, Reached, ~Idle, At.access \in {"write", "command"}, DmiWrite(At)
  PROVE  data0' \in Word /\ Program'
<1>1. Types /\ data0 \in Word /\ Program
  BY DEF DmInv, Values
<1>2. CASE Busy \/ At.access = "command"
  <2>1. UNCHANGED <<data0, progbuf>>
    BY <1>2, DmiBusy, DmiCommand
  <2> QED BY <1>1, <2>1 DEF Program
<1>3. CASE ~Busy /\ At.access = "write"
  <2>1. /\ At.reg = "AUTO" => UNCHANGED <<data0, progbuf>>
        /\ At.reg = "DATA0" => data0' = At.val /\ UNCHANGED progbuf
        /\ At.reg = "PROGBUF0" => progbuf' = [progbuf EXCEPT ![1] = At.val] /\ UNCHANGED data0
        /\ At.reg = "PROGBUF1" => progbuf' = [progbuf EXCEPT ![2] = At.val] /\ UNCHANGED data0
        /\ At.reg \in {"AUTO", "DATA0", "PROGBUF0", "PROGBUF1"}
    BY <1>3, DmiSet
  <2>2. /\ At.reg = "DATA0" => At.val \in Word
        /\ At.reg = "PROGBUF0" => \E i \in {"store", "load"}, n \in Sizes : At.val = Insn(i, n)
        /\ At.reg = "PROGBUF1" => At.val = Ebreak
    <3>1. CASE InMem(Call)
      <4>1. ip \in {1, 2, 3, 4, 7}
        BY <1>1, <1>3, <3>1, Writing
      <4>2. Call.addr \in Word /\ ValueOf(Call) \in Word /\ Call.call \in {"store", "load"} /\ Call.size \in Sizes
        BY <1>1, <3>1, CallIs DEF TypedCall, InMem
      <4>3. CASE ip = 1
        BY <1>1, <3>1, <4>3, Writing
      <4>4. CASE ip = 2
        <5>1. At = W("PROGBUF0", Insn(Call.call, Call.size))
          BY <1>1, <3>1, <4>4, AtIs
        <5>2. At.reg = "PROGBUF0" /\ At.val = Insn(Call.call, Call.size)
          BY <5>1, Kinds
        <5> QED BY <4>2, <5>2
      <4>5. CASE ip = 3
        <5>1. At = W("PROGBUF1", Ebreak)
          BY <1>1, <3>1, <4>5, AtIs
        <5>2. At.reg = "PROGBUF1" /\ At.val = Ebreak
          BY <5>1, Kinds
        <5> QED BY <5>2
      <4>6. CASE ip = 4
        <5>1. At = W("DATA0", Call.addr)
          BY <1>1, <3>1, <4>6, AtIs
        <5>2. At.reg = "DATA0" /\ At.val = Call.addr
          BY <5>1, Kinds
        <5> QED BY <4>2, <5>2
      <4>7. CASE ip = 7
        <5>1. At = W("DATA0", ValueOf(Call))
          BY <1>1, <3>1, <4>7, AtIs
        <5>2. At.reg = "DATA0" /\ At.val = ValueOf(Call)
          BY <5>1, Kinds
        <5> QED BY <4>2, <5>2
      <4> QED BY <4>1, <4>3, <4>4, <4>5, <4>6, <4>7
    <3>2. CASE ~InMem(Call)
      <4>1. Call.call = "set" /\ ip = 1
        BY <1>1, <1>3, <3>2, Writing, AtIs
      <4>2. At = W("DATA0", Call.val)
        BY <1>1, <3>2, <4>1, AtIs
      <4>3. At.reg = "DATA0" /\ At.val = Call.val
        BY <4>2, Kinds
      <4>4. Call.val \in Word
        BY <1>1, <4>1, CallIs DEF TypedCall
      <4> QED BY <4>3, <4>4
    <3> QED BY <3>1, <3>2
  <2>3. PICK i \in {"store", "load"}, n \in Sizes : progbuf = <<Insn(i, n), Ebreak>>
    BY <1>1 DEF Program
  <2>4. data0' \in Word
    BY <1>1, <2>1, <2>2
  <2>5. CASE At.reg = "PROGBUF0"
    <3>1. PICK j \in {"store", "load"}, m \in Sizes : At.val = Insn(j, m)
      BY <2>2, <2>5
    <3>2. progbuf' = <<Insn(j, m), Ebreak>>
      BY <2>1, <2>3, <2>5, <3>1
    <3> QED BY <2>4, <3>2 DEF Program
  <2>6. CASE At.reg = "PROGBUF1"
    <3>1. progbuf' = <<Insn(i, n), Ebreak>>
      BY <2>1, <2>2, <2>3, <2>6
    <3> QED BY <2>4, <3>1 DEF Program
  <2>7. CASE At.reg \in {"AUTO", "DATA0"}
    <3>1. progbuf' = <<Insn(i, n), Ebreak>>
      BY <2>1, <2>3, <2>7
    <3> QED BY <2>4, <3>1 DEF Program
  <2> QED BY <2>1, <2>5, <2>6, <2>7
<1> QED BY <1>2, <1>3


\* At the last access of a call that has met no error the call has done its work, and
\* what it reads is in DATA0.
LEMMA Finished ==
  ASSUME Types, Data, ~Idle, ip = Len(Script(Call)), cmderr = "none", ~Busy
  PROVE  /\ Reachable(Call) /\ \A w : (Call.call \in {"load", "get"} => w = data0) => CallDone(Call, w)
         /\ At.access = "read" <=> Call.call \in {"load", "get"}
         /\ At.access = "read" <=> Reads(op)
<1>1. /\ InMem(Call) => MemCurrent(Call)
      /\ ~InMem(Call) => RegCurrent(Call)
  BY DEF Data, Current
<1>2. Kindred(Call, op)
  BY CallIs DEF Data
<1>3. CASE Call.call = "store"
  <2>1. InMem(Call) /\ ip = 9
    BY <1>3, AtIs DEF InMem
  <2>2. At.access = "wait"
    BY <2>1, AtIs, Kinds
  <2>3. Reachable(Call) /\ CallDone(Call, 0)
    BY <1>1, <1>3, <2>1 DEF MemCurrent
  <2> QED BY <1>2, <1>3, <2>2, <2>3 DEF CallDone, Reads, Kindred
<1>4. CASE Call.call = "load"
  <2>1. InMem(Call) /\ ip = 12
    BY <1>4, AtIs DEF InMem
  <2>2. At.access = "read"
    BY <2>1, AtIs, Kinds
  <2>3. Reachable(Call) /\ regs["x8"] = WordAt(Call.addr, Call.size) /\ data0 = regs["x8"]
    BY <1>1, <1>4, <2>1 DEF MemCurrent
  <2> QED BY <1>2, <1>4, <2>2, <2>3 DEF CallDone, Reads, Kindred
<1>5. CASE Call.call = "set"
  <2>1. ~InMem(Call) /\ ip = 3
    BY <1>5, AtIs DEF InMem
  <2>2. At.access = "wait"
    BY <1>5, <2>1, AtIs, Kinds
  <2>3. regs[Call.reg] = Call.val
    BY <1>1, <1>5, <2>1 DEF RegCurrent
  <2> QED BY <1>2, <1>5, <2>1, <2>2, <2>3 DEF CallDone, Reads, Kindred, Reachable
<1>6. CASE Call.call = "get"
  <2>1. ~InMem(Call) /\ ip = 3
    BY <1>6, AtIs DEF InMem
  <2>2. At.access = "read"
    BY <1>6, <2>1, AtIs, Kinds
  <2>3. data0 = regs[Call.reg]
    BY <1>1, <1>6, <2>1 DEF RegCurrent
  <2> QED BY <1>2, <1>6, <2>1, <2>2, <2>3 DEF CallDone, Reads, Kindred, Reachable
<1> QED BY <1>3, <1>4, <1>5, <1>6, AtIs DEF ProperCall, InMem

\* With the last access of a call all the calls so far have been made.
LEMMA CallsMade ==
  ASSUME Types, Data, ~Idle, ip = Len(Script(Call)), cmderr = "none", ~Busy
  PROVE  LET w == IF At.access = "read" THEN Append(got, data0) ELSE got
         IN  /\ w \in Seq(Word) /\ Len(w) = IF Reads(op) THEN nth ELSE 0
             /\ \A i \in 1 .. nth : Reachable(Calls(op)[i]) /\ CallDone(Calls(op)[i], w[i])
<1> DEFINE w == IF At.access = "read" THEN Append(got, data0) ELSE got
<1>1. /\ nth \in Nat \ {0} /\ got \in Seq(Word) /\ data0 \in Word
      /\ Len(got) = IF Reads(op) THEN nth - 1 ELSE 0
  BY AtIs DEF Data, Values, Answered
<1>2. /\ Reachable(Call)
      /\ \A v : (Call.call \in {"load", "get"} => v = data0) => CallDone(Call, v)
      /\ At.access = "read" <=> Call.call \in {"load", "get"}
      /\ At.access = "read" <=> Reads(op)
  BY Finished
<1>3. w \in Seq(Word) /\ Len(w) = IF Reads(op) THEN nth ELSE 0
  BY <1>1, <1>2
<1>4. ASSUME NEW i \in 1 .. nth PROVE Reachable(Calls(op)[i]) /\ CallDone(Calls(op)[i], w[i])
  <2>1. CASE i = nth
    <3>1. Call.call \in {"load", "get"} => w[i] = data0
      BY <1>1, <1>2, <2>1
    <3> QED BY <1>2, <2>1, <3>1 DEF Call
  <2>2. CASE i # nth
    <3>1. i \in 1 .. nth - 1
      BY <1>1, <2>2
    <3>2. w[i] = got[i]
      <4>1. CASE At.access = "read"
        <5>1. i \in 1 .. Len(got)
          BY <1>1, <1>2, <3>1, <4>1
        <5> QED BY <1>1, <4>1, <5>1
      <4>2. CASE At.access # "read"
        BY <4>2
      <4> QED BY <4>1, <4>2
    <3>3. Reachable(Calls(op)[i]) /\ CallDone(Calls(op)[i], got[i])
      BY <3>1 DEF Data, Reached, Behind
    <3> QED BY <3>2, <3>3
  <2> QED BY <2>1, <2>2
<1> QED BY <1>3, <1>4

\* At the first access of a call there is nothing to show of the call, and nothing is
\* read.
LEMMA NothingYet == Types /\ (Idle \/ ip = 1) => Current /\ Settled
<1> SUFFICES ASSUME Types, Idle \/ ip = 1 PROVE Current /\ Settled
  OBVIOUS
<1>1. CASE Idle
  BY <1>1 DEF Current, Settled
<1>2. CASE ~Idle /\ ip = 1
  <2>1. At.access # "read"
    BY <1>2, Reading
  <2>2. Settled
    BY <2>1 DEF Settled
  <2>3. MemCurrent(Call) /\ RegCurrent(Call)
    BY <1>2 DEF MemCurrent, RegCurrent
  <2> QED BY <2>2, <2>3 DEF Current
<1> QED BY <1>1, <1>2

\* The tool goes on after an access that succeeded.
LEMMA DataGoesOn ==
  ASSUME Types, Types', Data, ~Idle, NEW STATE w, Advance(w),
         w = IF At.access = "read" THEN Append(got, data0) ELSE got,
         UNCHANGED <<mem, regs, kept, req>>, data0' \in Word, Program',
         cmderr' = "none" => cmderr = "none",
         ip = Len(Script(Call)) => cmderr = "none" /\ ~Busy /\ ~Busy',
         Call' = Call /\ ip' = ip + 1 => Current' /\ Settled',
         At.access = "read" => ip = Len(Script(Call))
  PROVE  Data'
<1>1. /\ mem \in [Addr -> Byte] /\ regs \in [Regs -> Word] /\ kept \in [Regs -> Word]
      /\ data0 \in Word /\ got \in Seq(Word) /\ IsOp(op)
  BY DEF Data, Values
<1>2. /\ nth \in Nat \ {0} /\ nth <= Len(Calls(op)) /\ ip \in 1 .. Len(Script(Call))
      /\ Len(Calls(op)) \in Nat /\ Len(Script(Call)) \in Nat
  <2>1. Len(Script(Call)) \in {3, 9, 12}
    BY AtIs
  <2> QED BY <2>1, AtIs
<1>3. Len(got) = IF Reads(op) THEN nth - 1 ELSE 0
  BY DEF Data, Answered
<1>4. CASE ip < Len(Script(Call)) /\ ip' = ip + 1 /\ got' = w /\ UNCHANGED <<op, nth>>
  <2>1. w = got /\ Call' = Call /\ Idle' = Idle
    BY <1>2, <1>4 DEF Call, Idle
  <2>2. Current' /\ Settled'
    BY <1>4, <2>1
  <2>3. Values'
    BY <1>1, <1>4, <2>1 DEF Values
  <2>4. Answered' /\ Reached' /\ Requested'
    BY <1>4, <2>1 DEF Data, Answered, Reached, Requested
  <2>5. Behind'
    <3> SUFFICES ASSUME (~Idle)', cmderr' = "none"
                 PROVE  /\ \A i \in 1 .. nth - 1 : CallDone(Calls(op)[i], got[i])'
                        /\ ip' # 1
      BY <1>4 DEF Behind
    <3>1. \A i \in 1 .. nth - 1 : CallDone(Calls(op)[i], got[i])
      BY DEF Data, Behind
    <3>2. \A i \in 1 .. nth - 1 : CallDone(Calls(op)[i], got[i])' = CallDone(Calls(op)[i], got[i])
      BY <1>4, <2>1 DEF CallDone, WordAt
    <3> QED BY <1>2, <1>4, <3>1, <3>2
  <2> QED BY <2>2, <2>3, <2>4, <2>5 DEF Data
<1>5. CASE /\ ip >= Len(Script(Call)) /\ nth < Len(Calls(op))
           /\ nth' = nth + 1 /\ ip' = 1 /\ got' = w /\ UNCHANGED op
  <2>1. ip = Len(Script(Call)) /\ Idle' = Idle
    BY <1>2, <1>5 DEF Idle
  <2>2. cmderr = "none" /\ ~Busy /\ ~Busy'
    BY <2>1
  <2>3. /\ w \in Seq(Word) /\ Len(w) = IF Reads(op) THEN nth ELSE 0
        /\ \A i \in 1 .. nth : Reachable(Calls(op)[i]) /\ CallDone(Calls(op)[i], w[i])
    BY <2>1, <2>2, CallsMade
  <2>4. Current' /\ Settled'
    <3>1. (Types /\ (Idle \/ ip = 1) => Current /\ Settled)'
      BY NothingYet, PTL
    <3> QED BY <1>5, <3>1
  <2>6. Values' /\ Answered'
    <3>1. (nth + 1) - 1 = nth
      BY <1>2
    <3>2. Reads(op)' = Reads(op)
      BY <1>5 DEF Reads
    <3> QED BY <1>1, <1>5, <2>1, <2>3, <3>1, <3>2 DEF Values, Answered
  <2>7. nth' - 1 = nth
    BY <1>2, <1>5
  <2>8. Reached'
    BY <1>5, <2>3, <2>7 DEF Reached, Reachable
  <2>9. Behind'
    <3>1. \A i \in 1 .. nth : CallDone(Calls(op)[i], got[i])' = CallDone(Calls(op)[i], w[i])
      BY <1>5 DEF CallDone, WordAt
    <3> QED BY <2>2, <2>3, <2>7, <3>1 DEF Behind
  <2>10. Requested'
    BY <1>5, <2>1 DEF Data, Requested
  <2> QED BY <2>4, <2>6, <2>8, <2>9, <2>10 DEF Data
<1>6. CASE Idle' /\ got' = <<>>
  <2>1. Current' /\ Settled'
    BY <1>6, NothingYet, PTL
  <2>2. Values' /\ Answered'
    BY <1>1, <1>6 DEF Values, Answered
  <2>3. Reached' /\ Behind' /\ Requested'
    BY <1>6 DEF Reached, Behind, Requested
  <2> QED BY <2>1, <2>2, <2>3 DEF Data
<1>7. \/ ip < Len(Script(Call)) /\ ip' = ip + 1 /\ got' = w /\ UNCHANGED <<op, nth>>
      \/ /\ ip >= Len(Script(Call)) /\ nth < Len(Calls(op))
         /\ nth' = nth + 1 /\ ip' = 1 /\ got' = w /\ UNCHANGED op
      \/ op' = NoOp /\ got' = <<>>
  BY <1>2 DEF Advance, Call
<1>8. op' = NoOp => Idle'
  BY DEF Idle, NoOp
<1> QED BY <1>4, <1>5, <1>6, <1>7, <1>8

\* The tool gives up.
LEMMA DataGivesUp ==
  ASSUME Types', Data, NEW s, Return(s), UNCHANGED <<mem, regs, kept>>, data0' \in Word, Program'
  PROVE  Data'
<1>1. Idle' /\ got' = <<>>
  BY Returns DEF Return
<1>2. Current' /\ Settled'
  BY <1>1, NothingYet, PTL
<1>3. Values' /\ Answered' /\ Reached' /\ Behind' /\ Requested'
  BY <1>1 DEF Data, Values, Answered, Reached, Behind, Requested
<1> QED BY <1>2, <1>3 DEF Data

---------------------------------------------------------------------------
(* The tool's steps and the data *)

\* Where a read is.
LEMMA ReadAt ==
  Types /\ ~Idle /\ At.access = "read" =>
    (InMem(Call) => ip = 12) /\ (~InMem(Call) => ip = 3 /\ Call.call = "get")
<1> SUFFICES ASSUME Types, ~Idle, At.access = "read"
             PROVE  (InMem(Call) => ip = 12) /\ (~InMem(Call) => ip = 3 /\ Call.call = "get")
  OBVIOUS
<1>1. ip = Len(Script(Call))
  BY Reading
<1>2. CASE InMem(Call)
  <2>1. Len(Script(Call)) = 9 => At.access = "wait"
    BY <1>1, <1>2, AtIs, Kinds
  <2> QED BY <1>1, <1>2, <2>1, AtIs
<1>3. CASE ~InMem(Call)
  <2>1. Call.call = "set" => At.access = "wait"
    BY <1>1, <1>3, AtIs, Kinds
  <2> QED BY <1>1, <1>3, <2>1, AtIs
<1> QED BY <1>2, <1>3

\* A write that took effect leaves what the next access counts on.
LEMMA WriteCurrent ==
  ASSUME DmInv, Types', Data, ~Idle, At.access \in {"write", "command"}, DmiWrite(At),
         Call' = Call, ip' = ip + 1, UNCHANGED <<mem, regs>>
  PROVE  Current' /\ Settled'
<1>0. Types
  BY DEF DmInv
<1>1. Settled'
  <2>1. ASSUME InMem(Call) PROVE ip' # 12
    <3>1. ip \in {1, 2, 3, 4, 5, 7, 8, 10}
      BY <1>0, <2>1, Writing
    <3> QED BY <3>1
  <2>2. ASSUME ~InMem(Call) PROVE Call.call = "get" => ip' = 2
    BY <1>0, <2>2, Writing
  <2>3. (Types /\ ~Idle /\ At.access = "read" =>
           (InMem(Call) => ip = 12) /\ (~InMem(Call) => ip = 3 /\ Call.call = "get"))'
    BY ReadAt, PTL
  <2> QED BY <2>1, <2>2, <2>3 DEF Settled
<1> SUFFICES ASSUME cmderr' = "none"
             PROVE  /\ InMem(Call) => MemCurrent(Call)'
                    /\ ~InMem(Call) => RegCurrent(Call)'
  BY <1>1 DEF Current
<1>2. ~Busy /\ cmderr = "none"
  <2>1. ~Busy
    BY DmiBusy
  <2>2. cmderr' = cmderr
    BY <2>1, DmiSet, DmiCommand
  <2> QED BY <2>1, <2>2
<1>3. ASSUME At.access = "command"
      PROVE  running' = At.cmd /\ Busy' /\ UNCHANGED <<data0, progbuf>>
  <2>1. At.cmd # NoCommand
    BY <1>0, <1>3, CommandAt
  <2> QED BY <1>2, <1>3, <2>1, DmiCommand DEF Busy
<1>4. ASSUME InMem(Call) PROVE MemCurrent(Call)'
  <2>1. ip \in {1, 2, 3, 4, 5, 7, 8, 10} /\ (ip \in {5, 8, 10} => At.access = "command")
    <3>1. ip \in {1, 2, 3, 4, 5, 7, 8, 10}
      BY <1>0, <1>4, Writing
    <3>2. At.access = "write" => ip \in {1, 2, 3, 4, 7}
      BY <1>0, <1>4, Writing
    <3>3. ip \in {5, 8, 10} => ip \notin {1, 2, 3, 4, 7}
      OBVIOUS
    <3> QED BY <3>1, <3>2, <3>3
  <2>2. InMemProgress(Call) /\ MemCurrent(Call)
    BY <1>2, <1>4 DEF DmInv, Progress, Data, Current
  <2>3. CASE ip \in {1, 2, 3, 4, 5, 7}
    <3>1. ip' < 9
      BY <2>3
    <3> QED BY <2>3, <3>1 DEF MemCurrent
  <2>4. CASE ip = 8
    <3>1. Busy' /\ data0' = ValueOf(Call)
      BY <1>3, <2>1, <2>2, <2>4 DEF InMemProgress
    <3> QED BY <2>4, <3>1 DEF MemCurrent, ValueOf
  <2>5. CASE ip = 10
    <3>1. Busy' /\ running' = Fetch("x8")
      BY <1>0, <1>3, <1>4, <2>1, <2>5, CommandAt
    <3>2. Call.call = "load" => Reachable(Call) /\ regs["x8"] = WordAt(Call.addr, Call.size)
      BY <2>2, <2>5 DEF MemCurrent
    <3>3. WordAt(Call.addr, Call.size)' = WordAt(Call.addr, Call.size) /\ Reachable(Call)' = Reachable(Call)
      BY DEF WordAt, Reachable
    <3> QED BY <2>5, <3>1, <3>2, <3>3 DEF MemCurrent
  <2> QED BY <2>1, <2>3, <2>4, <2>5
<1>5. ASSUME ~InMem(Call) PROVE RegCurrent(Call)'
  <2>1. CASE At.access = "write"
    <3>1. Call.call = "set" /\ ip = 1
      BY <1>0, <1>5, <2>1, Writing, AtIs
    <3> QED BY <3>1 DEF RegCurrent
  <2>2. CASE At.access = "command"
    <3>1. Call.call \in {"set", "get"}
      BY <1>0, <1>5, AtIs
    <3>2. /\ Call.call = "set" => ip = 2 /\ running' = Assign(Call.reg)
          /\ Call.call = "get" => ip = 1 /\ running' = Fetch(Call.reg)
      BY <1>0, <1>3, <1>5, <2>2, CommandAt
    <3>3. Call.call = "set" => data0' = Call.val
      BY <1>2, <1>3, <1>5, <2>2, <3>2 DEF DmInv, Progress, RegProgress
    <3> QED BY <1>3, <2>2, <3>1, <3>2, <3>3 DEF RegCurrent
  <2> QED BY <2>1, <2>2
<1> QED BY <1>4, <1>5

\* A write keeps the invariant.
LEMMA WriteData == ASSUME DmInv, Data, wl_linke_dmi_write, UNCHANGED req PROVE Data'
<1>1. /\ ~Idle /\ At.access \in {"write", "command"} /\ UNCHANGED <<mem, regs>>
      /\ \/ DmiWrite(At) /\ Advance(got) /\ UNCHANGED kept
         \/ DmiWrite(At) /\ Return("usb") /\ UNCHANGED kept
         \/ UNCHANGED <<data0, progbuf>> /\ Return("usb") /\ UNCHANGED kept
  BY DEF wl_linke_dmi_write, InOp, target, counts, module, Fault
<1>2. Types /\ Types' /\ Values /\ Reached
  BY WriteKeeps DEF DmInv, Data
<1>3. DmiWrite(At) => data0' \in Word /\ Program'
  BY <1>1, <1>2, DmiValues
<1>4. CASE DmiWrite(At) /\ Advance(got) /\ UNCHANGED kept
  <2>1. ip # Len(Script(Call)) /\ At.access # "read"
    BY <1>1, <1>2, WriteIsNotLast
  <2>2. cmderr' = "none" => cmderr = "none"
    BY <1>1, <1>4, DmiKeeps, DmiBusy, DmiSet, DmiCommand
  <2>3. Call' = Call /\ ip' = ip + 1 => Current' /\ Settled'
    BY <1>1, <1>2, <1>4, WriteCurrent
  <2> QED BY <1>1, <1>2, <1>3, <1>4, <2>1, <2>2, <2>3, DataGoesOn
<1>5. CASE DmiWrite(At) /\ Return("usb") /\ UNCHANGED kept
  BY <1>1, <1>2, <1>3, <1>5, DataGivesUp
<1>6. CASE UNCHANGED <<data0, progbuf>> /\ Return("usb") /\ UNCHANGED kept
  <2>1. data0' \in Word /\ Program'
    BY <1>2, <1>6 DEF Values, Program
  <2> QED BY <1>1, <1>2, <1>6, <2>1, DataGivesUp
<1> QED BY <1>1, <1>4, <1>5, <1>6

\* So does a read,
LEMMA ReadData == ASSUME DmInv, Data, wl_linke_dmi_read, UNCHANGED req PROVE Data'
<1>1. /\ ~Idle /\ At.access = "read" /\ UNCHANGED <<mem, regs, data0, progbuf, kept>>
      /\ \/ /\ ~Busy /\ Advance(Append(got, data0)) /\ UNCHANGED <<auto, cmderr>>
            /\ IF auto THEN Start(last) ELSE UNCHANGED running
         \/ Return("usb")
  BY DEF wl_linke_dmi_read, InOp, target, counts, module, Fault
<1>2. Types /\ Types' /\ Settled
  BY ReadKeeps DEF DmInv, Data
<1>3. data0' \in Word /\ Program'
  BY <1>1 DEF Data, Values, Program
<1>4. CASE Return("usb")
  BY <1>1, <1>2, <1>3, <1>4, DataGivesUp
<1>5. CASE /\ ~Busy /\ Advance(Append(got, data0)) /\ UNCHANGED <<auto, cmderr>>
           /\ IF auto THEN Start(last) ELSE UNCHANGED running
  <2>1. ip = Len(Script(Call)) /\ ip # 1 /\ Len(Script(Call)) \in Nat
    <3>1. Len(Script(Call)) \in {3, 9, 12}
      BY <1>1, <1>2, AtIs
    <3> QED BY <1>1, <1>2, <3>1, Reading
  <2>2. ~auto /\ ~Busy'
    <3>1. ~auto
      BY <1>1, <2>1 DEF DmInv, Leftover
    <3> QED BY <1>5, <3>1 DEF Busy
  <2>3. ip' # ip + 1
    BY <1>2, <1>5, <2>1, AtIs, <1>1 DEF Advance, Call
  <2> QED BY <1>1, <1>2, <1>3, <1>5, <2>1, <2>2, <2>3, DataGoesOn DEF Settled
<1> QED BY <1>1, <1>4, <1>5

\* and waiting for the command.
LEMMA WaitData == ASSUME DmInv, Data, dm_wait, UNCHANGED req PROVE Data'
<1>1. /\ ~Idle /\ At.access = "wait" /\ UNCHANGED <<mem, regs, data0, progbuf, kept, running>>
      /\ \/ ~Busy /\ cmderr = "none" /\ Advance(got) /\ UNCHANGED cmderr
         \/ Return("target")
         \/ Return("usb")
  BY DEF dm_wait, InOp, target, counts, module, Fault, ClearError
<1>2. Types /\ Types'
  BY WaitKeeps DEF DmInv
<1>3. data0' \in Word /\ Program'
  BY <1>1 DEF Data, Values, Program
<1>4. CASE Return("target") \/ Return("usb")
  BY <1>1, <1>2, <1>3, <1>4, DataGivesUp
<1>5. CASE ~Busy /\ cmderr = "none" /\ Advance(got) /\ UNCHANGED cmderr
  <2>1. ~Busy'
    BY <1>1, <1>5 DEF Busy
  <2>2. ASSUME Call' = Call, ip' = ip + 1 PROVE Current' /\ Settled'
    <3>1. Settled'
      BY <1>5, <2>1 DEF Settled
    <3>2. CASE InMem(Call)
      <4>1. MemCurrent(Call) /\ ip \in {6, 9, 11}
        BY <1>1, <1>2, <1>5, <3>2, Waiting DEF Data, Current
      <4>2. WordAt(Call.addr, Call.size)' = WordAt(Call.addr, Call.size) /\ Reachable(Call)' = Reachable(Call)
        BY <1>1, <2>2 DEF WordAt, Reachable
      <4>3. MemCurrent(Call)'
        BY <1>1, <1>5, <2>1, <2>2, <4>1, <4>2 DEF MemCurrent
      <4> QED BY <2>2, <3>1, <3>2, <4>3 DEF Current
    <3>3. CASE ~InMem(Call)
      <4>1. Call.call \in {"set", "get"} /\ RegCurrent(Call)
        BY <1>1, <1>2, <1>5, <3>3, AtIs DEF Data, Current
      <4>2. RegCurrent(Call)'
        BY <1>1, <1>2, <1>5, <2>1, <2>2, <4>1, Waiting DEF RegCurrent
      <4> QED BY <2>2, <3>1, <3>3, <4>2 DEF Current
    <3> QED BY <3>2, <3>3
  <2> QED BY <1>1, <1>2, <1>3, <1>5, <2>1, <2>2, DataGoesOn
<1> QED BY <1>1, <1>4, <1>5

---------------------------------------------------------------------------
(* The module's steps and the data *)

\* A command that completes leaves words, bytes and a program.
LEMMA ExecuteValues ==
  ASSUME DmInv, Values, Execute
  PROVE  /\ mem' \in [Addr -> Byte] /\ regs' \in [Regs -> Word] /\ data0' \in Word /\ Program'
         /\ Values'
<1>1. /\ mem \in [Addr -> Byte] /\ regs \in [Regs -> Word] /\ data0 \in Word /\ Program
      /\ running \in Command
  BY DEF Values, DmInv, Types, Execute, Busy
<1>2. Program' /\ UNCHANGED <<got, kept, op>>
  BY <1>1 DEF Execute, Program, tool, counts
<1>3. mem' \in [Addr -> Byte] /\ regs' \in [Regs -> Word] /\ data0' \in Word
  <2>1. CASE ~halted
    BY <1>1, <2>1 DEF Execute
  <2>2. CASE halted /\ ~running.postexec
    <3>1. running.reg \in Regs /\ running.write \in BOOLEAN
      BY <1>1 DEF Command
    <3>2. /\ mem' = mem /\ data0' = IF running.write THEN data0 ELSE regs[running.reg]
          /\ regs' = IF running.write THEN [regs EXCEPT ![running.reg] = data0] ELSE regs
      BY <2>2, Completes
    <3> QED BY <1>1, <3>1, <3>2
  <2>3. CASE halted /\ running.postexec
    <3>1. running = RunProgram
      BY <2>3 DEF DmInv, Harmless, Execute
    <3>2. data0' = data0
      BY <2>3, <3>1, Completes DEF RunProgram
    <3>3. PICK i \in {"store", "load"}, n \in Sizes : progbuf = <<Insn(i, n), Ebreak>>
      BY <1>1 DEF Program
    <3>4. progbuf[1].size = n /\ n \in Sizes
      BY <3>3 DEF Insn
    <3>5. \/ /\ mem' = mem /\ regs["x9"] \in Addr /\ regs["x9"] % n = 0
             /\ regs' = [regs EXCEPT !["x8"] = WordAt(regs["x9"], n)]
          \/ mem' = mem /\ regs' = [regs EXCEPT !["x8"] = data0]
          \/ /\ regs["x9"] \in Addr /\ regs["x9"] % n = 0
             /\ regs' = [regs EXCEPT !["x8"] = data0]
             /\ mem' = StoredAt(regs["x9"], n, data0)
      BY <2>3, <3>4, Completes
    <3>6. CASE /\ mem' = mem /\ regs["x9"] \in Addr /\ regs["x9"] % n = 0
               /\ regs' = [regs EXCEPT !["x8"] = WordAt(regs["x9"], n)]
      <4>1. WordAt(regs["x9"], n) \in Word
        BY <1>1, <3>6, WordAtIs
      <4> QED BY <1>1, <3>2, <3>6, <4>1
    <3>7. CASE mem' = mem /\ regs' = [regs EXCEPT !["x8"] = data0]
      BY <1>1, <3>2, <3>7
    <3>8. CASE /\ regs["x9"] \in Addr /\ regs["x9"] % n = 0
               /\ regs' = [regs EXCEPT !["x8"] = data0]
               /\ mem' = StoredAt(regs["x9"], n, data0)
      <4>1. StoredAt(regs["x9"], n, data0) \in [Addr -> Byte]
        BY <1>1, <3>8, StoredAtIs
      <4> QED BY <1>1, <3>2, <3>8, <4>1
    <3> QED BY <3>5, <3>6, <3>7, <3>8
  <2> QED BY <2>1, <2>2, <2>3
<1> QED BY <1>2, <1>3 DEF Values, Idle

\* The command of a memory access that completes without an error.
LEMMA ExecuteMem ==
  ASSUME DmInv, Data, Execute, ~Idle, ip # 1, InMem(Call), cmderr' = "none"
  PROVE  /\ MemCurrent(Call)'
         /\ \A i \in 1 .. nth - 1 : CallDone(Calls(op)[i], got[i])'
<1>1. /\ Types /\ Values /\ Reached /\ Busy /\ ~Busy' /\ halted /\ cmderr = "none"
      /\ UNCHANGED <<op, nth, ip, got>>
  BY DEF DmInv, Data, Execute, Latch, Busy, tool
<1>2. /\ TypedCall(Call) /\ Kindred(Call, op) /\ Following(Calls(op))
      /\ \A i \in 1 .. nth - 1 : TypedCall(Calls(op)[i]) /\ Kindred(Calls(op)[i], op)
  BY <1>1, CallIs
<1>3. Call' = Call /\ nth \in Nat \ {0} /\ nth <= Len(Calls(op)) /\ Len(Calls(op)) \in Nat
  BY <1>1, AtIs DEF Call
<1>4. /\ mem \in [Addr -> Byte] /\ regs \in [Regs -> Word] /\ data0 \in Word
      /\ "x8" \in Regs /\ "x9" \in Regs /\ Addr \subseteq Nat
  BY <1>1, Sized DEF Values, Addr
<1>5. \A i \in 1 .. nth - 1 : /\ Calls(op)[i].call = Call.call /\ Reachable(Calls(op)[i])
                              /\ Calls(op)[i].addr \in Addr /\ Calls(op)[i].size \in Sizes
                              /\ Calls(op)[i].addr % Calls(op)[i].size = 0
                              /\ CallDone(Calls(op)[i], got[i])
  <2> SUFFICES ASSUME NEW i \in 1 .. nth - 1
               PROVE  /\ Calls(op)[i].call = Call.call /\ Reachable(Calls(op)[i])
                      /\ Calls(op)[i].addr \in Addr /\ Calls(op)[i].size \in Sizes
                      /\ Calls(op)[i].addr % Calls(op)[i].size = 0
                      /\ CallDone(Calls(op)[i], got[i])
    OBVIOUS
  <2> DEFINE c == Calls(op)[i]
  <2>1. Kindred(c, op) /\ TypedCall(c) /\ Reachable(c) /\ CallDone(c, got[i])
    BY <1>1, <1>2 DEF Reached, Data, Behind
  <2> HIDE DEF c
  <2>2. c.call = Call.call /\ InMem(c)
    BY <1>2, <2>1 DEF Kindred, InMem
  <2>3. c.addr \in Addr /\ c.size \in Sizes /\ c.addr % c.size = 0
    BY <2>1, <2>2 DEF Reachable, TypedCall
  <2> QED BY <2>1, <2>2, <2>3 DEF c
<1>6. ASSUME mem' = mem
      PROVE  /\ \A i \in 1 .. nth - 1 : CallDone(Calls(op)[i], got[i])'
             /\ WordAt(Call.addr, Call.size)' = WordAt(Call.addr, Call.size)
  <2>1. WordAt(Call.addr, Call.size)' = WordAt(Call.addr, Call.size)
    BY <1>3, <1>6 DEF WordAt
  <2>2. ASSUME NEW i \in 1 .. nth - 1 PROVE CallDone(Calls(op)[i], got[i])'
    BY <1>1, <1>5, <1>6 DEF CallDone, WordAt, InMem
  <2> QED BY <2>1, <2>2
<1>7. ip \in {6, 9, 11}
  BY <1>1, Awaited
<1>8. CASE ip = 6
  <2>1. running = SetAddress
    BY <1>1, <1>8, Awaited
  <2>2. mem' = mem
    BY <1>1, <2>1, Completes DEF SetAddress
  <2> QED BY <1>1, <1>6, <1>8, <2>2 DEF MemCurrent
<1>9. CASE ip = 9
  <2>1. /\ progbuf[1] = Insn(Call.call, Call.size) /\ progbuf[2] = Ebreak /\ regs["x9"] = Call.addr
        /\ running = RunProgram
    BY <1>1, <1>9, Awaited DEF DmInv, Progress, InMemProgress
  <2>2. progbuf[1].insn = Call.call /\ progbuf[1].size = Call.size /\ Call.size \in Sizes
    BY <1>2, <2>1 DEF Insn, TypedCall
  <2>3. /\ running.postexec
        /\ ~(cmderr' = Latch("bus") \/ cmderr' = Latch("exception"))
    BY <1>1, <2>1 DEF RunProgram, Latch
  <2>4. \/ /\ mem' = mem /\ Call.call = "load" /\ Call.addr \in Addr /\ Call.addr % Call.size = 0
           /\ regs' = [regs EXCEPT !["x8"] = WordAt(Call.addr, Call.size)]
        \/ /\ Call.call = "store" /\ Call.addr \in Addr /\ Call.addr % Call.size = 0
           /\ mem' = StoredAt(Call.addr, Call.size, data0)
    BY <1>1, <2>1, <2>2, <2>3, Completes
  <2>5. CASE /\ mem' = mem /\ Call.call = "load" /\ Call.addr \in Addr /\ Call.addr % Call.size = 0
             /\ regs' = [regs EXCEPT !["x8"] = WordAt(Call.addr, Call.size)]
    <3>1. regs'["x8"] = WordAt(Call.addr, Call.size)' /\ Reachable(Call)'
      BY <1>3, <1>4, <1>6, <2>5 DEF Reachable
    <3> QED BY <1>1, <1>3, <1>6, <1>9, <2>5, <3>1 DEF MemCurrent
  <2>6. CASE /\ Call.call = "store" /\ Call.addr \in Addr /\ Call.addr % Call.size = 0
             /\ mem' = StoredAt(Call.addr, Call.size, data0)
    <3>1. data0 = Call.val
      BY <1>1, <1>9, <2>6 DEF Data, Current, MemCurrent
    <3>2. /\ \A k \in 0 .. Call.size - 1 : mem'[Call.addr + k] = ByteOf(Call.val, k)
          /\ \A x \in Addr : x < Call.addr \/ x >= Call.addr + Call.size => mem'[x] = mem[x]
      BY <1>4, <2>2, <2>6, <3>1, StoredAtIs
    <3>3. CallDone(Call, 0)' /\ Reachable(Call)'
      BY <1>3, <2>6, <3>2 DEF CallDone, Reachable
    <3>4. ASSUME NEW i \in 1 .. nth - 1 PROVE CallDone(Calls(op)[i], got[i])'
      <4> DEFINE c == Calls(op)[i]
      <4>1. /\ c.call = "store" /\ c.addr \in Addr /\ c.size \in Sizes /\ c.addr % c.size = 0
            /\ \A k \in 0 .. c.size - 1 : mem[c.addr + k] = ByteOf(c.val, k)
        BY <1>5, <2>6 DEF CallDone
      <4>2. c.addr + c.size <= Call.addr
        <5>1. nth \in 2 .. Len(Calls(op))
          BY <1>3
        <5> QED BY <1>2, <2>6, <5>1 DEF Following, Call
      <4>3. c' = c
        BY <1>1
      <4> HIDE DEF c
      <4>4. c.addr + c.size <= NBytes
        BY <4>1, Fits
      <4>5. c.addr \in Nat /\ c.size \in Nat /\ Call.addr \in Nat /\ NBytes \in Nat
        BY <1>4, <2>6, <4>1, Sized
      <4>6. ASSUME NEW k \in 0 .. c.size - 1 PROVE mem'[c.addr + k] = ByteOf(c.val, k)
        <5>1. c.addr + k \in Addr /\ c.addr + k < Call.addr
          BY <4>2, <4>4, <4>5 DEF Addr
        <5> QED BY <3>2, <4>1, <5>1
      <4>7. CallDone(c, got[i])'
        BY <4>1, <4>3, <4>6 DEF CallDone
      <4> QED BY <4>7 DEF c
    <3> QED BY <1>1, <1>3, <1>9, <2>6, <3>3, <3>4 DEF MemCurrent
  <2> QED BY <2>4, <2>5, <2>6
<1>10. CASE ip = 11
  <2>1. running = Fetch("x8")
    BY <1>1, <1>10 DEF Data, Current, MemCurrent
  <2>2. mem' = mem /\ regs' = regs /\ data0' = regs["x8"]
    BY <1>1, <2>1, Completes DEF Fetch
  <2>3. Call.call = "load" => Reachable(Call) /\ regs["x8"] = WordAt(Call.addr, Call.size)
    BY <1>1, <1>10 DEF Data, Current, MemCurrent
  <2>4. Reachable(Call)' = Reachable(Call)
    BY <1>3 DEF Reachable
  <2> QED BY <1>1, <1>3, <1>6, <1>10, <2>2, <2>3, <2>4 DEF MemCurrent
<1> QED BY <1>7, <1>8, <1>9, <1>10

\* And of a register access.
LEMMA ExecuteReg ==
  ASSUME DmInv, Data, Execute, ~Idle, ip # 1, ~InMem(Call), cmderr' = "none"
  PROVE  /\ RegCurrent(Call)'
         /\ \A i \in 1 .. nth - 1 : CallDone(Calls(op)[i], got[i])'
<1>1. /\ Types /\ Values /\ Reached /\ Busy /\ ~Busy' /\ halted /\ cmderr = "none"
      /\ UNCHANGED <<op, nth, ip, got>>
  BY DEF DmInv, Data, Execute, Latch, Busy, tool
<1>2. /\ Kindred(Call, op) /\ Following(Calls(op))
      /\ \A i \in 1 .. nth - 1 : Kindred(Calls(op)[i], op)
  BY <1>1, CallIs
<1>3. /\ Call' = Call /\ nth \in Nat \ {0} /\ nth <= Len(Calls(op)) /\ Len(Calls(op)) \in Nat
      /\ Call.call \in {"set", "get"} /\ Call.reg \in Regs /\ ip \in 1 .. 3
  BY <1>1, AtIs DEF Call
<1>4. RegCurrent(Call) /\ DOMAIN regs = Regs
  BY <1>1 DEF Data, Current, Types
<1>5. CASE Call.call = "set"
  <2>1. ip = 3
    BY <1>1, <1>3, <1>5, Awaited
  <2>2. running = Assign(Call.reg) /\ data0 = Call.val
    BY <1>1, <1>4, <1>5, <2>1 DEF RegCurrent
  <2>3. regs' = [regs EXCEPT ![Call.reg] = Call.val]
    BY <1>1, <2>2, Completes DEF Assign
  <2>4. nth = 1
    <3>1. nth \notin 2 .. Len(Calls(op))
      BY <1>2, <1>5 DEF Following, Call
    <3> QED BY <1>3, <3>1
  <2> QED BY <1>1, <1>3, <1>4, <1>5, <2>1, <2>3, <2>4 DEF RegCurrent
<1>6. CASE Call.call = "get"
  <2>1. ip = 2
    BY <1>1, <1>3, <1>6, Awaited
  <2>2. running = Fetch(Call.reg)
    BY <1>1, <1>4, <1>6, <2>1 DEF RegCurrent
  <2>3. mem' = mem /\ regs' = regs /\ data0' = regs[Call.reg]
    BY <1>1, <2>2, Completes DEF Fetch
  <2>4. ASSUME NEW i \in 1 .. nth - 1 PROVE CallDone(Calls(op)[i], got[i])'
    <3>1. CallDone(Calls(op)[i], got[i])
      BY <1>1 DEF Data, Behind
    <3> QED BY <1>1, <2>3, <3>1 DEF CallDone, WordAt
  <2> QED BY <1>1, <1>3, <1>6, <2>1, <2>3, <2>4 DEF RegCurrent
<1> QED BY <1>3, <1>5, <1>6

\* And so does a command that completes.
LEMMA ExecuteData == ASSUME DmInv, Data, Execute, UNCHANGED req PROVE Data'
<1>1. /\ Values' /\ Busy /\ ~Busy' /\ UNCHANGED <<op, nth, ip, got>>
  BY ExecuteValues DEF Data, Execute, Busy, tool
<1>2. Call' = Call /\ At' = At /\ Idle' = Idle /\ Types
  BY <1>1 DEF Call, At, Idle, DmInv
<1>3. Answered' /\ Reached' /\ Requested' /\ Settled'
  BY <1>1, <1>2 DEF Data, Answered, Reached, Requested, Settled, Reachable
<1>4. ASSUME ~Idle, cmderr' = "none"
      PROVE  /\ \A i \in 1 .. nth - 1 : CallDone(Calls(op)[i], got[i])'
             /\ InMem(Call) => MemCurrent(Call)'
             /\ ~InMem(Call) => RegCurrent(Call)'
  <2>1. CASE ip # 1
    BY <1>4, <2>1, ExecuteMem, ExecuteReg
  <2>2. CASE ip = 1
    <3>1. cmderr = "none" /\ nth \in Nat
      BY <1>2, <1>4, AtIs DEF Execute, Latch
    <3>2. nth <= 1
      BY <1>1, <1>4, <2>2, <3>1 DEF Data, Behind
    <3>3. \A i \in 1 .. nth - 1 : FALSE
      BY <3>1, <3>2
    <3> QED BY <1>1, <2>2, <3>3 DEF MemCurrent, RegCurrent
  <2> QED BY <2>1, <2>2
<1>5. Behind' /\ Current'
  BY <1>1, <1>2, <1>4 DEF Behind, Current
<1> QED BY <1>1, <1>3, <1>5 DEF Data

---------------------------------------------------------------------------
(* The invariant of the data, and the types *)

\* A script is a sequence.
LEMMA ScriptIs == ASSUME NEW c, ProperCall(c) PROVE DOMAIN Script(c) = 1 .. Len(Script(c))
<1>1. CASE c.call = "store"
  <2>1. Script(c) = dm_run(Insn("store", c.size), c.addr, c.val)
    BY <1>1 DEF Script
  <2> QED BY <2>1 DEF dm_run, dm_load_program, dm_command_in
<1>2. CASE c.call = "load"
  <2>1. Script(c) = dm_run(Insn("load", c.size), c.addr, 0) \o dm_command_out("x8")
    BY <1>2 DEF Script
  <2> QED BY <2>1 DEF dm_run, dm_load_program, dm_command_in, dm_command_out
<1>3. CASE c.call = "set"
  <2>1. Script(c) = dm_command_in(c.reg, FALSE, c.val)
    BY <1>3 DEF Script
  <2> QED BY <2>1 DEF dm_command_in
<1>4. CASE c.call = "get"
  <2>1. Script(c) = dm_command_out(c.reg)
    BY <1>4 DEF Script
  <2> QED BY <2>1 DEF dm_command_out
<1> QED BY <1>1, <1>2, <1>3, <1>4 DEF ProperCall, InMem

\* An operation that begins has nothing behind it.
LEMMA BeginData ==
  ASSUME DmInv, Data, NEW o, IsOp(o), Begin(o),
         req' = NoRequest \/ (req' \in RequestSet /\ o = OpOf(req'))
  PROVE  Data'
<1>1. /\ op' = o /\ nth' = 1 /\ ip' = 1 /\ Idle /\ kept' = regs
      /\ UNCHANGED <<mem, regs, data0, progbuf, got>>
  BY DEF Begin, target, module, DmInv, Types
<1>2. Types'
  BY OpsAreProper, BeginKeeps DEF DmInv
<1>3. Current' /\ Settled'
  <2>1. (Types /\ (Idle \/ ip = 1) => Current /\ Settled)'
    BY NothingYet, PTL
  <2> QED BY <1>1, <1>2, <2>1
<1>4. Values' /\ Answered'
  <2>1. Len(got) = 0
    BY <1>1 DEF Data, Answered
  <2> QED BY <1>1, <2>1 DEF Data, Values, Program, Answered
<1>5. Reached' /\ Behind'
  <2>1. \A i \in 1 .. 1 - 1 : FALSE
    OBVIOUS
  <2> QED BY <1>1, <2>1 DEF Reached, Behind
<1>6. Requested'
  BY <1>1 DEF Requested, NoRequest
<1> QED BY <1>3, <1>4, <1>5, <1>6 DEF Data

\* Nothing between two operations but what the running program does to memory.
LEMMA BetweenData ==
  ASSUME DmInv', Data, Idle, mem' \in [Addr -> Byte], kept' \in [Regs -> Word],
         UNCHANGED <<regs, data0, progbuf, op, got>>
  PROVE  Data'
<1>1. Idle' /\ Types'
  BY DEF Idle, DmInv
<1>2. Current' /\ Settled'
  BY <1>1, NothingYet, PTL
<1>3. Values' /\ Answered' /\ Reached' /\ Behind' /\ Requested'
  BY <1>1 DEF Data, Values, Program, Answered, Reached, Behind, Requested
<1> QED BY <1>2, <1>3 DEF Data

\* The invariant holds at first, every step keeps it, and so it always holds.
LEMMA DataInit == GInit => Data
<1> SUFFICES ASSUME GInit PROVE Data
  OBVIOUS
<1>1. Idle /\ Types
  BY DmInit DEF GInit, Init, Idle, NoOp, DmInv
<1>2. Values
  <2>1. mem \in [Addr -> Byte] /\ regs \in [Regs -> Word] /\ kept \in [Regs -> Word]
    BY DmAssumption DEF GInit, Init
  <2>2. data0 \in Word /\ got \in Seq(Word)
    BY ByteIs, BaseIs DEF GInit, Init
  <2>3. Program
    BY Sized DEF GInit, Init, Program
  <2> QED BY <1>1, <2>1, <2>2, <2>3 DEF Values
<1>3. Answered
  BY <1>1 DEF GInit, Init, Answered
<1> QED BY <1>1, <1>2, <1>3, NothingYet DEF Data, Reached, Behind, Requested

LEMMA DataNext == DmInv /\ Data /\ [GNext]_gvars => Data'
<1> SUFFICES ASSUME DmInv, Data, [GNext]_gvars PROVE Data'
  OBVIOUS
<1>0. DmInv' /\ mem \in [Addr -> Byte] /\ regs \in [Regs -> Word] /\ kept \in [Regs -> Word]
  BY DmNext DEF Data, Values
<1>1. CASE Tool /\ UNCHANGED req
  BY <1>1, WriteData, ReadData, WaitData DEF Tool
<1>2. CASE Execute /\ UNCHANGED req
  BY <1>2, ExecuteData
<1>3. CASE HaltOrResume
  BY <1>0, <1>3, BetweenData DEF HaltOrResume, module, tool, counts
<1>4. CASE ProgramRuns
  <2>1. mem' \in [Addr -> Byte]
    BY <1>4, DmAssumption DEF ProgramRuns
  <2> QED BY <1>0, <1>4, <2>1, BetweenData DEF ProgramRuns, module, tool, counts
<1>5. CASE \E o \in OpSet : Begin(o) /\ req' = NoRequest
  <2>1. PICK o \in OpSet : Begin(o) /\ req' = NoRequest
    BY <1>5
  <2>2. IsOp(o)
    BY OpAssumption
  <2> QED BY <2>1, <2>2, BeginData
<1>6. CASE \E r \in RequestSet : Begin(OpOf(r)) /\ req' = r
  <2>1. PICK r \in RequestSet : Begin(OpOf(r)) /\ req' = r
    BY <1>6
  <2>2. IsOp(OpOf(r)) /\ req' \in RequestSet /\ OpOf(r) = OpOf(req')
    BY <2>1, RequestsAreOps
  <2> DEFINE o == OpOf(r)
  <2>3. Begin(o) /\ IsOp(o) /\ req' \in RequestSet /\ o = OpOf(req')
    BY <2>1, <2>2
  <2> HIDE DEF o
  <2> QED BY <2>3, BeginData
<1>7. CASE \E r \in RequestSet : Refuse(r)
  BY <1>0, <1>7, BetweenData DEF Refuse, target, module
<1>8. CASE UNCHANGED gvars
  <2>1. UNCHANGED <<mem, regs, kept, data0, progbuf, running, cmderr, got, op, nth, ip, req>>
    BY <1>8 DEF gvars, vars, target, module, tool, counts
  <2>2. Call' = Call /\ At' = At /\ Idle' = Idle /\ Busy' = Busy
    BY <2>1 DEF Call, At, Idle, Busy
  <2>3. Values' /\ Answered' /\ Reached' /\ Settled' /\ Requested'
    BY <2>1, <2>2 DEF Data, Values, Program, Answered, Reached, Settled, Requested, Reachable
  <2>4. Behind'
    BY <2>1, <2>2 DEF Data, Behind, CallDone, WordAt
  <2>5. MemCurrent(Call)' = MemCurrent(Call) /\ RegCurrent(Call)' = RegCurrent(Call)
    BY <2>1, <2>2 DEF MemCurrent, RegCurrent, Reachable, CallDone, WordAt
  <2>6. Current'
    BY <2>1, <2>2, <2>5 DEF Data, Current
  <2> QED BY <2>3, <2>4, <2>6 DEF Data
<1> QED BY <1>1, <1>2, <1>3, <1>4, <1>5, <1>6, <1>7, <1>8
        DEF GNext, Environment, gdb_handle_packet

\* The flags, the errors and the bounds.
LEMMA FlagsNext == DmInv /\ Flags /\ [GNext]_gvars => Flags'
<1> SUFFICES ASSUME DmInv, Flags, [GNext]_gvars PROVE Flags'
  OBVIOUS
<1> USE DEF Flags
<1>0. Types /\ DmInv'
  BY DmNext DEF DmInv
<1>1. MaxFaults \in Nat /\ MaxHangs \in Nat /\ MaxOps \in Nat
  BY DmAssumption
<1>2. \A e : e \in {"busy", "exception", "halt", "bus", "none"} =>
        Latch(e) \in {"none", "busy", "exception", "halt", "bus"}
  BY DEF Latch
<1>3. Fault => /\ faults' \in 0 .. MaxFaults /\ UNCHANGED <<hangs, nops>>
  BY <1>1 DEF Fault
<1>4. \A s \in {"usb", "target"} : Return(s) => result'.status \in {"none", "ok", "usb", "target", "usage"}
  BY Returns
<1>5. \A w : Advance(w) => result'.status \in {"none", "ok", "usb", "target", "usage"}
  BY DEF Advance
<1>6. CASE wl_linke_dmi_write
  <2>1. ~Idle /\ At.access \in {"write", "command"} /\ halted' = halted
    BY <1>6 DEF wl_linke_dmi_write, InOp, target
  <2>2. DmiWrite(At) =>
          /\ auto' \in BOOLEAN /\ last' \in Command \cup {NoCommand}
          /\ cmderr' \in {"none", "busy", "exception", "halt", "bus"}
    <3> SUFFICES ASSUME DmiWrite(At)
                 PROVE  /\ auto' \in BOOLEAN /\ last' \in Command \cup {NoCommand}
                        /\ cmderr' \in {"none", "busy", "exception", "halt", "bus"}
      OBVIOUS
    <3>1. CASE Busy
      BY <1>2, <3>1 DEF DmiWrite
    <3>2. CASE ~Busy
      <4>1. auto' \in BOOLEAN
        BY <1>0, <2>1, <3>2, Writing DEF DmiWrite
      <4>2. last' \in Command \cup {NoCommand}
        BY <1>0, <2>1, <3>2, CommandAt DEF DmiWrite
      <4>3. cmderr' = cmderr
        BY <3>2 DEF DmiWrite
      <4> QED BY <4>1, <4>2, <4>3
    <3> QED BY <3>1, <3>2
  <2> QED BY <1>3, <1>4, <1>5, <1>6, <2>1, <2>2 DEF wl_linke_dmi_write, module, counts
<1>7. CASE wl_linke_dmi_read
  BY <1>3, <1>4, <1>5, <1>7 DEF wl_linke_dmi_read, target, module, counts
<1>8. CASE dm_wait
  BY <1>1, <1>3, <1>4, <1>5, <1>8 DEF dm_wait, target, module, counts, ClearError
<1>9. CASE Execute
  <2>1. UNCHANGED <<halted, auto, last, result, faults, hangs, nops>>
    BY <1>9 DEF Execute, tool, counts
  <2>2. CASE ~halted
    BY <1>2, <1>9, <2>1, <2>2 DEF Execute
  <2>3. CASE halted
    BY <1>2, <1>9, <2>1, <2>3, Completes
  <2> QED BY <2>1, <2>2, <2>3
<1>10. CASE HaltOrResume \/ ProgramRuns
  BY <1>10 DEF HaltOrResume, ProgramRuns, module, tool, counts
<1>11. CASE \E o : Begin(o)
  BY <1>1, <1>11 DEF Begin, target, module
<1>12. CASE \E r \in RequestSet : Refuse(r)
  BY <1>1, <1>12 DEF Refuse, target, module
<1>13. CASE UNCHANGED gvars
  BY <1>13 DEF gvars, vars, target, module, tool, counts
<1> QED BY <1>6, <1>7, <1>8, <1>9, <1>10, <1>11, <1>12, <1>13
        DEF GNext, Tool, Environment, gdb_handle_packet

\* The invariant.
LEMMA DataInvariant == GSpec => [](DmInv /\ Data /\ Flags)
<1>1. GInit => DmInv /\ Data /\ Flags
  <2>1. GInit => Flags
    <3> SUFFICES ASSUME GInit PROVE Flags
      OBVIOUS
    <3>1. [reg |-> "x8", write |-> TRUE, postexec |-> TRUE] \in Command
      BY Sized DEF Command
    <3>2. last \in Command \cup {NoCommand} /\ auto \in BOOLEAN
      BY <3>1 DEF GInit, Init
    <3>3. faults \in 0 .. MaxFaults /\ hangs \in 0 .. MaxHangs /\ nops \in 0 .. MaxOps
      BY DmAssumption DEF GInit, Init
    <3>4. halted \in BOOLEAN /\ cmderr = "none" /\ result.status = "none"
      BY DEF GInit, Init
    <3> QED BY <3>2, <3>3, <3>4 DEF Flags
  <2> QED BY <2>1, DmInit, DataInit
<1>2. DmInv /\ Data /\ Flags /\ [GNext]_gvars => (DmInv /\ Data /\ Flags)'
  BY DmNext, DataNext, FlagsNext
<1> QED BY <1>1, <1>2, PTL DEF GSpec

\* Theorem: TypeOK is an invariant: memory, registers and the debug module hold
\* bytes and words, what dm.c loads into PROGBUF is one of its programs with an
\* ebreak behind it, and an operation that runs is somewhere in the script of one of the
\* calls it makes.
THEOREM TypeCorrect == GSpec => []TypeOK
<1>1. DmInv /\ Data /\ Flags => TypeOK
  <2> SUFFICES ASSUME DmInv, Data, Flags PROVE TypeOK
    OBVIOUS
  <2>1. progbuf[1].insn \in {"store", "load"} /\ progbuf[2] = Ebreak
    <3>1. PICK i \in {"store", "load"}, n \in Sizes : progbuf = <<Insn(i, n), Ebreak>>
      BY DEF Data, Values, Program
    <3> QED BY <3>1 DEF Insn
  <2>2. ASSUME ~Idle
        PROVE  IsOp(op) /\ nth \in DOMAIN Calls(op) /\ ip \in DOMAIN Script(Calls(op)[nth])
    <3>1. IsOp(op) /\ nth \in 1 .. Len(Calls(op)) /\ ip \in 1 .. Len(Script(Call))
      BY <2>2 DEF Data, Values, DmInv, Types
    <3>2. DOMAIN Calls(op) = 1 .. Len(Calls(op))
      BY <3>1, CallsOf
    <3>3. DOMAIN Script(Call) = 1 .. Len(Script(Call))
      BY <2>2, AtIs, ScriptIs DEF DmInv
    <3> QED BY <3>1, <3>2, <3>3 DEF Call
  <2>3. Len(got) <= nth
    <3>1. Idle => nth = 1
      BY DEF DmInv, Types
    <3>2. ~Idle => nth \in Nat \ {0}
      BY AtIs DEF DmInv
    <3> QED BY <3>1, <3>2 DEF Data, Answered
  <2> QED BY <2>1, <2>2, <2>3 DEF TypeOK, Data, Values, Flags, DmInv, Types
<1> QED BY <1>1, DataInvariant, PTL

---------------------------------------------------------------------------
(* What an operation that returns WL_OK has done *)

\* All the calls of an operation have been made, and words are what they read.
AllDone(o, words) ==
  /\ words \in Seq(Word) /\ Len(words) = IF Reads(o) THEN Len(Calls(o)) ELSE 0
  /\ \A i \in 1 .. Len(Calls(o)) : Reachable(Calls(o)[i]) /\ CallDone(Calls(o)[i], words[i])

\* A block whose calls have all been made is in the buffer.
LEMMA BlockDone ==
  ASSUME mem \in [Addr -> Byte], NEW o, IsOp(o), o.kind = "block", NEW words, AllDone(o, words)
  PROVE  InMemory(o.addr, o.len) /\ Slice(o.addr, o.len) = Filled(o.addr, o.len, words)
<1> DEFINE a == o.addr
           n == o.len
           s == wl_dm_read_block(a, n)
           h == HeadOf(a, n)
           w == WordsOf(a, n)
           t == TailAt(a, n)
<1>1. a \in Nat /\ n \in Nat \ {0} /\ Calls(o) = s
  BY ByteIs DEF IsOp, Calls
<1> HIDE DEF a, n
<1>2. /\ h \in Nat /\ w \in Nat /\ t = h + w * 4 /\ t <= n /\ t \in Nat
      /\ Len(s) = h + w + (n - t)
      /\ \A i \in 1 .. h : s[i] = Load(a + i - 1, 1)
      /\ \A i \in 1 .. w : s[h + i] = Load(a + h + (i - 1) * 4, 4)
      /\ \A i \in 1 .. n - t : s[h + w + i] = Load(a + t + i - 1, 1)
  <2> HIDE DEF s, h, w, t
  <2> USE DEF WordBytes
  <2> QED BY <1>1, BlockIs DEF s, h, w, t
<1> DEFINE Read(i, b, z) == /\ b \in Addr /\ b + z <= NBytes
                            /\ \A k \in 0 .. z - 1 : ByteOf(words[i], k) = mem[b + k]
<1>3. ASSUME NEW i \in 1 .. Len(s), NEW b, NEW z \in Sizes, s[i] = Load(b, z)
      PROVE  Read(i, b, z)
  <2>1. Reachable(Load(b, z)) /\ CallDone(Load(b, z), words[i])
    BY <1>1, <1>3 DEF AllDone
  <2>2. Load(b, z).call = "load" /\ Load(b, z).addr = b /\ Load(b, z).size = z
    BY DEF Load
  <2>3. b \in Addr /\ b % z = 0 /\ words[i] = WordAt(b, z)
    BY <2>1, <2>2 DEF Reachable, CallDone, InMem
  <2>4. b + z <= NBytes
    BY <2>3, Fits
  <2> QED BY <2>3, <2>4, WordAtIs
<1>4. 1 \in Sizes /\ 4 \in Sizes /\ NBytes \in Nat
  BY Sized DEF Sizes, WordBytes
<1> HIDE DEF s, h, w, t, Read
<1>5. /\ \A i \in 1 .. h : Read(i, a + i - 1, 1)
      /\ \A i \in 1 .. w : Read(h + i, a + h + (i - 1) * 4, 4)
      /\ \A i \in 1 .. n - t : Read(h + w + i, a + t + i - 1, 1)
  <2>1. /\ \A i \in 1 .. h : i \in 1 .. Len(s)
        /\ \A i \in 1 .. w : h + i \in 1 .. Len(s)
        /\ \A i \in 1 .. n - t : h + w + i \in 1 .. Len(s)
    BY <1>1, <1>2
  <2> QED BY <1>2, <1>3, <1>4, <2>1
<1>6. a + n <= NBytes
  <2>1. CASE t < n
    <3>1. n - t \in 1 .. n - t /\ a + t + (n - t) - 1 + 1 = a + n
      BY <1>1, <1>2, <2>1
    <3>2. a + t + (n - t) - 1 + 1 <= NBytes
      BY <1>5, <3>1 DEF Read
    <3> QED BY <3>1, <3>2
  <2>2. CASE t = n /\ w > 0
    <3>1. w \in 1 .. w /\ a + h + (w - 1) * 4 + 4 = a + n
      BY <1>1, <1>2, <2>2
    <3>2. a + h + (w - 1) * 4 + 4 <= NBytes
      BY <1>5, <3>1 DEF Read
    <3> QED BY <3>1, <3>2
  <2>3. CASE t = n /\ w = 0
    <3>1. h \in 1 .. h /\ a + h - 1 + 1 = a + n
      BY <1>1, <1>2, <2>3
    <3>2. a + h - 1 + 1 <= NBytes
      BY <1>5, <3>1 DEF Read
    <3> QED BY <3>1, <3>2
  <2> QED BY <1>1, <1>2, <2>1, <2>2, <2>3
<1>7. ASSUME NEW j \in 1 .. n
      PROVE  /\ j <= h => ByteOf(words[j], 0) = mem[a + j - 1]
             /\ h < j /\ j <= t =>
                  ByteOf(words[h + (j - h - 1) \div 4 + 1], (j - h - 1) % 4) = mem[a + j - 1]
             /\ t < j => ByteOf(words[h + w + j - t], 0) = mem[a + j - 1]
  <2>1. ASSUME j <= h PROVE ByteOf(words[j], 0) = mem[a + j - 1]
    <3>1. j \in 1 .. h /\ 0 \in 0 .. 1 - 1 /\ a + j - 1 + 0 = a + j - 1
      BY <1>1, <1>2, <2>1
    <3>2. ByteOf(words[j], 0) = mem[a + j - 1 + 0]
      BY <1>5, <3>1 DEF Read
    <3> QED BY <3>1, <3>2
  <2>2. ASSUME h < j, j <= t
        PROVE  ByteOf(words[h + (j - h - 1) \div 4 + 1], (j - h - 1) % 4) = mem[a + j - 1]
    <3> DEFINE q == (j - h - 1) \div 4
               r == (j - h - 1) % 4
    <3>1. j - h - 1 \in Nat /\ j - h - 1 < w * 4
      BY <1>1, <1>2, <2>2
    <3>2. q \in Nat /\ r \in 0 .. 4 - 1 /\ j - h - 1 = q * 4 + r
      <4>1. \A v \in Nat : v \div 4 \in Nat /\ v % 4 \in 0 .. 4 - 1 /\ v = (v \div 4) * 4 + (v % 4)
        OBVIOUS
      <4> QED BY <3>1, <4>1, Zenon
    <3> HIDE DEF q, r
    <3>3. q + 1 \in 1 .. w /\ h + (q + 1) = h + q + 1
          /\ a + h + ((q + 1) - 1) * 4 + r = a + j - 1
      BY <1>1, <1>2, <3>1, <3>2
    <3>4. ByteOf(words[h + (q + 1)], r) = mem[a + h + ((q + 1) - 1) * 4 + r]
      BY <1>5, <3>2, <3>3 DEF Read
    <3>5. ByteOf(words[h + q + 1], r) = mem[a + j - 1]
      BY <3>3, <3>4
    <3> QED BY <3>5 DEF q, r
  <2>3. ASSUME t < j PROVE ByteOf(words[h + w + j - t], 0) = mem[a + j - 1]
    <3>1. j - t \in 1 .. n - t /\ 0 \in 0 .. 1 - 1 /\ a + t + (j - t) - 1 + 0 = a + j - 1
          /\ h + w + (j - t) = h + w + j - t
      BY <1>1, <1>2, <2>3
    <3>2. ByteOf(words[h + w + (j - t)], 0) = mem[a + t + (j - t) - 1 + 0]
      BY <1>5, <3>1 DEF Read
    <3> QED BY <3>1, <3>2
  <2> QED BY <2>1, <2>2, <2>3
<1>8. Filled(a, n, words) = Slice(a, n)
  <2> DEFINE F(j) == IF j <= h THEN ByteOf(words[j], 0)
                     ELSE IF j <= t
                     THEN ByteOf(words[h + (j - h - 1) \div 4 + 1], (j - h - 1) % 4)
                     ELSE ByteOf(words[h + w + j - t], 0)
  <2>1. Filled(a, n, words) = [j \in 1 .. n |-> F(j)]
    BY Zenon DEF Filled, h, w, t, WordBytes
  <2>2. ASSUME NEW j \in 1 .. n PROVE F(j) = mem[a + j - 1]
    <3>1. CASE j <= h
      BY <1>7, <3>1
    <3>2. CASE h < j /\ j <= t
      <4>1. ~(j <= h)
        BY <1>1, <1>2, <3>2
      <4> QED BY <1>7, <3>2, <4>1
    <3>3. CASE t < j
      <4>1. ~(j <= h) /\ ~(j <= t)
        BY <1>1, <1>2, <3>3
      <4> QED BY <1>7, <3>3, <4>1
    <3> QED BY <1>1, <1>2, <3>1, <3>2, <3>3
  <2> HIDE DEF F
  <2> QED BY <2>1, <2>2 DEF Slice
<1> QED BY <1>6, <1>8 DEF InMemory, a, n

\* What an operation promises holds when its calls have all been made.
LEMMA AllIsDone ==
  mem \in [Addr -> Byte] /\ IsOp(result.op) /\ AllDone(result.op, result.got)
    => Done(result.op, result.got)
<1> DEFINE o == result.op
           words == result.got
<1> SUFFICES ASSUME mem \in [Addr -> Byte], IsOp(o), AllDone(o, words) PROVE Done(o, words)
  OBVIOUS
<1> HIDE DEF o, words
<1>0. Word \subseteq Nat
  BY ByteIs
<1>a. /\ words \in Seq(Word) /\ Len(words) = IF Reads(o) THEN Len(Calls(o)) ELSE 0
      /\ \A i \in 1 .. Len(Calls(o)) : Reachable(Calls(o)[i]) /\ CallDone(Calls(o)[i], words[i])
  BY DEF AllDone
<1>b. ASSUME NEW c, Calls(o) = <<c>>
      PROVE  /\ Reachable(c) /\ CallDone(c, words[1])
             /\ Reads(o) => Len(words) = 1
  BY <1>a, <1>b
<1>1. CASE o.kind = "write"
  <2> DEFINE c == Store(o.addr, o.size, o.val)
  <2>1. o.addr \in Word /\ o.size \in Sizes /\ o.val \in Word
    BY <1>1 DEF IsOp
  <2>2. c.call = "store" /\ c.addr = o.addr /\ c.size = o.size /\ c.val = o.val
    BY DEF Store
  <2>3. Calls(o) = <<c>>
    BY <1>1 DEF Calls
  <2> HIDE DEF c
  <2>4. /\ o.addr \in Addr /\ o.addr % o.size = 0
        /\ \A k \in 0 .. o.size - 1 : mem[o.addr + k] = ByteOf(o.val, k)
    BY <1>b, <2>2, <2>3 DEF Reachable, CallDone, InMem
  <2>5. o.addr + o.size <= NBytes
    BY <2>1, <2>4, Fits
  <2>6. o.addr \in Nat /\ o.size \in Nat
    BY <1>0, <2>1, Sized
  <2>7. ASSUME NEW j \in 1 .. o.size PROVE mem[o.addr + j - 1] = ByteOf(o.val, j - 1)
    <3>1. j - 1 \in 0 .. o.size - 1 /\ o.addr + (j - 1) = o.addr + j - 1
      BY <2>6
    <3> QED BY <2>4, <3>1
  <2>8. Slice(o.addr, o.size) = [j \in 1 .. o.size |-> ByteOf(o.val, j - 1)]
    BY <2>7 DEF Slice
  <2> QED BY <1>1, <2>5, <2>8 DEF Done, InMemory
<1>2. CASE o.kind = "read"
  <2> DEFINE c == Load(o.addr, o.size)
  <2>1. o.addr \in Word /\ o.size \in Sizes
    BY <1>2 DEF IsOp
  <2>2. c.call = "load" /\ c.addr = o.addr /\ c.size = o.size
    BY DEF Load
  <2>3. Calls(o) = <<c>>
    BY <1>2 DEF Calls
  <2> HIDE DEF c
  <2>4. o.addr \in Addr /\ o.addr % o.size = 0 /\ words[1] = WordAt(o.addr, o.size)
    BY <1>b, <2>2, <2>3 DEF Reachable, CallDone, InMem
  <2>5. o.addr + o.size <= NBytes
    BY <2>1, <2>4, Fits
  <2>6. o.addr \in Nat /\ o.size \in Nat
    BY <1>0, <2>1, Sized
  <2>7. ASSUME NEW j \in 1 .. o.size PROVE mem[o.addr + j - 1] = ByteOf(words[1], j - 1)
    <3>1. j - 1 \in 0 .. o.size - 1 /\ o.addr + (j - 1) = o.addr + j - 1
      BY <2>6
    <3>2. ByteOf(words[1], j - 1) = mem[o.addr + (j - 1)]
      BY <2>1, <2>4, <3>1, WordAtIs
    <3> QED BY <3>1, <3>2
  <2>8. Slice(o.addr, o.size) = [j \in 1 .. o.size |-> ByteOf(words[1], j - 1)]
    BY <2>7 DEF Slice
  <2> QED BY <1>2, <2>5, <2>8 DEF Done, InMemory
<1>3. CASE o.kind = "bytes"
  <2>1. /\ o.addr \in Nat /\ o.bytes \in Seq(Byte) /\ Len(o.bytes) \in Nat \ {0}
        /\ DOMAIN o.bytes = 1 .. Len(o.bytes)
    <3>1. o.addr \in Word /\ o.bytes \in Seq(Byte) /\ o.bytes # <<>>
      BY <1>3 DEF IsOp
    <3>2. \A b \in Seq(Byte) : b # <<>> => Len(b) \in Nat \ {0} /\ DOMAIN b = 1 .. Len(b)
      OBVIOUS
    <3>3. o.addr \in Nat
      BY <1>0, <3>1
    <3> QED BY <3>1, <3>2, <3>3, Zenon
  <2> DEFINE k == Len(o.bytes)
             f == [i \in 1 .. k |-> Store(o.addr + i - 1, 1, o.bytes[i])]
  <2>2. Calls(o) = f
    BY <1>3, <2>1 DEF Calls
  <2>3. Len(f) = k
    <3>1. f \in [1 .. k -> {f[i] : i \in 1 .. k}]
      OBVIOUS
    <3> HIDE DEF f
    <3> QED BY <2>1, <3>1, SeqFcn
  <2>4. \A n \in 1 .. k : /\ f[n].call = "store" /\ f[n].addr = o.addr + n - 1
                          /\ f[n].size = 1 /\ f[n].val = o.bytes[n]
    BY DEF Store
  <2> HIDE DEF f
  <2>5. ASSUME NEW n \in 1 .. k PROVE o.addr + n - 1 \in Addr /\ mem[o.addr + n - 1] = o.bytes[n]
    <3>1. Reachable(f[n]) /\ CallDone(f[n], words[n])
      BY <1>a, <2>2, <2>3
    <3>2. o.addr + n - 1 \in Addr /\ \A i \in 0 .. 1 - 1 : mem[o.addr + n - 1 + i] = ByteOf(o.bytes[n], i)
      BY <2>4, <3>1 DEF Reachable, CallDone, InMem
    <3>3. 0 \in 0 .. 1 - 1 /\ o.addr + n - 1 + 0 = o.addr + n - 1
      BY <2>1
    <3>4. ByteOf(o.bytes[n], 0) = o.bytes[n]
      <4>1. o.bytes[n] \in Byte
        BY <2>1
      <4> QED BY <4>1, ByteIs
    <3> QED BY <3>2, <3>3, <3>4
  <2>6. o.addr + k <= NBytes
    <3>1. k \in 1 .. k
      BY <2>1
    <3>2. o.addr + k - 1 \in Addr
      BY <2>5, <3>1
    <3> QED BY <2>1, <3>2, Sized DEF Addr
  <2>7. Slice(o.addr, k) = o.bytes
    <3>1. o.bytes = [j \in 1 .. k |-> o.bytes[j]]
      BY <2>1
    <3> QED BY <2>5, <3>1 DEF Slice
  <2> QED BY <1>3, <2>6, <2>7 DEF Done, InMemory
<1>4. CASE o.kind = "block"
  BY <1>4, BlockDone DEF Done
<1>5. CASE o.kind = "set"
  <2> DEFINE c == [call |-> "set", reg |-> o.reg, val |-> o.val]
  <2>1. Calls(o) = <<c>>
    BY <1>5 DEF Calls
  <2>2. c.call = "set" /\ c.reg = o.reg /\ c.val = o.val
    OBVIOUS
  <2> HIDE DEF c
  <2>3. regs[o.reg] = o.val
    BY <1>b, <2>1, <2>2 DEF CallDone
  <2> QED BY <1>5, <2>3 DEF Done
<1>6. CASE o.kind = "get"
  <2> DEFINE c == [call |-> "get", reg |-> o.reg]
  <2>1. Calls(o) = <<c>>
    BY <1>6 DEF Calls
  <2>2. c.call = "get" /\ c.reg = o.reg
    OBVIOUS
  <2> HIDE DEF c
  <2>3. words[1] = regs[o.reg] /\ Len(words) = 1
    BY <1>6, <1>b, <2>1, <2>2 DEF CallDone, Reads
  <2>4. words = <<regs[o.reg]>>
    BY <1>a, <2>3
  <2> QED BY <1>6, <2>4 DEF Done
<1>7. CASE o.kind = "all"
  <2> DEFINE k == Len(Registers)
             f == [i \in 1 .. k |-> [call |-> "get", reg |-> Registers[i]]]
  <2>1. k \in Nat /\ DOMAIN Registers = 1 .. k
    BY Sized
  <2>2. Calls(o) = f
    BY <1>7, <2>1 DEF Calls
  <2>3. Len(f) = k
    <3>1. f \in [1 .. k -> {f[i] : i \in 1 .. k}]
      OBVIOUS
    <3> HIDE DEF f
    <3> QED BY <2>1, <3>1, SeqFcn
  <2>4. \A n \in 1 .. k : f[n].call = "get" /\ f[n].reg = Registers[n]
    OBVIOUS
  <2> HIDE DEF f
  <2>5. ASSUME NEW n \in 1 .. k PROVE words[n] = regs[Registers[n]]
    BY <1>a, <2>2, <2>3, <2>4 DEF CallDone
  <2>6. Len(words) = k
    BY <1>7, <1>a, <2>2, <2>3 DEF Reads
  <2>7. words = [i \in 1 .. k |-> regs[Registers[i]]]
    BY <1>a, <2>5, <2>6
  <2> QED BY <1>7, <2>1, <2>7 DEF Done
<1> QED BY <1>1, <1>2, <1>3, <1>4, <1>5, <1>6, <1>7 DEF IsOp

\* An operation that returns WL_OK has made all its calls.
LEMMA Succeeding ==
  ASSUME DmInv, Data, [GNext]_gvars, ~Idle, Idle', result'.status = "ok"
  PROVE  /\ result'.op = op /\ IsOp(op) /\ UNCHANGED req
         /\ AllDone(result.op, result.got)'
<1>1. Types /\ IsOp(op)
  BY DEF DmInv, Data, Values
<1>2. Tool /\ UNCHANGED req
  <2>1. ASSUME UNCHANGED op PROVE FALSE
    BY <2>1 DEF Idle
  <2> QED BY <2>1 DEF GNext, Environment, Execute, HaltOrResume, ProgramRuns, Begin, Refuse,
                      gdb_handle_packet, gvars, vars, tool
<1> DEFINE w == IF At.access = "read" THEN Append(got, data0) ELSE got
<1>3. \A s \in {"usb", "target"} : ~Return(s)
  BY Returns
<1>4. /\ Advance(w) /\ UNCHANGED <<mem, regs>>
      /\ At.access \in {"write", "command"} \/ (At.access = "wait" /\ cmderr = "none" /\ ~Busy)
         \/ At.access = "read"
  <2>1. CASE wl_linke_dmi_write
    BY <1>3, <2>1 DEF wl_linke_dmi_write, target
  <2>2. CASE wl_linke_dmi_read
    BY <1>3, <2>2 DEF wl_linke_dmi_read, target
  <2>3. CASE dm_wait
    BY <1>3, <2>3 DEF dm_wait, target
  <2> QED BY <1>2, <2>1, <2>2, <2>3 DEF Tool
<1>5. /\ nth \in Nat \ {0} /\ nth <= Len(Calls(op)) /\ ip \in 1 .. Len(Script(Call))
      /\ Len(Calls(op)) \in Nat /\ Len(Script(Call)) \in Nat
  <2>1. Len(Script(Call)) \in {3, 9, 12}
    BY <1>1, AtIs
  <2> QED BY <1>1, <2>1, AtIs
<1>6. ip = Len(Script(Call)) /\ nth = Len(Calls(op)) /\ result'.op = op /\ result'.got = w
  <2>1. \/ UNCHANGED op
        \/ /\ ~(ip < Len(Script(Call))) /\ ~(nth < Len(Calls(op)))
           /\ result' = [op |-> op, status |-> "ok", got |-> w]
    <3> HIDE DEF w
    <3> QED BY <1>4 DEF Advance, Call
  <2>2. ~UNCHANGED op
    BY DEF Idle
  <2> HIDE DEF w
  <2>3. ~(ip < Len(Script(Call))) /\ ~(nth < Len(Calls(op)))
    BY <2>1, <2>2
  <2>4. result'.op = op /\ result'.got = w
    BY <2>1, <2>2
  <2> QED BY <1>5, <2>3, <2>4
<1>7. cmderr = "none" /\ ~Busy
  <2>1. At.access \notin {"write", "command"}
    BY <1>1, <1>6, WriteIsNotLast
  <2>2. At.access = "read" => cmderr = "none" /\ ~Busy
    BY DEF Data, Settled
  <2> QED BY <1>4, <2>1, <2>2
<1>8. AllDone(op, w)
  <2>1. /\ w \in Seq(Word) /\ Len(w) = IF Reads(op) THEN nth ELSE 0
        /\ \A i \in 1 .. nth : Reachable(Calls(op)[i]) /\ CallDone(Calls(op)[i], w[i])
    BY <1>1, <1>6, <1>7, CallsMade
  <2> HIDE DEF w
  <2> QED BY <1>6, <2>1 DEF AllDone
<1>9. AllDone(result.op, result.got)'
  <2> HIDE DEF w
  <2>1. \A i \in 1 .. Len(Calls(op)) :
          CallDone(Calls(result.op)[i], result.got[i])' = CallDone(Calls(op)[i], w[i])
    BY <1>4, <1>6 DEF CallDone, WordAt
  <2> QED BY <1>6, <1>8, <2>1 DEF AllDone, Reachable, Reads
<1> QED BY <1>1, <1>2, <1>6, <1>9

\* And what it promised holds.
LEMMA OkDone ==
  ASSUME DmInv, Data, [GNext]_gvars, ~Idle, Idle', result'.status = "ok"
  PROVE  /\ Done(result.op, result.got)' /\ AllDone(result.op, result.got)'
         /\ result'.op = op /\ UNCHANGED req
<1>1. (mem \in [Addr -> Byte])'
  BY DataNext DEF Data, Values
<1>2. /\ result'.op = op /\ IsOp(op) /\ UNCHANGED req
      /\ AllDone(result.op, result.got)'
  BY Succeeding
<1>3. (mem \in [Addr -> Byte] /\ IsOp(result.op) /\ AllDone(result.op, result.got)
         => Done(result.op, result.got))'
  BY AllIsDone, PTL
<1>4. IsOp(result.op)'
  BY <1>2 DEF IsOp
<1> QED BY <1>1, <1>2, <1>3, <1>4

\* Theorem, OkIsTrue: when the functions of dm.c and wl_dm_read_block return WL_OK, memory and
\* registers are what the caller was promised, whatever failed before, whatever
\* abandoned command completed late and however a block is cut into pieces.
THEOREM OkTrue == GSpec => OkIsTrue
<1>1. DmInv /\ Data /\ [GNext]_gvars =>
        [~Idle /\ Idle' /\ result'.status = "ok" => Done(result.op, result.got)']_vars
  BY OkDone
<1> QED BY <1>1, DataInvariant, PTL DEF GSpec, OkIsTrue

\* What the promise says of the operations of requests that are answered with data.
DoneSays(o, words) ==
  /\ o.kind = "get" => words = <<regs[o.reg]>>
  /\ o.kind = "all" => words = [i \in DOMAIN Registers |-> regs[Registers[i]]]
  /\ o.kind = "block" => Slice(o.addr, o.len) = Filled(o.addr, o.len, words)
  /\ o.kind = "bytes" => Slice(o.addr, Len(o.bytes)) = o.bytes

LEMMA DoneIs == Done(result.op, result.got) => DoneSays(result.op, result.got)
<1> DEFINE o == result.op
           words == result.got
<1> SUFFICES ASSUME Done(o, words) PROVE DoneSays(o, words)
  OBVIOUS
<1> HIDE DEF o, words
<1>1. ASSUME o.kind = "get" PROVE words = <<regs[o.reg]>>
  BY <1>1 DEF Done
<1>2. ASSUME o.kind = "all" PROVE words = [i \in DOMAIN Registers |-> regs[Registers[i]]]
  BY <1>2 DEF Done
<1>3. ASSUME o.kind = "block" PROVE Slice(o.addr, o.len) = Filled(o.addr, o.len, words)
  BY <1>3 DEF Done
<1>4. ASSUME o.kind = "bytes" PROVE Slice(o.addr, Len(o.bytes)) = o.bytes
  BY <1>4 DEF Done
<1> QED BY <1>1, <1>2, <1>3, <1>4 DEF DoneSays

\* What the client is told when memory and registers are as an operation promises.
Told(r, words) ==
  /\ r.kind = "p" => \A b \in 1 .. WordBytes : Reply(r, words)[b] = ByteOf(regs[r.reg], b - 1)
  /\ r.kind = "g" =>
       \A i \in DOMAIN Registers, b \in 1 .. WordBytes :
         Reply(r, words)[i][b] = ByteOf(regs[Registers[i]], b - 1)
  /\ r.kind = "m" => Reply(r, words) = Slice(r.addr, r.len)
  /\ r.kind = "M" => Slice(r.addr, Len(r.text)) = r.text

LEMMA AnswerIs == DoneSays(OpOf(req), result.got) => Told(req, result.got)
<1> DEFINE r == req
           words == result.got
<1> SUFFICES ASSUME DoneSays(OpOf(r), words) PROVE Told(r, words)
  OBVIOUS
<1> HIDE DEF r, words
<1>1. ASSUME r.kind = "p"
      PROVE  \A b \in 1 .. WordBytes : Reply(r, words)[b] = ByteOf(regs[r.reg], b - 1)
  <2>1. OpOf(r) = [kind |-> "get", reg |-> r.reg]
    BY <1>1 DEF OpOf, gdb_handle_p
  <2>2. words = <<regs[r.reg]>>
    BY <2>1 DEF DoneSays
  <2>3. Reply(r, words) = format_hex_u32_le(words[1])
    BY <1>1 DEF Reply
  <2> QED BY <2>2, <2>3 DEF format_hex_u32_le
<1>2. ASSUME r.kind = "g"
      PROVE  \A i \in DOMAIN Registers, b \in 1 .. WordBytes :
               Reply(r, words)[i][b] = ByteOf(regs[Registers[i]], b - 1)
  <2>1. OpOf(r).kind = "all"
    BY <1>2 DEF OpOf, gdb_handle_g
  <2>2. words = [i \in DOMAIN Registers |-> regs[Registers[i]]]
    BY <2>1 DEF DoneSays
  <2>3. Reply(r, words) = [i \in DOMAIN words |-> format_hex_u32_le(words[i])]
    BY <1>2 DEF Reply
  <2>4. DOMAIN words = DOMAIN Registers
    BY <2>2
  <2>5. ASSUME NEW i \in DOMAIN Registers, NEW b \in 1 .. WordBytes
        PROVE  Reply(r, words)[i][b] = ByteOf(regs[Registers[i]], b - 1)
    <3>1. Reply(r, words)[i] = format_hex_u32_le(words[i])
      BY <2>3, <2>4
    <3>2. words[i] = regs[Registers[i]]
      BY <2>2
    <3>3. Reply(r, words)[i][b] = format_hex_u32_le(regs[Registers[i]])[b]
      BY <3>1, <3>2
    <3> QED BY <3>3 DEF format_hex_u32_le
  <2> QED BY <2>5
<1>3. ASSUME r.kind = "m" PROVE Reply(r, words) = Slice(r.addr, r.len)
  <2>1. OpOf(r) = [kind |-> "block", addr |-> r.addr, len |-> r.len]
    BY <1>3 DEF OpOf, gdb_handle_m
  <2>2. Slice(r.addr, r.len) = Filled(r.addr, r.len, words)
    BY <2>1 DEF DoneSays
  <2>3. Reply(r, words) = Filled(r.addr, r.len, words)
    BY <1>3 DEF Reply
  <2> QED BY <2>2, <2>3
<1>4. ASSUME r.kind = "M" PROVE Slice(r.addr, Len(r.text)) = r.text
  <2>1. OpOf(r) = [kind |-> "bytes", addr |-> r.addr, bytes |-> r.text]
    BY <1>4 DEF OpOf, gdb_handle_M
  <2> QED BY <2>1 DEF DoneSays
<1> QED BY <1>1, <1>2, <1>3, <1>4 DEF Told

\* Theorem, AnswerIsTrue: what gdb_server.c replies to a p, g or m is what the target holds, in
\* the order of the protocol, and what an M that was acknowledged wrote is in memory.
THEOREM AnswerTrue == GSpec => AnswerIsTrue
<1> DEFINE Answer ==
       CASE req.kind = "p" ->
              \A b \in 1 .. WordBytes : Reply(req, result'.got)[b] = ByteOf(regs'[req.reg], b - 1)
         [] req.kind = "g" ->
              \A i \in DOMAIN Registers, b \in 1 .. WordBytes :
                Reply(req, result'.got)[i][b] = ByteOf(regs'[Registers[i]], b - 1)
         [] req.kind = "m" -> Reply(req, result'.got) = Slice(req.addr, req.len)'
         [] req.kind = "M" -> Slice(req.addr, Len(req.text))' = req.text
         [] OTHER -> TRUE
<1>1. ASSUME DmInv, Data, [GNext]_gvars, Succeeds PROVE Answer
  <2>1. /\ Done(result.op, result.got)' /\ result'.op = op /\ UNCHANGED req
        /\ req.kind # "none" /\ ~Idle
    BY <1>1, OkDone DEF Succeeds
  <2>2. op = OpOf(req)
    BY <1>1, <2>1 DEF Data, Requested
  <2>3. DoneSays(result.op, result.got)'
    <3>1. (Done(result.op, result.got) => DoneSays(result.op, result.got))'
      BY DoneIs, PTL
    <3> QED BY <2>1, <3>1
  <2>4. DoneSays(OpOf(req), result.got)'
    <3>1. (result.op = OpOf(req))'
      BY <2>1, <2>2 DEF OpOf, gdb_handle_g, gdb_handle_p, gdb_handle_m, gdb_handle_M,
                        monitor_read32, monitor_write32
    <3> QED BY <2>3, <3>1
  <2>5. Told(req, result.got)'
    <3>1. (DoneSays(OpOf(req), result.got) => Told(req, result.got))'
      BY AnswerIs, PTL
    <3> QED BY <2>4, <3>1
  <2>6. req' = req
    BY <2>1
  <2>7. /\ req.kind = "p" => \A b \in 1 .. WordBytes :
                               Reply(req, result'.got)[b] = ByteOf(regs'[req.reg], b - 1)
        /\ req.kind = "g" =>
             \A i \in DOMAIN Registers, b \in 1 .. WordBytes :
               Reply(req, result'.got)[i][b] = ByteOf(regs'[Registers[i]], b - 1)
        /\ req.kind = "m" => Reply(req, result'.got) = Slice(req.addr, req.len)'
        /\ req.kind = "M" => Slice(req.addr, Len(req.text))' = req.text
    BY <2>5, <2>6 DEF Told, Reply, Slice, Filled, format_hex_u32_le, ByteOf
  <2> QED BY <2>7
<1>2. DmInv /\ Data /\ [GNext]_gvars => [Succeeds => Answer]_gvars
  BY <1>1
<1> QED BY <1>2, DataInvariant, PTL DEF GSpec, AnswerIsTrue
=============================================================================
