----------------------- MODULE CommandHierarchy_proofs -----------------------
(***************************************************************************)
(* Proofs about the emulator of command buffers and the hierarchy that is  *)
(* built from its callbacks, for any captures: the command buffers may     *)
(* call, chain to and queue each other in any way.                         *)
(***************************************************************************)
EXTENDS CommandHierarchy, FiniteSetTheorems, TLAPS

-----------------------------------------------------------------------------
(* Sequences whose elements have no common type. *)

LEMMA SeqFacts ==
    ASSUME NEW s, IsSeq(s)
    PROVE  /\ Len(s) \in Nat
           /\ DOMAIN s = 1 .. Len(s)
           /\ s = [i \in 1 .. Len(s) |-> s[i]]
           /\ \A i \in 1 .. Len(s) : s[i] \in Range(s)
BY DEF IsSeq, Range

LEMMA SeqIntro ==
    ASSUME NEW n \in Nat, NEW s, s = [i \in 1 .. n |-> s[i]]
    PROVE  IsSeq(s) /\ Len(s) = n
<1>1. DOMAIN s = 1 .. n
  OBVIOUS
<1>2. s \in [1 .. n -> Range(s)]
  BY <1>1 DEF Range
<1>. QED
  BY <1>2 DEF IsSeq

LEMMA TypedSeq ==
    ASSUME NEW S, NEW s \in Seq(S)
    PROVE  IsSeq(s)
<1>1. Len(s) \in Nat /\ s \in [1 .. Len(s) -> S]
  OBVIOUS
<1>2. s = [i \in 1 .. Len(s) |-> s[i]]
  BY <1>1
<1>. QED
  BY <1>1, <1>2, SeqIntro

LEMMA AppendSeq ==
    ASSUME NEW s, IsSeq(s), NEW e
    PROVE  /\ IsSeq(Append(s, e))
           /\ Len(Append(s, e)) = Len(s) + 1
           /\ \A i \in 1 .. Len(s) : Append(s, e)[i] = s[i]
           /\ Append(s, e)[Len(s) + 1] = e
<1>. DEFINE S == Range(s) \cup {e}
<1>1. s \in Seq(S)
  BY SeqFacts DEF IsSeq
<1>2. Append(s, e) \in Seq(S) /\ Len(Append(s, e)) = Len(s) + 1
  BY <1>1
<1>3. IsSeq(Append(s, e))
  BY <1>2, TypedSeq
<1>. QED
  BY <1>1, <1>2, <1>3

LEMMA ConcatSeq ==
    ASSUME NEW s, IsSeq(s), NEW u, IsSeq(u)
    PROVE  /\ IsSeq(s \o u)
           /\ Len(s \o u) = Len(s) + Len(u)
           /\ \A i \in 1 .. Len(s) : (s \o u)[i] = s[i]
           /\ \A i \in 1 .. Len(u) : (s \o u)[Len(s) + i] = u[i]
<1>. DEFINE S == Range(s) \cup Range(u)
<1>1. s \in Seq(S) /\ u \in Seq(S)
  BY SeqFacts DEF IsSeq
<1>2. s \o u \in Seq(S) /\ Len(s \o u) = Len(s) + Len(u)
  BY <1>1
<1>3. IsSeq(s \o u)
  BY <1>2, TypedSeq
<1>. QED
  BY <1>1, <1>2, <1>3

-----------------------------------------------------------------------------
(* The emulator.  A level that is not skipped is in an IB that was valid when
   it was entered, and the emulator has not moved before its beginning; it is
   about to read a packet only when it has not moved past its end either.
   A level never has the type of a chain. *)

LevelFields == {"va", "ib", "skip", "mask", "type", "queue", "next", "inst"}

LevelOk(level) ==
    /\ DOMAIN level = LevelFields
    /\ level.type # "Chain"
    /\ ~level.skip => /\ IsValid(level.ib)
                      /\ level.va \in Nat
                      /\ level.va >= level.ib.at

StackOk(stack) ==
    /\ IsSeq(stack) /\ Len(stack) >= 1
    /\ DOMAIN stack[1] = LevelFields
    /\ stack[1].type # "Chain"
    /\ \A i \in 2 .. Len(stack) : LevelOk(stack[i])

EmuFields == {"pc", "submit", "stack", "ibIndex", "entered", "chained"}

EmuInv ==
    /\ capture \in Captures
    /\ DOMAIN emu = EmuFields
    /\ StackOk(emu.stack)
    /\ emu.pc = "packet" => ~AtRing /\ ~EndOfCurIb(CurIb)

LEMMA TopOfStack ==
    ASSUME NEW stack, StackOk(stack)
    PROVE  /\ Len(stack) \in Nat /\ Len(stack) >= 1
           /\ DOMAIN Top(stack) = LevelFields
           /\ Top(stack).type # "Chain"
           /\ Len(stack) # 1 => LevelOk(Top(stack))
<1>. DEFINE n == Len(stack)
<1>1. n \in Nat /\ n >= 1
  BY SeqFacts DEF StackOk
<1>. HIDE DEF n
<1>2. n = 1 \/ n \in 2 .. n
  BY <1>1
<1>3. CASE n = 1
  BY <1>3 DEF StackOk, Top, n
<1>4. CASE n \in 2 .. n
  <2>1. LevelOk(stack[n])
    BY <1>4 DEF StackOk, n
  <2>. QED
    BY <2>1, <1>1 DEF LevelOk, Top, n
<1>. QED
  BY <1>1, <1>2, <1>3, <1>4

LEMMA PushLevel ==
    ASSUME NEW stack, StackOk(stack), NEW level, LevelOk(level)
    PROVE  StackOk(Append(stack, level))
<1>. DEFINE n == Len(stack)
            d == Append(stack, level)
<1>1. n \in Nat /\ n >= 1 /\ IsSeq(stack)
  BY SeqFacts DEF StackOk
<1>2. IsSeq(d) /\ Len(d) = n + 1 /\ (\A i \in 1 .. n : d[i] = stack[i]) /\ d[n + 1] = level
  BY <1>1, AppendSeq
<1>. HIDE DEF n, d
<1>3. d[1] = stack[1] /\ Len(d) >= 1
  BY <1>1, <1>2
<1>4. ASSUME NEW i \in 2 .. Len(d)
      PROVE  LevelOk(d[i])
  <2>1. i = n + 1 \/ (i \in 2 .. n /\ i \in 1 .. n)
    BY <1>1, <1>2
  <2>2. CASE i = n + 1
    BY <2>2, <1>2
  <2>3. CASE i \in 2 .. n /\ i \in 1 .. n
    <3>1. LevelOk(stack[i])
      BY <2>3 DEF StackOk, n
    <3>. QED
      BY <3>1, <2>3, <1>2
  <2>. QED
    BY <2>1, <2>2, <2>3
<1>5. DOMAIN stack[1] = LevelFields /\ stack[1].type # "Chain"
  BY DEF StackOk
<1>6. StackOk(d)
  BY <1>2, <1>3, <1>4, <1>5 DEF StackOk
<1>. QED
  BY <1>6 DEF d

LEMMA PopLevel ==
    ASSUME NEW stack, StackOk(stack), Len(stack) # 1
    PROVE  StackOk(Front(stack)) /\ Len(Front(stack)) = Len(stack) - 1
<1>. DEFINE n == Len(stack)
            d == Front(stack)
<1>1. n \in Nat /\ n >= 1 /\ n # 1 /\ IsSeq(stack)
  BY SeqFacts DEF StackOk
<1>. HIDE DEF n
<1>2. n - 1 \in Nat /\ n - 1 >= 1
  BY <1>1
<1>3. d = [i \in 1 .. n - 1 |-> stack[i]]
  BY <1>1, <1>2 DEF Front, n, IsSeq
<1>. HIDE DEF d
<1>4. \A i \in 1 .. n - 1 : d[i] = stack[i]
  BY <1>3
<1>5. d = [i \in 1 .. n - 1 |-> d[i]]
  BY <1>3, <1>4
<1>6. IsSeq(d) /\ Len(d) = n - 1
  BY <1>2, <1>5, SeqIntro
<1>7. d[1] = stack[1]
  BY <1>2, <1>4
<1>8. ASSUME NEW i \in 2 .. Len(d)
      PROVE  LevelOk(d[i])
  <2>1. i \in 2 .. n /\ i \in 1 .. n - 1
    BY <1>1, <1>6
  <2>2. LevelOk(stack[i])
    BY <2>1 DEF StackOk, n
  <2>. QED
    BY <2>1, <2>2, <1>4
<1>9. DOMAIN stack[1] = LevelFields /\ stack[1].type # "Chain"
  BY DEF StackOk
<1>10. StackOk(d)
  <2>1. IsSeq(d) /\ Len(d) >= 1
    BY <1>2, <1>6
  <2>2. DOMAIN d[1] = LevelFields /\ d[1].type # "Chain"
    BY <1>7, <1>9, ZenonT(60)
  <2>. QED
    BY <1>8, <2>1, <2>2, Zenon DEF StackOk
<1>. QED
  BY <1>6, <1>10 DEF d, n

(* The top of the stack is replaced. *)
LEMMA ReplaceTop ==
    ASSUME NEW stack, StackOk(stack), NEW level, NEW d,
           d = [stack EXCEPT ![Len(stack)] = level],
           DOMAIN level = LevelFields, level.type # "Chain",
           Len(stack) # 1 => LevelOk(level)
    PROVE  StackOk(d) /\ Len(d) = Len(stack) /\ Top(d) = level
<1>. DEFINE n == Len(stack)
<1>1. n \in Nat /\ n >= 1 /\ IsSeq(stack)
  BY SeqFacts DEF StackOk
<1>3. n # 1 => LevelOk(level)
  OBVIOUS
<1>0. d = [stack EXCEPT ![n] = level] /\ IsSeq(stack)
  BY <1>1
<1>. HIDE DEF n
<1>2. /\ IsSeq(d) /\ Len(d) = n
      /\ \A i \in 1 .. n : i # n => d[i] = stack[i]
      /\ n \in 1 .. n => d[n] = level
  <2>1. DOMAIN stack = 1 .. n
    BY <1>0, SeqFacts DEF n
  <2>2. /\ DOMAIN d = 1 .. n
        /\ \A i \in 1 .. n : i # n => d[i] = stack[i]
        /\ n \in 1 .. n => d[n] = level
    BY <1>0, <2>1
  <2>3. d = [i \in 1 .. n |-> d[i]]
    BY <1>0, <2>2
  <2>. QED
    BY <1>1, <2>2, <2>3, SeqIntro
<1>4. d[n] = level
  BY <1>1, <1>2
<1>5. DOMAIN d[1] = LevelFields /\ d[1].type # "Chain"
  <2>1. CASE n = 1
    BY <1>4, <2>1
  <2>2. CASE n # 1
    <3>1. d[1] = stack[1]
      BY <1>1, <1>2, <2>2
    <3>. QED
      BY <3>1 DEF StackOk
  <2>. QED
    BY <2>1, <2>2
<1>6. ASSUME NEW i \in 2 .. n
      PROVE  LevelOk(d[i])
  <2>1. CASE i = n
    BY <1>1, <1>3, <1>4, <2>1
  <2>2. CASE i # n
    <3>1. LevelOk(stack[i])
      BY DEF StackOk, n
    <3>2. i \in 1 .. n
      BY <1>1
    <3>. QED
      BY <3>1, <3>2, <2>2, <1>2
  <2>. QED
    BY <2>1, <2>2
<1>7. StackOk(d)
  BY <1>1, <1>2, <1>5, <1>6 DEF StackOk
<1>. QED
  BY <1>2, <1>4, <1>7, Zenon DEF n, Top

(* The packet that is about to be read is in the capture. *)
LEMMA PacketInCapture ==
    ASSUME EmuInv, emu.pc = "packet"
    PROVE  /\ LevelOk(CurIb) /\ ~CurIb.skip /\ IsValid(CurIb.ib)
           /\ CurIb.va \in Nat /\ CurIb.va >= CurIb.ib.at
           /\ CurIb.va \in DOMAIN capture.mem[CurIb.ib.buf]
           /\ CurIb.ib.at \in Nat /\ CurIb.ib.size \in Nat
           /\ IsSeq(capture.mem[CurIb.ib.buf])
           /\ PacketOk(CurPacket)
           /\ CurPacket.op = "drawState" => IsSeq(CurPacket.groups)
<1>1. LevelOk(CurIb) /\ ~EndOfCurIb(CurIb)
  BY TopOfStack DEF EmuInv, CurIb, AtRing
<1>2. /\ ~CurIb.skip /\ IsValid(CurIb.ib)
      /\ CurIb.va \in Nat /\ CurIb.va >= CurIb.ib.at
      /\ ~(CurIb.va >= CurIb.ib.at + CurIb.ib.size)
  BY <1>1 DEF LevelOk, EndOfCurIb
<1>. DEFINE buffer == capture.mem[CurIb.ib.buf]
            n      == Len(buffer)
            at     == CurIb.ib.at
            size   == CurIb.ib.size
            va     == CurIb.va
<1>3. capture \in Captures /\ CurIb.ib.buf \in DOMAIN capture.mem
  BY <1>2 DEF EmuInv, IsValid
<1>4. IsSeq(buffer)
  BY <1>3, CapturesAssumption
<1>5. n \in Nat /\ DOMAIN buffer = 1 .. n
  BY <1>4, SeqFacts
<1>6. at \in DOMAIN buffer /\ size \in 1 .. n - at + 1
  BY <1>2 DEF IsValid
<1>7. va \in Nat /\ va >= at /\ ~(va >= at + size)
  BY <1>2
<1>. HIDE DEF n, at, size, va, buffer
<1>8. va \in 1 .. n /\ at \in Nat /\ size \in Nat
  BY <1>5, <1>6, <1>7
<1>9. va \in DOMAIN buffer
  BY <1>5, <1>8
<1>10. PacketOk(buffer[va]) /\ (buffer[va].op = "drawState" => IsSeq(buffer[va].groups))
  BY <1>3, <1>9, CapturesAssumption DEF buffer, PacketOk
<1>. QED
  BY <1>1, <1>2, <1>4, <1>8, <1>9, <1>10 DEF n, at, size, va, buffer, CurPacket, PacketAt

(* The step of the emulator that a packet makes: it stays in its level, which
   is in the same IB, and does not move back. *)
LEMMA PacketLevel ==
    ASSUME EmuInv, emu.pc = "packet",
           CurPacket.op = "startBin" => EndBins(CurIb.ib, CurIb.va) # {},
           NEW level, level = QueueIB(Prepared(CurPacket, CurIb), Queued(CurPacket, CurIb))
    PROVE  LevelOk(level)
<1>1. /\ LevelOk(CurIb) /\ ~CurIb.skip /\ IsValid(CurIb.ib)
      /\ CurIb.va \in Nat /\ CurIb.va >= CurIb.ib.at /\ CurIb.ib.at \in Nat
      /\ CurIb.ib.size \in Nat
  BY PacketInCapture
<1>. DEFINE prepared == Prepared(CurPacket, CurIb)
            Same(l)  == /\ DOMAIN l = LevelFields
                        /\ l.ib = CurIb.ib /\ l.type = CurIb.type /\ l.skip = CurIb.skip
                        /\ l.va \in Nat /\ l.va >= CurIb.ib.at
<1>2. DOMAIN CurIb = LevelFields
  BY <1>1 DEF LevelOk
<1>3. Same(AdvancePacket(CurIb))
  BY <1>1, <1>2 DEF AdvancePacket, LevelFields
<1>4. Same(AdvancePacket(RestartQueue(CurIb)))
  BY <1>1, <1>2 DEF AdvancePacket, RestartQueue, LevelFields
<1>5. CurPacket.op = "startBin" => Same([CurIb EXCEPT !.va = EndBin(CurIb.ib, CurIb.va)])
  <2>. DEFINE e == EndBin(CurIb.ib, CurIb.va)
  <2>1. CurPacket.op = "startBin" => e \in EndBins(CurIb.ib, CurIb.va)
    BY DEF EndBin
  <2>2. ASSUME e \in EndBins(CurIb.ib, CurIb.va)
        PROVE  e \in Nat /\ e >= CurIb.ib.at
    <3>1. e \in CurIb.va + 1 .. CurIb.ib.at + CurIb.ib.size - 1
      BY <2>2 DEF EndBins
    <3>. QED
      BY <1>1, <3>1
  <2>. HIDE DEF e
  <2>3. e \in Nat /\ e >= CurIb.ib.at => Same([CurIb EXCEPT !.va = e])
    BY <1>1, <1>2 DEF LevelFields
  <2>. QED
    BY <2>1, <2>2, <2>3 DEF e
<1>6. Same(prepared)
  <2>1. \/ prepared = AdvancePacket(CurIb)
        \/ prepared = AdvancePacket(RestartQueue(CurIb))
        \/ /\ CurPacket.op = "startBin"
           /\ prepared = [CurIb EXCEPT !.va = EndBin(CurIb.ib, CurIb.va)]
    BY DEF Prepared
  <2>. QED
    BY <2>1, <1>3, <1>4, <1>5
<1>. HIDE DEF prepared
<1>7. Same(level)
  BY <1>6 DEF QueueIB, LevelFields, prepared
<1>. QED
  BY <1>1, <1>7 DEF LevelOk

(* A step that leaves the stack of the levels alone. *)
LEMMA StackKept ==
    ASSUME EmuInv, UNCHANGED capture, emu'.stack = emu.stack, DOMAIN emu' = EmuFields,
           emu'.pc = "packet" => ~AtRing /\ ~EndOfCurIb(CurIb)
    PROVE  EmuInv'
<1>1. CurIb' = CurIb /\ AtRing' = AtRing
  BY DEF CurIb, AtRing
<1>2. StackOk(emu.stack)'
  BY DEF EmuInv, StackOk, LevelOk, IsValid
<1>. QED
  BY <1>1, <1>2 DEF EmuInv, EndOfCurIb

(* A step that changes it and does not read a packet next. *)
LEMMA StackChanged ==
    ASSUME EmuInv, UNCHANGED capture, DOMAIN emu' = EmuFields, emu'.pc # "packet",
           StackOk(emu'.stack)
    PROVE  EmuInv'
<1>1. StackOk(emu.stack)'
  BY DEF StackOk, LevelOk, IsValid
<1>. QED
  BY <1>1 DEF EmuInv

LEMMA SubmitStartEmu == ASSUME EmuInv, SubmitStart PROVE EmuInv'
<1>. DEFINE ibs   == [i \in DOMAIN Submit.ibs |->
                        Pending(Submit.ibs[i].ib, Submit.ibs[i].skip, "Normal", AllMask)]
            level == IF Parsed(Submit) THEN QueueIB(Ring, ibs) ELSE Ring
<1>1. /\ UNCHANGED capture /\ DOMAIN emu' = EmuFields
      /\ emu'.pc \in {"end", "enter", "failed"}
  BY DEF SubmitStart, EmuInv, EmuFields
<1>2. emu'.stack = <<level>>
  BY DEF SubmitStart, EmuInv, EmuFields
<1>3. DOMAIN level = LevelFields /\ level.type # "Chain"
  BY DEF QueueIB, Ring, LevelFields
<1>. HIDE DEF level
<1>4. IsSeq(<<level>>) /\ Len(<<level>>) = 1 /\ <<level>>[1] = level
  <2>1. <<level>> \in Seq({level})
    OBVIOUS
  <2>. QED
    BY <2>1, TypedSeq
<1>5. StackOk(<<level>>)
  BY <1>3, <1>4 DEF StackOk
<1>6. StackOk(emu'.stack)
  BY <1>2, <1>5
<1>. QED
  BY <1>1, <1>6, StackChanged

LEMMA PacketEmu == ASSUME EmuInv, Packet PROVE EmuInv'
<1>. DEFINE level == QueueIB(Prepared(CurPacket, CurIb), Queued(CurPacket, CurIb))
<1>1. /\ UNCHANGED capture /\ DOMAIN emu' = EmuFields
      /\ emu'.pc \in {"failed", "enter", "check"}
      /\ emu'.stack = [emu.stack EXCEPT ![Len(emu.stack)] = level]
  BY DEF Packet, EmuInv, EmuFields
<1>2. LevelOk(level)
  <2>1. CurPacket.op = "startBin" => EndBins(CurIb.ib, CurIb.va) # {}
    BY DEF Packet
  <2>. QED
    BY <2>1, PacketLevel DEF Packet
<1>. HIDE DEF level
<1>3. StackOk(emu'.stack)
  <2>1. DOMAIN level = LevelFields /\ level.type # "Chain"
    BY <1>2 DEF LevelOk
  <2>. QED
    BY <1>1, <1>2, <2>1, ReplaceTop DEF EmuInv
<1>. QED
  BY <1>1, <1>3, StackChanged

(* The memory of an IB that is entered, by a call or a chain, is valid, or the
   IB is skipped. *)
LEMMA EnteredLevel ==
    ASSUME EmuInv, NEW level, DOMAIN level = LevelFields, level.type # "Chain",
           level.va = level.ib.at, ~level.skip => IsValid(level.ib)
    PROVE  LevelOk(level)
<1>. DEFINE ib == level.ib
<1>. SUFFICES ASSUME IsValid(ib)
              PROVE  ib.at \in Nat
  BY DEF LevelOk
<1>. DEFINE buffer == capture.mem[ib.buf]
<1>1. capture \in Captures /\ ib.buf \in DOMAIN capture.mem /\ ib.at \in DOMAIN buffer
  BY DEF EmuInv, IsValid
<1>2. IsSeq(buffer)
  BY <1>1, CapturesAssumption
<1>. HIDE DEF buffer
<1>3. ib.at \in 1 .. Len(buffer) /\ Len(buffer) \in Nat
  BY <1>1, <1>2, SeqFacts
<1>. QED
  BY <1>3

LEMMA EnterIbEmu ==
    ASSUME EmuInv, EnterIb
    PROVE  EmuInv' /\ LevelOk(Top(emu'.stack)) /\ Len(emu'.stack) = Len(emu.stack) + 1
<1>. DEFINE stack == emu.stack
            p     == CurIb.queue[CurIb.next]
            level == Level(p, p.skip \/ ~IsValid(p.ib), emu.entered + 1)
            top   == [CurIb EXCEPT !.next = CurIb.next + 1]
            held  == [stack EXCEPT ![Len(stack)] = top]
<1>1. /\ UNCHANGED capture /\ DOMAIN emu' = EmuFields /\ emu'.pc = "check"
      /\ emu'.stack = Append(held, level)
      /\ p.type # "Chain"
  BY Zenon DEF EnterIb, EmuInv, EmuFields, CurIb, Top
<1>2. LevelOk(level)
  <2>1. /\ DOMAIN level = LevelFields /\ level.type = p.type
        /\ level.va = level.ib.at
        /\ ~level.skip => IsValid(level.ib)
    BY DEF Level, LevelFields
  <2>. HIDE DEF level, p
  <2>. QED
    BY <1>1, <2>1, EnteredLevel
<1>3. /\ StackOk(stack) /\ DOMAIN CurIb = LevelFields /\ CurIb.type # "Chain"
      /\ Len(stack) # 1 => LevelOk(CurIb)
  BY TopOfStack DEF EmuInv, CurIb
<1>4. /\ DOMAIN top = LevelFields /\ top.type # "Chain"
      /\ Len(stack) # 1 => LevelOk(top)
  BY <1>3 DEF LevelFields, LevelOk
<1>. HIDE DEF top, level, stack
<1>5. StackOk(held) /\ Len(held) = Len(stack)
  BY <1>3, <1>4, ReplaceTop
<1>. HIDE DEF held
<1>6. StackOk(Append(held, level))
  BY <1>2, <1>5, PushLevel
<1>7. Len(Append(held, level)) = Len(stack) + 1 /\ Top(Append(held, level)) = level
  <2>1. IsSeq(held)
    BY <1>5 DEF StackOk
  <2>. QED
    BY <1>5, <2>1, AppendSeq DEF Top
<1>8. EmuInv'
  BY <1>1, <1>6, StackChanged
<1>. QED
  BY <1>1, <1>2, <1>7, <1>8, ZenonT(60) DEF stack

LEMMA ChainIbEmu ==
    ASSUME EmuInv, ChainIb
    PROVE  EmuInv' /\ Top(emu'.stack).type # "Chain" /\ Len(emu'.stack) = Len(emu.stack)
<1>. DEFINE stack == emu.stack
            p     == CurIb.queue[1]
            level == [CurIb EXCEPT !.va = p.ib.at, !.ib = p.ib, !.mask = p.mask,
                                   !.skip = p.skip \/ ~IsValid(p.ib),
                                   !.next = CurIb.next + 1, !.inst = emu.entered + 1]
            d     == [stack EXCEPT ![Len(stack)] = level]
<1>1. /\ UNCHANGED capture /\ DOMAIN emu' = EmuFields /\ emu'.pc = "check"
      /\ emu'.stack = d
  BY DEF ChainIb, EmuInv, EmuFields, CurIb, Top
<1>2. StackOk(stack) /\ DOMAIN CurIb = LevelFields /\ CurIb.type # "Chain"
  BY TopOfStack DEF EmuInv, CurIb
<1>3. /\ DOMAIN level = LevelFields /\ level.type # "Chain"
      /\ level.va = level.ib.at
      /\ ~level.skip => IsValid(level.ib)
  BY <1>2 DEF LevelFields
<1>. HIDE DEF level, stack, p
<1>4. LevelOk(level)
  BY <1>3, EnteredLevel
<1>5. StackOk(d) /\ Len(d) = Len(stack) /\ Top(d) = level
  BY <1>2, <1>3, <1>4, ReplaceTop
<1>. HIDE DEF d
<1>. QED
  BY <1>1, <1>3, <1>5, StackChanged DEF stack

LEMMA LeaveIbEmu ==
    ASSUME EmuInv, LeaveIb
    PROVE  EmuInv' /\ Len(emu'.stack) = Len(emu.stack) - 1 /\ Len(emu.stack) # 1
<1>1. /\ UNCHANGED capture /\ DOMAIN emu' = EmuFields /\ emu'.pc = "enter"
      /\ emu'.stack = Front(emu.stack) /\ Len(emu.stack) # 1
  BY DEF LeaveIb, EmuInv, EmuFields, AtRing
<1>2. StackOk(Front(emu.stack)) /\ Len(Front(emu.stack)) = Len(emu.stack) - 1
  BY <1>1, PopLevel DEF EmuInv
<1>. QED
  BY <1>1, <1>2, StackChanged

LEMMA OtherEmu ==
    ASSUME EmuInv,
           BadPacket \/ NothingQueued \/ MisplacedChain \/ StayInIb \/ AllSubmitsDone \/ SubmitEnd
    PROVE  EmuInv' /\ emu'.stack = emu.stack
<1>1. UNCHANGED capture /\ emu'.stack = emu.stack /\ DOMAIN emu' = EmuFields
  BY DEF BadPacket, NothingQueued, MisplacedChain, StayInIb, AllSubmitsDone, SubmitEnd,
         EmuInv, EmuFields
<1>2. emu'.pc = "packet" => ~AtRing /\ ~EndOfCurIb(CurIb)
  BY DEF BadPacket, NothingQueued, MisplacedChain, StayInIb, AllSubmitsDone, SubmitEnd,
         EmuInv, EmuFields
<1>. QED
  BY <1>1, <1>2, StackKept

LEMMA InitEmu == ASSUME EmuInit PROVE EmuInv
<1>1. IsSeq(<<Ring>>) /\ Len(<<Ring>>) = 1 /\ <<Ring>>[1] = Ring
  <2>1. <<Ring>> \in Seq({Ring})
    OBVIOUS
  <2>. QED
    BY <2>1, TypedSeq
<1>2. DOMAIN Ring = LevelFields /\ Ring.type # "Chain"
  BY DEF Ring, LevelFields
<1>3. StackOk(<<Ring>>)
  BY <1>1, <1>2 DEF StackOk
<1>4. emu.stack = <<Ring>> /\ DOMAIN emu = EmuFields /\ emu.pc # "packet" /\ capture \in Captures
  BY DEF EmuInit, EmuFields
<1>. QED
  BY <1>3, <1>4 DEF EmuInv

-----------------------------------------------------------------------------
(* The nodes.  kids and shared are sequences; only what is in them matters. *)

NodeFields == {"type", "aux", "kids", "shared", "start", "end", "root"}

NodeOk(r) ==
    /\ DOMAIN r = NodeFields
    /\ DOMAIN r.kids = Topologies /\ DOMAIN r.shared = Topologies
    /\ \A t \in Topologies : IsSeq(r.kids[t]) /\ IsSeq(r.shared[t])
    /\ DOMAIN r.start = Topologies /\ DOMAIN r.end = Topologies /\ DOMAIN r.root = Topologies

KidsOf(r, t)   == Range(r.kids[t])
SharedOf(r, t) == Range(r.shared[t])

LEMMA EmptySequence == IsSeq(<<>>) /\ Len(<<>>) = 0 /\ Range(<<>>) = {}
<1>1. <<>> \in Seq({}) /\ Len(<<>>) = 0 /\ DOMAIN <<>> = {}
  OBVIOUS
<1>2. IsSeq(<<>>)
  BY <1>1, TypedSeq
<1>3. Range(<<>>) = {}
  BY <1>1 DEF Range
<1>. QED
  BY <1>1, <1>2, <1>3

LEMMA AppendRange ==
    ASSUME NEW s, IsSeq(s), NEW e
    PROVE  IsSeq(Append(s, e)) /\ Range(Append(s, e)) = Range(s) \cup {e}
<1>. DEFINE d == Append(s, e)
            n == Len(s)
<1>1. n \in Nat /\ DOMAIN s = 1 .. n
  BY SeqFacts
<1>2. IsSeq(d) /\ Len(d) = n + 1 /\ (\A i \in 1 .. n : d[i] = s[i]) /\ d[n + 1] = e
  BY AppendSeq
<1>3. DOMAIN d = 1 .. n + 1
  BY <1>2, SeqFacts
<1>. HIDE DEF d, n
<1>4. ASSUME NEW i \in DOMAIN d
      PROVE  d[i] \in Range(s) \cup {e}
  <2>1. i = n + 1 \/ i \in 1 .. n
    BY <1>1, <1>3
  <2>. QED
    BY <2>1, <1>1, <1>2 DEF Range
<1>5. ASSUME NEW i \in DOMAIN s
      PROVE  s[i] \in Range(d)
  <2>1. i \in DOMAIN d /\ d[i] = s[i]
    BY <1>1, <1>2, <1>3
  <2>. QED
    BY <2>1 DEF Range
<1>6. e \in Range(d)
  <2>1. n + 1 \in DOMAIN d
    BY <1>1, <1>3
  <2>. QED
    BY <2>1, <1>2 DEF Range
<1>7. Range(d) = Range(s) \cup {e}
  BY <1>4, <1>5, <1>6 DEF Range
<1>. QED
  BY <1>2, <1>7 DEF d

LEMMA NewNode ==
    ASSUME NEW type, NEW aux
    PROVE  /\ NodeOk(Node(type, aux))
           /\ Node(type, aux).type = type /\ Node(type, aux).aux = aux
           /\ \A t \in Topologies : KidsOf(Node(type, aux), t) = {} /\ SharedOf(Node(type, aux), t) = {}
BY EmptySequence DEF Node, NodeOk, NodeFields, KidsOf, SharedOf

LEMMA NodeWithKids ==
    ASSUME NEW r, NodeOk(r), NEW t \in Topologies, NEW q, IsSeq(q), NEW d,
           d = [r EXCEPT !.kids = [r.kids EXCEPT ![t] = q]]
    PROVE  /\ NodeOk(d) /\ d.type = r.type /\ d.aux = r.aux
           /\ KidsOf(d, t) = Range(q)
           /\ \A u \in Topologies : u # t => KidsOf(d, u) = KidsOf(r, u)
           /\ \A u \in Topologies : SharedOf(d, u) = SharedOf(r, u)
<1>1. /\ DOMAIN d = NodeFields /\ d.type = r.type /\ d.aux = r.aux /\ d.shared = r.shared
      /\ d.start = r.start /\ d.end = r.end /\ d.root = r.root
  BY DEF NodeOk, NodeFields
<1>2. d.kids = [r.kids EXCEPT ![t] = q]
  BY DEF NodeOk, NodeFields
<1>3. DOMAIN d.kids = Topologies /\ d.kids[t] = q
      /\ \A u \in Topologies : u # t => d.kids[u] = r.kids[u]
  BY <1>2 DEF NodeOk
<1>4. NodeOk(d)
  BY <1>1, <1>3 DEF NodeOk
<1>. QED
  BY <1>1, <1>3, <1>4 DEF KidsOf, SharedOf

LEMMA NodeWithShared ==
    ASSUME NEW r, NodeOk(r), NEW t \in Topologies, NEW q, IsSeq(q), NEW d,
           d = [r EXCEPT !.shared = [r.shared EXCEPT ![t] = q]]
    PROVE  /\ NodeOk(d) /\ d.type = r.type /\ d.aux = r.aux
           /\ SharedOf(d, t) = Range(q)
           /\ \A u \in Topologies : u # t => SharedOf(d, u) = SharedOf(r, u)
           /\ \A u \in Topologies : KidsOf(d, u) = KidsOf(r, u)
<1>1. /\ DOMAIN d = NodeFields /\ d.type = r.type /\ d.aux = r.aux /\ d.kids = r.kids
      /\ d.start = r.start /\ d.end = r.end /\ d.root = r.root
  BY DEF NodeOk, NodeFields
<1>2. d.shared = [r.shared EXCEPT ![t] = q]
  BY DEF NodeOk, NodeFields
<1>3. DOMAIN d.shared = Topologies /\ d.shared[t] = q
      /\ \A u \in Topologies : u # t => d.shared[u] = r.shared[u]
  BY <1>2 DEF NodeOk
<1>4. NodeOk(d)
  BY <1>1, <1>3 DEF NodeOk
<1>. QED
  BY <1>1, <1>3, <1>4 DEF KidsOf, SharedOf

(* What TopologiesWellFormed says, of a sequence of nodes. *)
Forest(s) ==
    /\ IsSeq(s)
    /\ \A n \in 1 .. Len(s) : NodeOk(s[n])
    /\ \A n \in 1 .. Len(s), t \in Topologies :
          \A k \in KidsOf(s[n], t) : k \in 1 .. Len(s) /\ k > n
    /\ \A n \in 1 .. Len(s), t \in Topologies :
          \A k \in SharedOf(s[n], t) : k \in 1 .. Len(s) /\ s[k].type = "Packet"
    /\ \A t \in Topologies : \A m, n \in 1 .. Len(s) : \A k \in 1 .. Len(s) :
          k \in KidsOf(s[m], t) /\ k \in KidsOf(s[n], t) => m = n

(* No node has k among its children in the topology t. *)
Orphan(s, k, t) == \A n \in 1 .. Len(s) : k \notin KidsOf(s[n], t)

(* The nodes of s are in d, as they were created. *)
Extends(s, d) ==
    /\ Len(s) <= Len(d)
    /\ \A n \in 1 .. Len(s) : d[n].type = s[n].type /\ d[n].aux = s[n].aux

(* From s to d: the nodes in C become children of p in the topologies T; they
   were nobody's before.  Packets become shared children of any node. *)
Grafts(s, d, p, C, T) ==
    /\ IsSeq(d) /\ Extends(s, d)
    /\ \A n \in 1 .. Len(d) : NodeOk(d[n])
    /\ \A k \in C : k \in 1 .. Len(d) /\ k > p
    /\ \A t \in T : \A k \in C : Orphan(s, k, t)
    /\ \A n \in 1 .. Len(s), t \in Topologies : \A k \in KidsOf(d[n], t) :
          k \in KidsOf(s[n], t) \/ (n = p /\ t \in T /\ k \in C)
    /\ \A n \in 1 .. Len(s), t \in Topologies : \A k \in SharedOf(d[n], t) :
          k \in SharedOf(s[n], t) \/ (k \in 1 .. Len(d) /\ d[k].type = "Packet")
    /\ \A n \in 1 .. Len(d), t \in Topologies :
          n > Len(s) => KidsOf(d[n], t) = {} /\ SharedOf(d[n], t) = {}

(* A node was added at the end of s; it is in no tree yet. *)
NewLast(s, d, type, aux) ==
    /\ Forest(d) /\ Extends(s, d) /\ Len(d) = Len(s) + 1 /\ Len(s) \in Nat
    /\ d[Len(d)].type = type /\ d[Len(d)].aux = aux
    /\ \A t \in Topologies : Orphan(d, Len(d), t)

(* One node of s was changed, its children only in the topologies T. *)
Changed(s, d, T) ==
    /\ Forest(d) /\ Extends(s, d) /\ Len(d) = Len(s)
    /\ \A t \in Topologies : \A k : t \notin T /\ Orphan(s, k, t) => Orphan(d, k, t)

WithKid(s, t, n, c) ==
    [s EXCEPT ![n] = [s[n] EXCEPT !.kids = [s[n].kids EXCEPT ![t] = Append(s[n].kids[t], c)]]]
WithShared(s, t, n, c) ==
    [s EXCEPT ![n] = [s[n] EXCEPT !.shared =
                        [s[n].shared EXCEPT ![t] = Append(s[n].shared[t], c)]]]

LEMMA ForestGrafts ==
    ASSUME NEW s, Forest(s), NEW d, NEW p, NEW C, NEW T, Grafts(s, d, p, C, T)
    PROVE  Forest(d)
<1>. DEFINE N == Len(s)
            D == Len(d)
<1>1. N \in Nat /\ D \in Nat /\ N <= D
  BY SeqFacts DEF Forest, Extends, Grafts
<1>2. \A n \in 1 .. D : n \in 1 .. N \/ n > N
  BY <1>1
<1>3. \A k \in 1 .. N : k \in 1 .. D
  BY <1>1
<1>4. ASSUME NEW n \in 1 .. D, NEW t \in Topologies, NEW k \in KidsOf(d[n], t)
      PROVE  k \in 1 .. D /\ k > n
  <2>1. n \in 1 .. N
    BY <1>2, <1>4 DEF Grafts
  <2>2. k \in KidsOf(s[n], t) => k \in 1 .. N /\ k > n
    BY <2>1 DEF Forest
  <2>3. k \in KidsOf(s[n], t) \/ (n = p /\ t \in T /\ k \in C)
    BY <2>1 DEF Grafts
  <2>. QED
    BY <2>2, <2>3, <1>3 DEF Grafts
<1>5. ASSUME NEW n \in 1 .. D, NEW t \in Topologies, NEW k \in SharedOf(d[n], t)
      PROVE  k \in 1 .. D /\ d[k].type = "Packet"
  <2>1. n \in 1 .. N
    BY <1>2, <1>5 DEF Grafts
  <2>2. k \in SharedOf(s[n], t) => k \in 1 .. N /\ s[k].type = "Packet"
    BY <2>1 DEF Forest
  <2>3. k \in SharedOf(s[n], t) \/ (k \in 1 .. D /\ d[k].type = "Packet")
    BY <2>1 DEF Grafts
  <2>4. k \in 1 .. N => d[k].type = s[k].type
    BY DEF Extends, Grafts
  <2>. QED
    BY <2>2, <2>3, <2>4, <1>3
<1>6. ASSUME NEW t \in Topologies, NEW m \in 1 .. D, NEW n \in 1 .. D, NEW k \in 1 .. D,
             k \in KidsOf(d[m], t), k \in KidsOf(d[n], t)
      PROVE  m = n
  <2>1. m \in 1 .. N /\ n \in 1 .. N
    BY <1>2, <1>6 DEF Grafts
  <2>2. k \in KidsOf(s[m], t) \/ (m = p /\ t \in T /\ k \in C)
    BY <2>1, <1>6 DEF Grafts
  <2>3. k \in KidsOf(s[n], t) \/ (n = p /\ t \in T /\ k \in C)
    BY <2>1, <1>6 DEF Grafts
  <2>4. t \in T /\ k \in C => k \notin KidsOf(s[m], t) /\ k \notin KidsOf(s[n], t)
    BY <2>1 DEF Orphan, Grafts
  <2>5. k \in KidsOf(s[m], t) /\ k \in KidsOf(s[n], t) => m = n
    <3>1. k \in KidsOf(s[m], t) => k \in 1 .. N
      BY <2>1 DEF Forest
    <3>. QED
      BY <2>1, <3>1 DEF Forest
  <2>. QED
    BY <2>2, <2>3, <2>4, <2>5
<1>. QED
  BY <1>4, <1>5, <1>6 DEF Forest, Grafts

(* A node that is not in the trees yet. *)
LEMMA ForestAppend ==
    ASSUME NEW s, Forest(s), NEW type, NEW aux, NEW d, d = Append(s, Node(type, aux))
    PROVE  NewLast(s, d, type, aux)
<1>. DEFINE N == Len(s)
            r == Node(type, aux)
<1>1. /\ NodeOk(r) /\ r.type = type /\ r.aux = aux
      /\ \A t \in Topologies : KidsOf(r, t) = {} /\ SharedOf(r, t) = {}
  BY NewNode
<1>2. N \in Nat /\ IsSeq(s)
  BY SeqFacts DEF Forest
<1>. HIDE DEF r
<1>3. IsSeq(d) /\ Len(d) = N + 1 /\ (\A i \in 1 .. N : d[i] = s[i]) /\ d[N + 1] = r
  BY <1>2, AppendSeq DEF r
<1>. HIDE DEF N
<1>4. \A n \in 1 .. Len(d) : n \in 1 .. N \/ n = N + 1
  BY <1>2, <1>3
<1>5. \A n \in 1 .. N : NodeOk(s[n])
  BY DEF Forest, N
<1>6. \A n \in 1 .. Len(d) : NodeOk(d[n])
  BY <1>1, <1>3, <1>4, <1>5
<1>7. Extends(s, d)
  BY <1>2, <1>3 DEF Extends, N
<1>8. \A n \in 1 .. N, t \in Topologies :
          KidsOf(d[n], t) = KidsOf(s[n], t) /\ SharedOf(d[n], t) = SharedOf(s[n], t)
  BY <1>3
<1>9. \A n \in 1 .. Len(d), t \in Topologies :
          n > N => KidsOf(d[n], t) = {} /\ SharedOf(d[n], t) = {}
  BY <1>1, <1>2, <1>3, <1>4
<1>10. Forest(d)
  <2>1. Grafts(s, d, 0, {}, {})
    BY <1>3, <1>6, <1>7, <1>8, <1>9 DEF N, Grafts
  <2>. QED
    BY <2>1, ForestGrafts
<1>11. ASSUME NEW t \in Topologies
       PROVE  Orphan(d, N + 1, t)
  <2>1. ASSUME NEW n \in 1 .. N
        PROVE  N + 1 \notin KidsOf(s[n], t)
    <3>1. \A k \in KidsOf(s[n], t) : k \in 1 .. N
      BY DEF Forest, N
    <3>. QED
      BY <3>1, <1>2
  <2>. QED
    BY <2>1, <1>1, <1>3, <1>4 DEF Orphan
<1>. QED
  BY <1>1, <1>2, <1>3, <1>7, <1>10, <1>11 DEF N, NewLast

(* One node is replaced; nothing changes when there is no such node. *)
Replaced(s, d, n, r) ==
    /\ IsSeq(d) /\ Len(d) = Len(s) /\ Extends(s, d)
    /\ \A m \in 1 .. Len(d) : NodeOk(d[m])
    /\ \A m \in 1 .. Len(s) : m # n => d[m] = s[m]
    /\ n \in 1 .. Len(s) => d[n] = r

LEMMA ReplaceNode ==
    ASSUME NEW s, Forest(s), NEW n, NEW r, NEW d, d = [s EXCEPT ![n] = r],
           n \in 1 .. Len(s) => NodeOk(r) /\ r.type = s[n].type /\ r.aux = s[n].aux
    PROVE  Replaced(s, d, n, r)
<1>. DEFINE N == Len(s)
<1>1. N \in Nat /\ DOMAIN s = 1 .. N
  BY SeqFacts DEF Forest
<1>2. \A m \in 1 .. N : NodeOk(s[m])
  BY DEF Forest
<1>3. n \in 1 .. N => NodeOk(r) /\ r.type = s[n].type /\ r.aux = s[n].aux
  OBVIOUS
<1>. HIDE DEF N
<1>4. /\ DOMAIN d = 1 .. N
      /\ \A m \in 1 .. N : m # n => d[m] = s[m]
      /\ n \in 1 .. N => d[n] = r
  BY <1>1
<1>5. d = [m \in 1 .. N |-> d[m]]
  BY <1>4
<1>6. IsSeq(d) /\ Len(d) = N
  BY <1>1, <1>5, SeqIntro
<1>7. \A m \in 1 .. N : NodeOk(d[m]) /\ d[m].type = s[m].type /\ d[m].aux = s[m].aux
  BY <1>2, <1>3, <1>4
<1>8. Extends(s, d)
  BY <1>1, <1>6, <1>7 DEF Extends, N
<1>. QED
  BY <1>4, <1>6, <1>7, <1>8 DEF N, Replaced

(* AddChild, for a node that is nobody's child. *)
LEMMA ForestKid ==
    ASSUME NEW s, Forest(s), NEW n \in 0 .. Len(s), NEW t \in Topologies,
           NEW c \in 1 .. Len(s), n < c, Orphan(s, c, t), NEW d,
           d = WithKid(s, t, n, c)
    PROVE  Changed(s, d, {t})
<1>. DEFINE q == Append(s[n].kids[t], c)
            r == [s[n] EXCEPT !.kids = [s[n].kids EXCEPT ![t] = q]]
<1>1. ASSUME n \in 1 .. Len(s)
      PROVE  /\ NodeOk(r) /\ r.type = s[n].type /\ r.aux = s[n].aux
             /\ KidsOf(r, t) = KidsOf(s[n], t) \cup {c}
             /\ \A u \in Topologies : u # t => KidsOf(r, u) = KidsOf(s[n], u)
             /\ \A u \in Topologies : SharedOf(r, u) = SharedOf(s[n], u)
  <2>1. NodeOk(s[n])
    BY <1>1 DEF Forest
  <2>2. IsSeq(s[n].kids[t])
    BY <2>1 DEF NodeOk
  <2>3. IsSeq(q) /\ Range(q) = KidsOf(s[n], t) \cup {c}
    BY <2>2, AppendRange DEF KidsOf
  <2>. HIDE DEF q
  <2>. QED
    BY <2>1, <2>3, NodeWithKids
<1>2. d = [s EXCEPT ![n] = r]
  BY DEF WithKid
<1>. HIDE DEF r
<1>3. /\ IsSeq(d) /\ Len(d) = Len(s) /\ Extends(s, d)
      /\ \A m \in 1 .. Len(d) : NodeOk(d[m])
      /\ \A m \in 1 .. Len(s) : m # n => d[m] = s[m]
      /\ n \in 1 .. Len(s) => d[n] = r
  <2>1. Replaced(s, d, n, r)
    BY <1>1, <1>2, ReplaceNode
  <2>. QED
    BY <2>1 DEF Replaced
<1>4. Len(s) \in Nat
  BY SeqFacts DEF Forest
<1>5. Grafts(s, d, n, {c}, {t})
  <2>1. \A k \in {c} : k \in 1 .. Len(d) /\ k > n
    BY <1>3, <1>4
  <2>2. \A m \in 1 .. Len(s), u \in Topologies : \A k \in KidsOf(d[m], u) :
            k \in KidsOf(s[m], u) \/ (m = n /\ u \in {t} /\ k \in {c})
    BY <1>1, <1>3
  <2>3. \A m \in 1 .. Len(s), u \in Topologies : SharedOf(d[m], u) = SharedOf(s[m], u)
    BY <1>1, <1>3
  <2>4. \A m \in 1 .. Len(d) : ~(m > Len(s))
    BY <1>3, <1>4
  <2>. QED
    BY <1>3, <2>1, <2>2, <2>3, <2>4 DEF Grafts
<1>6. Forest(d)
  BY <1>5, ForestGrafts
<1>7. \A m \in 1 .. Len(s), u \in Topologies : u # t => KidsOf(d[m], u) = KidsOf(s[m], u)
  BY <1>1, <1>3
<1>. QED
  BY <1>3, <1>6, <1>7 DEF Orphan, Changed

(* AddSharedChild, for a packet. *)
LEMMA ForestShared ==
    ASSUME NEW s, Forest(s), NEW n, NEW t \in Topologies,
           NEW c \in 1 .. Len(s), s[c].type = "Packet", NEW d,
           d = WithShared(s, t, n, c)
    PROVE  Changed(s, d, {})
<1>. DEFINE q == Append(s[n].shared[t], c)
            r == [s[n] EXCEPT !.shared = [s[n].shared EXCEPT ![t] = q]]
<1>1. ASSUME n \in 1 .. Len(s)
      PROVE  /\ NodeOk(r) /\ r.type = s[n].type /\ r.aux = s[n].aux
             /\ SharedOf(r, t) = SharedOf(s[n], t) \cup {c}
             /\ \A u \in Topologies : u # t => SharedOf(r, u) = SharedOf(s[n], u)
             /\ \A u \in Topologies : KidsOf(r, u) = KidsOf(s[n], u)
  <2>1. NodeOk(s[n])
    BY <1>1 DEF Forest
  <2>2. IsSeq(s[n].shared[t])
    BY <2>1 DEF NodeOk
  <2>3. IsSeq(q) /\ Range(q) = SharedOf(s[n], t) \cup {c}
    BY <2>2, AppendRange DEF SharedOf
  <2>. HIDE DEF q
  <2>. QED
    BY <2>1, <2>3, NodeWithShared
<1>2. d = [s EXCEPT ![n] = r]
  BY DEF WithShared
<1>. HIDE DEF r
<1>3. /\ IsSeq(d) /\ Len(d) = Len(s) /\ Extends(s, d)
      /\ \A m \in 1 .. Len(d) : NodeOk(d[m])
      /\ \A m \in 1 .. Len(s) : m # n => d[m] = s[m]
      /\ n \in 1 .. Len(s) => d[n] = r
  <2>1. Replaced(s, d, n, r)
    BY <1>1, <1>2, ReplaceNode
  <2>. QED
    BY <2>1 DEF Replaced
<1>4. Len(s) \in Nat
  BY SeqFacts DEF Forest
<1>5. d[c].type = "Packet" /\ c \in 1 .. Len(d)
  BY <1>3 DEF Extends
<1>6. \A m \in 1 .. Len(s), u \in Topologies : KidsOf(d[m], u) = KidsOf(s[m], u)
  BY <1>1, <1>3
<1>7. Grafts(s, d, 0, {}, {})
  <2>1. \A m \in 1 .. Len(s), u \in Topologies : \A k \in SharedOf(d[m], u) :
            k \in SharedOf(s[m], u) \/ (k \in 1 .. Len(d) /\ d[k].type = "Packet")
    <3>1. \A m \in 1 .. Len(s), u \in Topologies : \A k \in SharedOf(d[m], u) :
            k \in SharedOf(s[m], u) \/ k = c
      BY <1>1, <1>3
    <3>. QED
      BY <3>1, <1>5
  <2>2. \A m \in 1 .. Len(d) : ~(m > Len(s))
    BY <1>3, <1>4
  <2>. QED
    BY <1>3, <1>6, <2>1, <2>2 DEF Grafts
<1>8. Forest(d)
  BY <1>7, ForestGrafts
<1>. QED
  BY <1>3, <1>6, <1>8 DEF Orphan, Changed

(* The children stay the same, maybe in another order. *)
LEMMA ForestReplace ==
    ASSUME NEW s, Forest(s), NEW n, NEW r, NEW d, d = [s EXCEPT ![n] = r],
           n \in 1 .. Len(s) =>
                /\ NodeOk(r) /\ r.type = s[n].type /\ r.aux = s[n].aux
                /\ \A t \in Topologies : /\ KidsOf(r, t) = KidsOf(s[n], t)
                                         /\ SharedOf(r, t) = SharedOf(s[n], t)
    PROVE  Changed(s, d, {})
<1>1. /\ IsSeq(d) /\ Len(d) = Len(s) /\ Extends(s, d)
      /\ \A m \in 1 .. Len(d) : NodeOk(d[m])
      /\ \A m \in 1 .. Len(s) : m # n => d[m] = s[m]
      /\ n \in 1 .. Len(s) => d[n] = r
  <2>1. ASSUME n \in 1 .. Len(s)
        PROVE  NodeOk(r) /\ r.type = s[n].type /\ r.aux = s[n].aux
    BY <2>1
  <2>2. d = [s EXCEPT ![n] = r]
    OBVIOUS
  <2>3. Replaced(s, d, n, r)
    BY <2>1, <2>2, ReplaceNode
  <2>. QED
    BY <2>3 DEF Replaced
<1>2. Len(s) \in Nat
  BY SeqFacts DEF Forest
<1>3. \A m \in 1 .. Len(s), t \in Topologies :
          KidsOf(d[m], t) = KidsOf(s[m], t) /\ SharedOf(d[m], t) = SharedOf(s[m], t)
  BY <1>1
<1>4. \A m \in 1 .. Len(d) : ~(m > Len(s))
  BY <1>1, <1>2
<1>5. Grafts(s, d, 0, {}, {})
  BY <1>1, <1>3, <1>4 DEF Grafts
<1>6. Forest(d)
  BY <1>5, ForestGrafts
<1>. QED
  BY <1>1, <1>3, <1>6 DEF Orphan, Changed

(* Nodes are added at the end, as children of p in the topologies T. *)
LEMMA ForestBlock ==
    ASSUME NEW s, Forest(s), NEW p \in 1 .. Len(s), NEW r, NEW T, NEW new, IsSeq(new),
           NodeOk(r), r.type = s[p].type, r.aux = s[p].aux,
           \A t \in Topologies : SharedOf(r, t) = SharedOf(s[p], t),
           \A t \in Topologies : \A k \in KidsOf(r, t) :
                k \in KidsOf(s[p], t) \/ (t \in T /\ k \in Len(s) + 1 .. Len(s) + Len(new)),
           T \subseteq Topologies,
           \A i \in 1 .. Len(new) : NodeOk(new[i]),
           \A i \in 1 .. Len(new), t \in Topologies :
                KidsOf(new[i], t) = {} /\ SharedOf(new[i], t) = {},
           NEW d, d = [s EXCEPT ![p] = r] \o new
    PROVE  Forest(d) /\ Extends(s, d) /\ Len(d) = Len(s) + Len(new)
<1>. DEFINE N == Len(s)
            K == Len(new)
            C == N + 1 .. N + K
            e == [s EXCEPT ![p] = r]
<1>1. N \in Nat /\ K \in Nat /\ p \in 1 .. N
  BY SeqFacts DEF Forest
<1>2. /\ IsSeq(e) /\ Len(e) = N /\ Extends(s, e)
      /\ \A m \in 1 .. N : NodeOk(e[m])
      /\ \A m \in 1 .. N : m # p => e[m] = s[m]
      /\ e[p] = r
  <2>1. Replaced(s, e, p, r)
    BY ReplaceNode
  <2>. QED
    BY <1>1, <2>1 DEF Replaced
<1>. HIDE DEF e
<1>3. /\ IsSeq(d) /\ Len(d) = N + K
      /\ \A i \in 1 .. N : d[i] = e[i]
      /\ \A i \in 1 .. K : d[N + i] = new[i]
  BY <1>2, ConcatSeq DEF e
<1>4. \A t \in Topologies : \A k \in KidsOf(r, t) : k \in KidsOf(s[p], t) \/ (t \in T /\ k \in C)
  OBVIOUS
<1>5. /\ \A i \in 1 .. K : NodeOk(new[i])
      /\ \A i \in 1 .. K, t \in Topologies : KidsOf(new[i], t) = {} /\ SharedOf(new[i], t) = {}
  OBVIOUS
<1>6. \A m \in 1 .. N, t \in Topologies : \A k \in KidsOf(s[m], t) : k \in 1 .. N
  BY DEF Forest
<1>7. Extends(s, d)
  <2>1. \A m \in 1 .. N : d[m].type = s[m].type /\ d[m].aux = s[m].aux
    BY <1>2, <1>3 DEF Extends
  <2>. QED
    BY <1>1, <1>3, <2>1 DEF Extends
<1>. HIDE DEF N, K
<1>8. \A m \in 1 .. Len(d) : m \in 1 .. N \/ (m - N \in 1 .. K /\ m = N + (m - N) /\ m > N)
  BY <1>1, <1>3
<1>9. \A m \in 1 .. Len(d) : NodeOk(d[m])
  <2>. SUFFICES ASSUME NEW m \in 1 .. Len(d) PROVE NodeOk(d[m])
    OBVIOUS
  <2>1. CASE m \in 1 .. N
    BY <2>1, <1>2, <1>3
  <2>2. CASE m - N \in 1 .. K /\ m = N + (m - N)
    <3>1. d[m] = new[m - N]
      BY <2>2, <1>3
    <3>. QED
      BY <3>1, <2>2, <1>5
  <2>. QED
    BY <2>1, <2>2, <1>8
<1>10. \A k \in C : k \in 1 .. Len(d) /\ k > p
  BY <1>1, <1>3
<1>11. \A t \in T : \A k \in C : Orphan(s, k, t)
  <2>. SUFFICES ASSUME NEW t \in T, NEW k \in C, NEW m \in 1 .. N, k \in KidsOf(s[m], t)
                PROVE  FALSE
    BY DEF Orphan, N
  <2>1. k \in 1 .. N
    BY <1>6
  <2>. QED
    BY <2>1, <1>1
<1>12. \A m \in 1 .. N, t \in Topologies : \A k \in KidsOf(d[m], t) :
          k \in KidsOf(s[m], t) \/ (m = p /\ t \in T /\ k \in C)
  <2>. SUFFICES ASSUME NEW m \in 1 .. N, NEW t \in Topologies, NEW k \in KidsOf(d[m], t)
                PROVE  k \in KidsOf(s[m], t) \/ (m = p /\ t \in T /\ k \in C)
    OBVIOUS
  <2>1. CASE m = p
    <3>1. d[m] = r
      BY <2>1, <1>2, <1>3
    <3>. QED
      BY <2>1, <3>1, <1>4
  <2>2. CASE m # p
    <3>1. d[m] = s[m]
      BY <2>2, <1>2, <1>3
    <3>. QED
      BY <3>1
  <2>. QED
    BY <2>1, <2>2
<1>13. \A m \in 1 .. N, t \in Topologies : SharedOf(d[m], t) = SharedOf(s[m], t)
  BY <1>2, <1>3
<1>14. \A m \in 1 .. Len(d), t \in Topologies :
          m > N => KidsOf(d[m], t) = {} /\ SharedOf(d[m], t) = {}
  <2>. SUFFICES ASSUME NEW m \in 1 .. Len(d), NEW t \in Topologies, m > N
                PROVE  KidsOf(d[m], t) = {} /\ SharedOf(d[m], t) = {}
    OBVIOUS
  <2>1. m - N \in 1 .. K /\ m = N + (m - N)
    BY <1>1, <1>8
  <2>2. d[m] = new[m - N]
    BY <2>1, <1>3
  <2>. QED
    BY <2>1, <2>2, <1>5
<1>15. Grafts(s, d, p, C, T)
  <2>. HIDE DEF C
  <2>. QED
    BY <1>3, <1>7, <1>9, <1>10, <1>11, <1>12, <1>13, <1>14 DEF Grafts, N
<1>16. Forest(d)
  BY <1>15, ForestGrafts
<1>. QED
  BY <1>3, <1>7, <1>16 DEF N, K

-----------------------------------------------------------------------------
(* The creator.  It holds the numbers of nodes that exist, and the IBs on its
   stack are never of type Chain. *)

CreatorFields ==
    {"nodes", "events", "exclude", "tracker", "ibStack", "startStack", "ibParents",
     "groupInfo", "startBin", "drawTable", "renderMarker", "newEvent", "newIb",
     "firstTile", "lastAdded", "submitNode", "ibPacket", "ibLevel"}

NodesHeld(c) ==
    /\ c.submitNode \in 1 .. Len(c.nodes)
    /\ c.startBin \in 0 .. Len(c.nodes)
    /\ c.drawTable \in 0 .. Len(c.nodes)
    /\ c.renderMarker \in 0 .. Len(c.nodes)

IbsHeld(c) ==
    /\ IsSeq(c.ibStack)
    /\ \A i \in 1 .. Len(c.ibStack) : /\ c.ibStack[i] \in 1 .. Len(c.nodes)
                                      /\ c.nodes[c.ibStack[i]].aux.type # "Chain"

Good(c) ==
    /\ DOMAIN c = CreatorFields
    /\ Forest(c.nodes)
    /\ NodesHeld(c)
    /\ IbsHeld(c)
    /\ DOMAIN c.startStack = Topologies /\ IsSeq(c.startStack["Submit"])

(* What the callbacks that do not open or close an IB leave alone. *)
SameIbs(c, d) ==
    /\ d.ibStack = c.ibStack
    /\ d.startStack["Submit"] = c.startStack["Submit"]
    /\ d.newIb = c.newIb

SameBut(c, d, F) == DOMAIN d = CreatorFields /\ \A f \in CreatorFields \ F : d[f] = c[f]

(* From c to d the nodes grew; what else changed is given. *)
LEMMA IbsStillHeld ==
    ASSUME NEW c, Good(c), NEW d, Extends(c.nodes, d.nodes), d.ibStack = c.ibStack,
           Forest(d.nodes)
    PROVE  IbsHeld(d)
<1>. DEFINE N == Len(c.nodes)
            D == Len(d.nodes)
<1>1. N \in Nat /\ D \in Nat /\ N <= D
  BY SeqFacts DEF Good, Forest, Extends
<1>2. \A n \in 1 .. N : n \in 1 .. D /\ d.nodes[n].aux = c.nodes[n].aux
  <2>1. \A n \in 1 .. N : d.nodes[n].aux = c.nodes[n].aux
    BY DEF Extends
  <2>. HIDE DEF N, D
  <2>2. \A n \in 1 .. N : n \in 1 .. D
    BY <1>1
  <2>. QED
    BY <2>1, <2>2 DEF N
<1>3. \A i \in 1 .. Len(c.ibStack) : /\ c.ibStack[i] \in 1 .. N
                                     /\ c.nodes[c.ibStack[i]].aux.type # "Chain"
  BY DEF Good, IbsHeld
<1>4. IsSeq(c.ibStack)
  BY DEF Good, IbsHeld
<1>. QED
  BY <1>2, <1>3, <1>4 DEF IbsHeld

LEMMA NodesChanged ==
    ASSUME NEW c, Good(c), NEW d, SameBut(c, d, {"nodes"}), Forest(d.nodes),
           Extends(c.nodes, d.nodes)
    PROVE  Good(d) /\ SameIbs(c, d)
<1>1. /\ d.ibStack = c.ibStack /\ d.startStack = c.startStack /\ d.newIb = c.newIb
      /\ d.submitNode = c.submitNode /\ d.startBin = c.startBin
      /\ d.drawTable = c.drawTable /\ d.renderMarker = c.renderMarker
      /\ DOMAIN d = CreatorFields
  BY DEF SameBut, CreatorFields
<1>2. IbsHeld(d)
  BY <1>1, IbsStillHeld
<1>3. NodesHeld(d)
  <2>. DEFINE N == Len(c.nodes)
              D == Len(d.nodes)
  <2>1. N \in Nat /\ D \in Nat /\ N <= D
    BY SeqFacts DEF Good, Forest, Extends
  <2>2. /\ c.submitNode \in 1 .. N /\ c.startBin \in 0 .. N
        /\ c.drawTable \in 0 .. N /\ c.renderMarker \in 0 .. N
    BY DEF Good, NodesHeld
  <2>. HIDE DEF N, D
  <2>3. /\ c.submitNode \in 1 .. D /\ c.startBin \in 0 .. D
        /\ c.drawTable \in 0 .. D /\ c.renderMarker \in 0 .. D
    BY <2>1, <2>2
  <2>. QED
    BY <1>1, <2>3 DEF NodesHeld, D
<1>. QED
  BY <1>1, <1>2, <1>3 DEF Good, SameIbs

(* Fields that the invariant does not speak of. *)
LEMMA FieldsChanged ==
    ASSUME NEW c, Good(c), NEW d, DOMAIN d = CreatorFields, d.nodes = c.nodes,
           d.ibStack = c.ibStack, d.newIb = c.newIb, DOMAIN d.startStack = Topologies,
           d.startStack["Submit"] = c.startStack["Submit"], NodesHeld(d)
    PROVE  Good(d) /\ SameIbs(c, d)
BY DEF Good, IbsHeld, SameIbs

(* From c to d only the nodes change, and the trees stay trees. *)
Grows(c, d) ==
    /\ Good(d) /\ SameIbs(c, d) /\ SameBut(c, d, {"nodes"})
    /\ Extends(c.nodes, d.nodes)

LEMMA AddNodeGood ==
    ASSUME NEW c, Good(c), NEW type, NEW aux, NEW d, d = AddNode(c, type, aux)
    PROVE  Grows(c, d) /\ NewLast(c.nodes, d.nodes, type, aux)
<1>1. d.nodes = Append(c.nodes, Node(type, aux)) /\ SameBut(c, d, {"nodes"})
  BY DEF AddNode, SameBut, Good, CreatorFields
<1>2. NewLast(c.nodes, d.nodes, type, aux)
  BY <1>1, ForestAppend DEF Good
<1>3. Good(d) /\ SameIbs(c, d)
  BY <1>1, <1>2, NodesChanged DEF NewLast
<1>. QED
  BY <1>1, <1>2, <1>3 DEF Grows, NewLast

LEMMA AddChildGood ==
    ASSUME NEW c, Good(c), NEW n \in 0 .. Len(c.nodes), NEW t \in Topologies,
           NEW k \in 1 .. Len(c.nodes), n < k, Orphan(c.nodes, k, t), NEW d,
           d = AddChild(c, t, n, k)
    PROVE  Grows(c, d) /\ Changed(c.nodes, d.nodes, {t})
<1>1. d.nodes = WithKid(c.nodes, t, n, k) /\ SameBut(c, d, {"nodes"})
  BY DEF AddChild, WithKid, SameBut, Good, CreatorFields
<1>2. Changed(c.nodes, d.nodes, {t})
  BY <1>1, ForestKid DEF Good
<1>3. Good(d) /\ SameIbs(c, d)
  BY <1>1, <1>2, NodesChanged DEF Changed
<1>. QED
  BY <1>1, <1>2, <1>3 DEF Grows, Changed

LEMMA AddSharedChildGood ==
    ASSUME NEW c, Good(c), NEW n, NEW t \in Topologies,
           NEW k \in 1 .. Len(c.nodes), c.nodes[k].type = "Packet", NEW d,
           d = AddSharedChild(c, t, n, k)
    PROVE  Grows(c, d)
<1>1. d.nodes = WithShared(c.nodes, t, n, k) /\ SameBut(c, d, {"nodes"})
  BY DEF AddSharedChild, WithShared, SameBut, Good, CreatorFields
<1>2. Changed(c.nodes, d.nodes, {})
  BY <1>1, ForestShared DEF Good
<1>3. Good(d) /\ SameIbs(c, d)
  BY <1>1, <1>2, NodesChanged DEF Changed
<1>. QED
  BY <1>1, <1>2, <1>3 DEF Grows, Changed

LEMMA ExtendsTwice ==
    ASSUME NEW r, NEW s, NEW d, IsSeq(r), IsSeq(s), IsSeq(d), Extends(r, s), Extends(s, d)
    PROVE  Extends(r, d)
<1>. DEFINE n == Len(r)
            m == Len(s)
            k == Len(d)
<1>1. n \in Nat /\ m \in Nat /\ k \in Nat /\ n <= m /\ m <= k
  BY SeqFacts DEF Extends
<1>2. /\ \A i \in 1 .. n : s[i].type = r[i].type /\ s[i].aux = r[i].aux
      /\ \A i \in 1 .. m : d[i].type = s[i].type /\ d[i].aux = s[i].aux
  BY DEF Extends
<1>. HIDE DEF n, m, k
<1>3. n <= k /\ \A i \in 1 .. n : i \in 1 .. m
  BY <1>1
<1>. QED
  BY <1>2, <1>3 DEF Extends, n, k

LEMMA GrowsTwice ==
    ASSUME NEW b, Good(b), NEW c, Grows(b, c), NEW d, Grows(c, d)
    PROVE  Grows(b, d)
<1>1. Extends(b.nodes, d.nodes)
  BY ExtendsTwice DEF Grows, Good, Forest
<1>. QED
  BY <1>1 DEF Grows, SameIbs, SameBut

LEMMA AddNodeUnderGood ==
    ASSUME NEW c, Good(c), NEW n \in 0 .. Len(c.nodes), NEW type, NEW aux, NEW d,
           d = AddNodeUnder(c, n, type, aux)
    PROVE  /\ Grows(c, d)
           /\ Len(d.nodes) = Len(c.nodes) + 1 /\ Len(c.nodes) \in Nat
<1>. DEFINE a == AddNode(c, type, aux)
            k == Len(a.nodes)
            b == AddChild(a, "Submit", n, k)
<1>1. Grows(c, a) /\ NewLast(c.nodes, a.nodes, type, aux)
  BY AddNodeGood
<1>2. d = AddChild(b, "AllEvent", n, k)
  BY DEF AddNodeUnder, LastNode
<1>. HIDE DEF a
<1>3. /\ k = Len(c.nodes) + 1 /\ Len(c.nodes) \in Nat
      /\ k \in Nat /\ k \in 1 .. k /\ n \in 0 .. k /\ n < k
  BY <1>1 DEF NewLast
<1>4. Orphan(a.nodes, k, "Submit") /\ Orphan(a.nodes, k, "AllEvent")
  BY <1>1 DEF NewLast, Topologies
<1>5. Grows(a, b) /\ Changed(a.nodes, b.nodes, {"Submit"})
  BY <1>1, <1>3, <1>4, AddChildGood DEF Grows, Topologies
<1>. HIDE DEF b
<1>6. Len(b.nodes) = k /\ Orphan(b.nodes, k, "AllEvent")
  BY <1>4, <1>5 DEF Changed, Topologies
<1>7. Grows(b, d) /\ Changed(b.nodes, d.nodes, {"AllEvent"})
  BY <1>2, <1>3, <1>5, <1>6, AddChildGood DEF Grows, Topologies
<1>8. Grows(c, b)
  BY <1>1, <1>5, GrowsTwice
<1>. QED
  BY <1>3, <1>6, <1>7, <1>8, GrowsTwice DEF Changed

(* The range of a node does not matter to the trees. *)
LEMMA SetRangeGood ==
    ASSUME NEW c, Good(c), NEW t \in Topologies, NEW n \in 1 .. Len(c.nodes), NEW first, NEW last,
           NEW d, d = SetRange(c, t, n, first, last)
    PROVE  Grows(c, d) /\ Changed(c.nodes, d.nodes, {})
<1>. DEFINE s == c.nodes
            r == [s[n] EXCEPT !.start = [s[n].start EXCEPT ![t] = first],
                              !.end = [s[n].end EXCEPT ![t] = last],
                              !.root = [s[n].root EXCEPT ![t] = c.submitNode]]
<1>1. NodeOk(s[n]) /\ Forest(s) /\ n \in DOMAIN s
  BY SeqFacts DEF Good, Forest
<1>2. d.nodes = [s EXCEPT ![n] = r] /\ SameBut(c, d, {"nodes"})
  BY <1>1 DEF SetRange, SameBut, Good, CreatorFields, NodeOk, NodeFields
<1>3. /\ DOMAIN r = NodeFields /\ r.type = s[n].type /\ r.aux = s[n].aux
      /\ r.kids = s[n].kids /\ r.shared = s[n].shared
      /\ DOMAIN r.start = Topologies /\ DOMAIN r.end = Topologies /\ DOMAIN r.root = Topologies
  BY <1>1 DEF NodeOk, NodeFields
<1>. HIDE DEF r
<1>4. /\ NodeOk(r) /\ r.type = s[n].type /\ r.aux = s[n].aux
      /\ \A u \in Topologies : KidsOf(r, u) = KidsOf(s[n], u) /\ SharedOf(r, u) = SharedOf(s[n], u)
  BY <1>1, <1>3 DEF NodeOk, KidsOf, SharedOf
<1>5. Changed(s, d.nodes, {})
  <2>. HIDE DEF s
  <2>. QED
    BY <1>1, <1>2, <1>4, ForestReplace
<1>6. Good(d) /\ SameIbs(c, d)
  BY <1>2, <1>5, NodesChanged DEF Changed
<1>. QED
  BY <1>2, <1>5, <1>6 DEF Grows, Changed

-----------------------------------------------------------------------------
(* OnIbStart and OnIbEnd. *)

LEMMA NonEmptySeq ==
    ASSUME NEW s, IsSeq(s), s # <<>>
    PROVE  Len(s) \in 1 .. Len(s) /\ Len(s) >= 1 /\ Last(s) = s[Len(s)]
<1>1. Len(s) \in Nat /\ s = [i \in 1 .. Len(s) |-> s[i]]
  BY SeqFacts
<1>2. Len(s) # 0
  BY DEF IsSeq
<1>. QED
  BY <1>1, <1>2 DEF Last

LEMMA IbParentNode ==
    ASSUME NEW c, Good(c)
    PROVE  IbParent(c) \in 1 .. Len(c.nodes)
<1>1. CASE c.ibStack = <<>>
  BY <1>1 DEF IbParent, Good, NodesHeld
<1>2. CASE c.ibStack # <<>>
  BY <1>2, NonEmptySeq DEF IbParent, Good, IbsHeld
<1>. QED
  BY <1>1, <1>2

(* The parent of the IB's packets is found; a field node may be added. *)
LEMMA PlacedGood ==
    ASSUME NEW c, Good(c), NEW level, NEW ib, NEW type, NEW d,
           d = SharedParent(IbPacketParent(c, level), level, ib, type)
    PROVE  Good(d) /\ SameIbs(c, d)
<1>. DEFINE b == IbPacketParent(c, level)
<1>1. Good(b) /\ SameIbs(c, b)
  <2>1. /\ DOMAIN b = CreatorFields /\ b.nodes = c.nodes /\ b.ibStack = c.ibStack
        /\ b.newIb = c.newIb /\ b.startStack = c.startStack
        /\ b.submitNode = c.submitNode /\ b.startBin = c.startBin
        /\ b.drawTable = c.drawTable /\ b.renderMarker = c.renderMarker
    BY DEF IbPacketParent, Good, CreatorFields
  <2>. HIDE DEF b
  <2>. QED
    BY <2>1, FieldsChanged DEF Good, NodesHeld
<1>. HIDE DEF b
<1>2. ASSUME NEW n \in 0 .. Len(b.nodes), d = FieldNodeParent(b, level, n)
      PROVE  Good(d) /\ SameIbs(b, d)
  <2>. DEFINE a == AddNodeUnder(b, n, "Field", [addr |-> <<>>])
  <2>1. Good(a) /\ SameIbs(b, a)
    BY <1>1, AddNodeUnderGood DEF Grows
  <2>2. d = [a EXCEPT !.ibParents[level] = LastNode(a)]
    BY <1>2 DEF FieldNodeParent
  <2>. HIDE DEF a
  <2>3. /\ DOMAIN d = CreatorFields /\ d.nodes = a.nodes /\ d.ibStack = a.ibStack
        /\ d.newIb = a.newIb /\ d.startStack = a.startStack
        /\ d.submitNode = a.submitNode /\ d.startBin = a.startBin
        /\ d.drawTable = a.drawTable /\ d.renderMarker = a.renderMarker
    BY <2>1, <2>2 DEF Good, CreatorFields
  <2>4. Good(d) /\ SameIbs(a, d)
    BY <2>1, <2>3, FieldsChanged DEF Good, NodesHeld
  <2>. QED
    BY <2>1, <2>4 DEF SameIbs
<1>3. b.startBin \in 0 .. Len(b.nodes) /\ b.drawTable \in 0 .. Len(b.nodes)
  BY <1>1 DEF Good, NodesHeld
<1>4. ASSUME d = [b EXCEPT !.ibParents[level] = GroupAt(b, ib)]
      PROVE  Good(d) /\ SameIbs(b, d)
  <2>1. /\ DOMAIN d = CreatorFields /\ d.nodes = b.nodes /\ d.ibStack = b.ibStack
        /\ d.newIb = b.newIb /\ d.startStack = b.startStack
        /\ d.submitNode = b.submitNode /\ d.startBin = b.startBin
        /\ d.drawTable = b.drawTable /\ d.renderMarker = b.renderMarker
    BY <1>1, <1>4 DEF Good, CreatorFields
  <2>. QED
    BY <1>1, <2>1, FieldsChanged DEF Good, NodesHeld
<1>5. \/ d = [b EXCEPT !.ibParents[level] = GroupAt(b, ib)]
      \/ d = FieldNodeParent(b, level, b.startBin)
      \/ d = FieldNodeParent(b, level, b.drawTable)
      \/ d = b
  BY DEF SharedParent, b
<1>6. Good(d) /\ SameIbs(b, d)
  BY <1>1, <1>2, <1>3, <1>4, <1>5 DEF SameIbs
<1>. QED
  BY <1>1, <1>6 DEF SameIbs

(* An IB is pushed; its first packet is to come. *)
IbOpened(c, d) ==
    /\ Good(d) /\ d.newIb = TRUE
    /\ d.startStack["Submit"] = c.startStack["Submit"]
    /\ Len(d.ibStack) = Len(c.ibStack) + 1

LEMMA OnIbStartGood ==
    ASSUME NEW c, Good(c), NEW level, NEW cur, cur.type # "Chain", NEW ibIndex, NEW d,
           d = OnIbStart(c, level, cur, ibIndex)
    PROVE  IbOpened(c, d)
<1>. DEFINE tracked == [c EXCEPT !.tracker = PushEnableMask(@, cur.mask), !.ibLevel = level]
            placed  == SharedParent(IbPacketParent(tracked, level), level, cur.ib, cur.type)
            aux     == [type |-> cur.type, index |-> ibIndex, captured |-> ~cur.skip,
                        inst |-> cur.inst, mask |-> cur.mask,
                        addr |-> <<cur.ib.buf, cur.ib.at>>]
            added   == AddNode(placed, "Ib", aux)
            n       == Len(added.nodes)
            child   == AddChild(added, "Submit", IbParent(added), n)
<1>1. d = [child EXCEPT !.ibStack = Append(@, n), !.newIb = TRUE]
  BY DEF OnIbStart, LastNode
<1>2. Good(tracked) /\ SameIbs(c, tracked)
  <2>1. /\ DOMAIN tracked = CreatorFields /\ tracked.nodes = c.nodes /\ tracked.ibStack = c.ibStack
        /\ tracked.newIb = c.newIb /\ tracked.startStack = c.startStack
        /\ tracked.submitNode = c.submitNode /\ tracked.startBin = c.startBin
        /\ tracked.drawTable = c.drawTable /\ tracked.renderMarker = c.renderMarker
    BY DEF Good, CreatorFields
  <2>. HIDE DEF tracked
  <2>. QED
    BY <2>1, FieldsChanged DEF Good, NodesHeld
<1>. HIDE DEF tracked
<1>3. Good(placed) /\ SameIbs(c, placed)
  BY <1>2, PlacedGood DEF SameIbs
<1>4. aux.type # "Chain"
  OBVIOUS
<1>. HIDE DEF placed, aux
<1>5. /\ Good(added) /\ SameIbs(placed, added) /\ n = Len(placed.nodes) + 1 /\ Len(placed.nodes) \in Nat
      /\ added.nodes[n].aux = aux /\ Orphan(added.nodes, n, "Submit")
      /\ added.ibStack = placed.ibStack /\ added.submitNode = placed.submitNode
  BY <1>3, AddNodeGood DEF Topologies, SameBut, CreatorFields, Grows, NewLast
<1>6. IbParent(added) \in 1 .. Len(placed.nodes)
  BY <1>3, <1>5, IbParentNode DEF IbParent
<1>. HIDE DEF added
<1>7. n \in Nat /\ n \in 1 .. n /\ IbParent(added) \in 0 .. n /\ IbParent(added) < n
  BY <1>5, <1>6
<1>8. Good(child) /\ SameIbs(added, child) /\ Extends(added.nodes, child.nodes) /\ Len(child.nodes) = n
  <2>1. Grows(added, child) /\ Changed(added.nodes, child.nodes, {"Submit"})
    BY <1>5, <1>7, AddChildGood DEF Topologies
  <2>. QED
    BY <2>1 DEF Grows, Changed
<1>9. child.nodes[n].aux = aux
  BY <1>5, <1>7, <1>8 DEF Extends
<1>. HIDE DEF child, n
<1>10. /\ DOMAIN d = CreatorFields /\ d.nodes = child.nodes /\ d.ibStack = Append(child.ibStack, n)
       /\ d.newIb = TRUE /\ d.startStack = child.startStack
       /\ d.submitNode = child.submitNode /\ d.startBin = child.startBin
       /\ d.drawTable = child.drawTable /\ d.renderMarker = child.renderMarker
  BY <1>1, <1>8 DEF Good, CreatorFields
<1>11. IbsHeld(d) /\ Len(d.ibStack) = Len(child.ibStack) + 1
  <2>. DEFINE s == child.ibStack
              m == Len(s)
              q == Append(s, n)
  <2>1. IsSeq(s) /\ m \in Nat
    BY <1>8, SeqFacts DEF Good, IbsHeld
  <2>2. IsSeq(q) /\ Len(q) = m + 1 /\ (\A i \in 1 .. m : q[i] = s[i]) /\ q[m + 1] = n
    BY <2>1, AppendSeq
  <2>3. \A i \in 1 .. m : s[i] \in 1 .. Len(child.nodes) /\ child.nodes[s[i]].aux.type # "Chain"
    BY <1>8 DEF Good, IbsHeld
  <2>. HIDE DEF m, q
  <2>4. \A i \in 1 .. Len(q) : i \in 1 .. m \/ i = m + 1
    BY <2>1, <2>2
  <2>5. \A i \in 1 .. Len(q) : q[i] \in 1 .. Len(child.nodes) /\ child.nodes[q[i]].aux.type # "Chain"
    BY <2>2, <2>3, <2>4, <1>4, <1>7, <1>8, <1>9
  <2>. QED
    BY <1>10, <2>2, <2>5 DEF IbsHeld, m, q
<1>12. Good(d)
  BY <1>8, <1>10, <1>11 DEF Good, NodesHeld
<1>. QED
  BY <1>3, <1>5, <1>8, <1>10, <1>11, <1>12 DEF SameIbs, IbOpened

LEMMA PrefixSeq ==
    ASSUME NEW s, IsSeq(s), NEW m \in 0 .. Len(s)
    PROVE  /\ IsSeq(SubSeq(s, 1, m)) /\ Len(SubSeq(s, 1, m)) = m
           /\ \A i \in 1 .. m : SubSeq(s, 1, m)[i] = s[i]
<1>. DEFINE n == Len(s)
            d == SubSeq(s, 1, m)
<1>1. n \in Nat /\ m \in Nat /\ m <= n
  BY SeqFacts
<1>2. d = [i \in 1 .. m |-> s[i]]
  BY <1>1 DEF IsSeq
<1>. HIDE DEF d
<1>3. \A i \in 1 .. m : d[i] = s[i]
  BY <1>2
<1>4. d = [i \in 1 .. m |-> d[i]]
  BY <1>2, <1>3
<1>5. IsSeq(d) /\ Len(d) = m
  BY <1>1, <1>4, SeqIntro
<1>. QED
  BY <1>3, <1>5 DEF d

(* No IB of the stack is of type Chain: exactly one is popped. *)
LEMMA PopIbGood ==
    ASSUME NEW c, Good(c), c.ibStack # <<>>, NEW d, d = PopIb(c)
    PROVE  /\ Good(d) /\ d.newIb = c.newIb
           /\ Len(d.ibStack) = Len(c.ibStack) - 1
           /\ SameBut(c, d, {"ibStack", "startStack"}) /\ d.ibStack = Front(c.ibStack)
           /\ \A t \in Topologies : d.startStack[t] = c.startStack[t]
<1>. DEFINE s    == c.ibStack
            n    == Len(s)
            u    == c.startStack["Submit"]
            m    == Len(u)
            keep == {0} \cup {i \in DOMAIN s : NonChainIb(c, i)}
            gone == n - Max(keep)
<1>1. IsSeq(s) /\ IsSeq(u) /\ n \in Nat /\ m \in Nat /\ DOMAIN s = 1 .. n /\ n >= 1
  BY SeqFacts, NonEmptySeq DEF Good, IbsHeld
<1>2. \A i \in 1 .. n : s[i] \in 1 .. Len(c.nodes) /\ c.nodes[s[i]].aux.type # "Chain"
  BY DEF Good, IbsHeld
<1>3. d = [c EXCEPT !.ibStack = SubSeq(s, 1, Max(keep) - 1),
                    !.startStack["Submit"] = SubSeq(u, 1, m - gone)]
  BY DEF PopIb
<1>4. \A i \in 1 .. n : NonChainIb(c, i)
  BY <1>2 DEF NonChainIb
<1>. HIDE DEF n, m
<1>5. keep = 0 .. n
  BY <1>1, <1>4
<1>6. Max(keep) = n
  <2>1. n \in keep /\ \A i \in keep : n >= i
    BY <1>1, <1>5
  <2>2. \A j \in keep : (\A i \in keep : j >= i) => j = n
    BY <1>1, <1>5, <2>1
  <2>. HIDE DEF keep
  <2>. QED
    BY <2>1, <2>2 DEF Max
<1>. HIDE DEF keep
<1>7. Max(keep) - 1 = n - 1 /\ m - gone = m
  BY <1>1, <1>6
<1>. DEFINE q == SubSeq(s, 1, n - 1)
            v == SubSeq(u, 1, m)
<1>8. /\ IsSeq(q) /\ Len(q) = n - 1 /\ (\A i \in 1 .. n - 1 : q[i] = s[i])
      /\ IsSeq(v) /\ v = u
  <2>1. n - 1 \in 0 .. n /\ m \in 0 .. m
    BY <1>1
  <2>2. /\ IsSeq(q) /\ Len(q) = n - 1 /\ (\A i \in 1 .. n - 1 : q[i] = s[i])
        /\ IsSeq(v) /\ Len(v) = m /\ (\A i \in 1 .. m : v[i] = u[i])
    BY <1>1, <2>1, PrefixSeq DEF n, m
  <2>. HIDE DEF q, v
  <2>3. v = [i \in 1 .. m |-> v[i]] /\ u = [i \in 1 .. m |-> u[i]]
    BY <1>1, <2>2, SeqFacts DEF m
  <2>4. v = u
    <3>. HIDE DEF u, m
    <3>1. [i \in 1 .. m |-> v[i]] = [i \in 1 .. m |-> u[i]]
      BY <2>2
    <3>. QED
      BY <2>3, <3>1, Zenon
  <2>. QED
    BY <2>2, <2>4
<1>9. d = [c EXCEPT !.ibStack = q, !.startStack["Submit"] = v]
  BY <1>3, <1>7
<1>. HIDE DEF q, v
<1>10. /\ DOMAIN d = CreatorFields /\ d.nodes = c.nodes /\ d.ibStack = q
       /\ d.newIb = c.newIb /\ DOMAIN d.startStack = Topologies /\ d.startStack["Submit"] = v
       /\ d.submitNode = c.submitNode /\ d.startBin = c.startBin
       /\ d.drawTable = c.drawTable /\ d.renderMarker = c.renderMarker
  BY <1>9 DEF Good, CreatorFields, Topologies
<1>11. IbsHeld(d)
  <2>1. \A i \in 1 .. n - 1 : i \in 1 .. n
    BY <1>1
  <2>. QED
    BY <1>2, <1>8, <1>10, <2>1 DEF IbsHeld
<1>12. Good(d)
  BY <1>8, <1>10, <1>11 DEF Good, NodesHeld
<1>13. SameBut(c, d, {"ibStack", "startStack"}) /\ d.startStack["AllEvent"] = c.startStack["AllEvent"]
  <2>1. DOMAIN c = CreatorFields /\ DOMAIN c.startStack = {"Submit", "AllEvent"}
    BY DEF Good, Topologies
  <2>2. \A f \in CreatorFields \ {"ibStack", "startStack"} : d[f] = c[f]
    BY <1>9, <2>1 DEF CreatorFields
  <2>3. d.startStack = [c.startStack EXCEPT !["Submit"] = v]
    BY <1>9, <2>1 DEF CreatorFields
  <2>. QED
    BY <1>10, <2>1, <2>2, <2>3 DEF SameBut
<1>14. d.ibStack = Front(c.ibStack)
  BY <1>10 DEF Front, q, n
<1>. QED
  BY <1>8, <1>10, <1>12, <1>13, <1>14 DEF n, Topologies

LEMMA OnIbEndGood ==
    ASSUME NEW c, Good(c), c.ibStack # <<>>, NEW level, NEW d, d = OnIbEnd(c, level),
           c.newIb = FALSE => Len(c.startStack["Submit"]) = Len(c.ibStack),
           c.newIb \in BOOLEAN
    PROVE  /\ Good(d) /\ d.newIb = FALSE
           /\ Len(d.ibStack) = Len(c.ibStack) - 1
           /\ Len(d.startStack["Submit"]) = IF c.newIb THEN Len(c.startStack["Submit"])
                                            ELSE Len(c.startStack["Submit"]) - 1
<1>. DEFINE popped == [c EXCEPT !.tracker = PopEnableMask(@)]
            closed == CloseIb(popped)
            last   == PopIb(closed)
            u      == c.startStack["Submit"]
            m      == Len(u)
<1>1. d = [last EXCEPT !.ibLevel = level]
  BY DEF OnIbEnd
<1>2. Good(popped) /\ SameIbs(c, popped)
  <2>1. /\ DOMAIN popped = CreatorFields /\ popped.nodes = c.nodes /\ popped.ibStack = c.ibStack
        /\ popped.newIb = c.newIb /\ popped.startStack = c.startStack
        /\ popped.submitNode = c.submitNode /\ popped.startBin = c.startBin
        /\ popped.drawTable = c.drawTable /\ popped.renderMarker = c.renderMarker
    BY DEF Good, CreatorFields
  <2>. HIDE DEF popped
  <2>. QED
    BY <2>1, FieldsChanged DEF Good, NodesHeld
<1>. HIDE DEF popped
<1>3. IsSeq(u) /\ m \in Nat
  BY SeqFacts DEF Good
<1>4. /\ Good(closed) /\ closed.newIb = FALSE /\ closed.ibStack = c.ibStack
      /\ Len(closed.startStack["Submit"]) = IF c.newIb THEN m ELSE m - 1
  <2>1. CASE c.newIb
    <3>1. closed = [popped EXCEPT !.newIb = FALSE]
      BY <2>1, <1>2 DEF CloseIb, SameIbs
    <3>2. /\ DOMAIN closed = CreatorFields /\ closed.nodes = popped.nodes
          /\ closed.ibStack = popped.ibStack
          /\ closed.newIb = FALSE /\ closed.startStack = popped.startStack
          /\ closed.submitNode = popped.submitNode /\ closed.startBin = popped.startBin
          /\ closed.drawTable = popped.drawTable /\ closed.renderMarker = popped.renderMarker
      BY <3>1, <1>2 DEF Good, CreatorFields
    <3>. QED
      BY <1>2, <2>1, <3>2 DEF Good, NodesHeld, IbsHeld, SameIbs
  <2>2. CASE c.newIb = FALSE
    <3>. DEFINE n      == Last(popped.ibStack)
                starts == popped.startStack["Submit"]
                ranged == SetRange(popped, "Submit", n, Last(starts), popped.lastAdded)
    <3>1. closed = [ranged EXCEPT !.startStack["Submit"] = Front(starts)]
      BY <2>2, <1>2 DEF CloseIb, SameIbs
    <3>2. n \in 1 .. Len(popped.nodes)
      BY <1>2, NonEmptySeq DEF Good, IbsHeld, SameIbs
    <3>3. Good(ranged) /\ SameIbs(popped, ranged)
      BY <1>2, <3>2, SetRangeGood DEF Topologies, Grows
    <3>. HIDE DEF ranged
    <3>4. IsSeq(Front(u)) /\ Len(Front(u)) = m - 1
      <4>1. m >= 1
        BY <2>2, NonEmptySeq DEF Good, IbsHeld
      <4>2. m - 1 \in 0 .. m
        BY <4>1, <1>3
      <4>. QED
        BY <1>3, <4>2, PrefixSeq DEF Front
    <3>5. starts = u
      BY <1>2 DEF SameIbs
    <3>6. /\ DOMAIN closed = CreatorFields /\ closed.nodes = ranged.nodes
          /\ closed.ibStack = ranged.ibStack /\ closed.newIb = ranged.newIb
          /\ DOMAIN closed.startStack = Topologies /\ closed.startStack["Submit"] = Front(starts)
          /\ closed.submitNode = ranged.submitNode /\ closed.startBin = ranged.startBin
          /\ closed.drawTable = ranged.drawTable /\ closed.renderMarker = ranged.renderMarker
      BY <3>1, <3>3 DEF Good, CreatorFields, Topologies
    <3>. HIDE DEF closed, starts
    <3>7. Good(closed)
      BY <3>3, <3>4, <3>5, <3>6 DEF Good, NodesHeld, IbsHeld
    <3>. QED
      BY <1>2, <2>2, <3>3, <3>4, <3>5, <3>6, <3>7 DEF SameIbs
  <2>. QED
    BY <2>1, <2>2
<1>. HIDE DEF closed, m
<1>5. /\ Good(last) /\ last.newIb = FALSE /\ Len(last.ibStack) = Len(c.ibStack) - 1
      /\ Len(last.startStack["Submit"]) = IF c.newIb THEN m ELSE m - 1
  BY <1>4, PopIbGood DEF Topologies
<1>. HIDE DEF last
<1>6. /\ DOMAIN d = CreatorFields /\ d.nodes = last.nodes /\ d.ibStack = last.ibStack
      /\ d.newIb = last.newIb /\ d.startStack = last.startStack
      /\ d.submitNode = last.submitNode /\ d.startBin = last.startBin
      /\ d.drawTable = last.drawTable /\ d.renderMarker = last.renderMarker
  BY <1>1, <1>5 DEF Good, CreatorFields
<1>7. Good(d)
  BY <1>5, <1>6, FieldsChanged DEF Good, NodesHeld
<1>. QED
  BY <1>5, <1>6, <1>7 DEF m

-----------------------------------------------------------------------------
(* OnPacket. *)

(* From c to d the trees stay trees and the stacks of the IBs are left alone. *)
Follows(c, d) == Good(d) /\ SameIbs(c, d) /\ Extends(c.nodes, d.nodes)

HasPacket(c, n) == n \in 1 .. Len(c.nodes) /\ c.nodes[n].type = "Packet"

LEMMA FollowsTwice ==
    ASSUME NEW b, Good(b), NEW c, Follows(b, c), NEW d, Follows(c, d)
    PROVE  Follows(b, d)
<1>1. Extends(b.nodes, d.nodes)
  BY ExtendsTwice DEF Follows, Good, Forest
<1>. QED
  BY <1>1 DEF Follows, SameIbs

LEMMA FieldsFollow ==
    ASSUME NEW c, Good(c), NEW d, DOMAIN d = CreatorFields, d.nodes = c.nodes,
           d.ibStack = c.ibStack, d.newIb = c.newIb, DOMAIN d.startStack = Topologies,
           d.startStack["Submit"] = c.startStack["Submit"], NodesHeld(d)
    PROVE  Follows(c, d)
<1>1. Good(d) /\ SameIbs(c, d)
  BY FieldsChanged
<1>2. Len(c.nodes) \in Nat
  BY SeqFacts DEF Good, Forest
<1>. QED
  BY <1>1, <1>2 DEF Follows, Extends

LEMMA PacketKept ==
    ASSUME NEW c, Good(c), NEW d, Follows(c, d), NEW n, HasPacket(c, n)
    PROVE  HasPacket(d, n)
<1>. DEFINE N == Len(c.nodes)
            D == Len(d.nodes)
<1>1. N \in Nat /\ D \in Nat /\ N <= D
  BY SeqFacts DEF Good, Forest, Extends, Follows
<1>2. n \in 1 .. N /\ d.nodes[n].type = "Packet"
  BY DEF HasPacket, Follows, Extends
<1>. HIDE DEF N, D
<1>3. n \in 1 .. D
  BY <1>1, <1>2
<1>. QED
  BY <1>2, <1>3 DEF HasPacket, D

LEMMA AddGroupNodesGood ==
    ASSUME NEW c, Good(c), NEW groups, IsSeq(groups), NEW n, n = Len(c.nodes), n \in 1 .. n,
           \A t \in Topologies : KidsOf(c.nodes[n], t) = {},
           NEW d, d = AddGroupNodes(c, n, groups)
    PROVE  Follows(c, d)
<1>. DEFINE s      == c.nodes
            K      == Len(groups)
            fields == [i \in DOMAIN groups |->
                          Node("Field", [addr |-> <<groups[i].ib.buf, groups[i].ib.at>>])]
            kids   == [i \in DOMAIN groups |-> n + i]
            r      == [s[n] EXCEPT !.kids = [t \in Topologies |-> kids]]
<1>1. /\ d.nodes = [s EXCEPT ![n] = r] \o fields
      /\ SameBut(c, d, {"nodes"})
  BY DEF AddGroupNodes, SameBut, Good, CreatorFields
<1>2. K \in Nat /\ DOMAIN groups = 1 .. K /\ n \in Nat
  BY SeqFacts DEF Good, Forest
<1>3. NodeOk(s[n]) /\ Forest(s)
  BY DEF Good, Forest
<1>. HIDE DEF K
<1>4. /\ IsSeq(fields) /\ Len(fields) = K
      /\ \A i \in 1 .. K : fields[i] = Node("Field", [addr |-> <<groups[i].ib.buf, groups[i].ib.at>>])
  <2>1. fields = [i \in 1 .. K |-> fields[i]]
    BY <1>2
  <2>2. IsSeq(fields) /\ Len(fields) = K
    BY <1>2, <2>1, SeqIntro
  <2>. QED
    BY <1>2, <2>2
<1>5. /\ IsSeq(kids) /\ \A k \in Range(kids) : k \in n + 1 .. n + K
  <2>1. kids = [i \in 1 .. K |-> kids[i]]
    BY <1>2
  <2>2. IsSeq(kids) /\ Len(kids) = K
    BY <1>2, <2>1, SeqIntro
  <2>3. \A k \in Range(kids) : \E i \in 1 .. K : k = n + i
    BY <1>2 DEF Range
  <2>4. \A i \in 1 .. K : n + i \in n + 1 .. n + K
    BY <1>2
  <2>. QED
    BY <2>2, <2>3, <2>4
<1>. HIDE DEF kids
<1>6. /\ \A i \in 1 .. K : NodeOk(fields[i])
      /\ \A i \in 1 .. K, t \in Topologies : KidsOf(fields[i], t) = {} /\ SharedOf(fields[i], t) = {}
  <2>. HIDE DEF fields
  <2>. SUFFICES ASSUME NEW i \in 1 .. K
                PROVE  /\ NodeOk(fields[i])
                       /\ \A t \in Topologies : KidsOf(fields[i], t) = {} /\ SharedOf(fields[i], t) = {}
    OBVIOUS
  <2>. DEFINE aux == [addr |-> <<groups[i].ib.buf, groups[i].ib.at>>]
  <2>1. fields[i] = Node("Field", aux)
    BY <1>4
  <2>. HIDE DEF aux
  <2>. QED
    BY <2>1, NewNode
<1>. HIDE DEF fields
<1>7. /\ DOMAIN r = NodeFields /\ r.type = s[n].type /\ r.aux = s[n].aux
      /\ r.kids = [t \in Topologies |-> kids] /\ r.shared = s[n].shared
      /\ r.start = s[n].start /\ r.end = s[n].end /\ r.root = s[n].root
  BY <1>3 DEF NodeOk, NodeFields
<1>. HIDE DEF r
<1>8. /\ NodeOk(r)
      /\ \A t \in Topologies : SharedOf(r, t) = SharedOf(s[n], t)
      /\ \A t \in Topologies : \A k \in KidsOf(r, t) : k \in n + 1 .. n + K
  <2>1. \A t \in Topologies : r.kids[t] = kids
    BY <1>7
  <2>2. DOMAIN r.kids = Topologies
    BY <1>7
  <2>. QED
    BY <1>3, <1>5, <1>7, <2>1, <2>2 DEF NodeOk, SharedOf, KidsOf
<1>9. Forest(d.nodes) /\ Extends(s, d.nodes)
  <2>1. n = Len(s) /\ n \in 1 .. Len(s)
    OBVIOUS
  <2>2. \A t \in Topologies : \A k \in KidsOf(r, t) :
            k \in KidsOf(s[n], t) \/ (t \in Topologies /\ k \in Len(s) + 1 .. Len(s) + Len(fields))
    BY <1>4, <1>8, <2>1
  <2>3. /\ \A i \in 1 .. Len(fields) : NodeOk(fields[i])
        /\ \A i \in 1 .. Len(fields), t \in Topologies :
              KidsOf(fields[i], t) = {} /\ SharedOf(fields[i], t) = {}
    BY <1>4, <1>6
  <2>. DEFINE e == d.nodes
              T == Topologies
  <2>4. e = [s EXCEPT ![n] = r] \o fields /\ T \subseteq Topologies
    BY <1>1
  <2>5. \A t \in Topologies : \A k \in KidsOf(r, t) :
            k \in KidsOf(s[n], t) \/ (t \in T /\ k \in Len(s) + 1 .. Len(s) + Len(fields))
    BY <2>2
  <2>. HIDE DEF s, e, T
  <2>6. Forest(e) /\ Extends(s, e)
    BY <1>3, <1>4, <1>7, <1>8, <2>1, <2>3, <2>4, <2>5, ForestBlock
  <2>. QED
    BY <2>6 DEF e
<1>. QED
  BY <1>1, <1>9, NodesChanged DEF Follows

LEMMA AddPacketNodeGood ==
    ASSUME NEW c, Good(c), NEW p, p.op = "drawState" => IsSeq(p.groups), NEW insts, NEW d,
           d = AddPacketNode(c, p, insts)
    PROVE  Follows(c, d) /\ HasPacket(d, Len(c.nodes) + 1)
<1>. DEFINE aux == [op |-> p.op, level |-> c.ibLevel, insts |-> insts]
            a   == AddNode(c, "Packet", aux)
            n   == Len(a.nodes)
<1>1. /\ Good(a) /\ Follows(c, a) /\ n = Len(c.nodes) + 1 /\ Len(c.nodes) \in Nat
      /\ a.nodes[n].type = "Packet"
      /\ a.nodes = Append(c.nodes, Node("Packet", aux))
  <2>1. a.nodes = Append(c.nodes, Node("Packet", aux))
    BY DEF AddNode, Good, CreatorFields
  <2>. QED
    BY <2>1, AddNodeGood DEF Follows, Grows, NewLast
<1>2. \A t \in Topologies : KidsOf(a.nodes[n], t) = {}
  <2>1. a.nodes[n] = Node("Packet", aux)
    BY <1>1, AppendSeq DEF Good, Forest
  <2>. QED
    BY <2>1, NewNode
<1>3. d = IF p.op = "drawState" THEN AddGroupNodes(a, n, p.groups) ELSE a
  BY DEF AddPacketNode, LastNode
<1>. HIDE DEF a
<1>4. n \in 1 .. n /\ HasPacket(a, n)
  BY <1>1 DEF HasPacket
<1>5. CASE p.op = "drawState"
  <2>1. Follows(a, d)
    <3>1. d = AddGroupNodes(a, n, p.groups) /\ IsSeq(p.groups)
      BY <1>3, <1>5
    <3>. QED
      BY <1>1, <1>2, <1>4, <3>1, AddGroupNodesGood
  <2>. QED
    BY <1>1, <1>4, <2>1, FollowsTwice, PacketKept
<1>6. CASE p.op # "drawState"
  BY <1>1, <1>3, <1>4, <1>6
<1>. QED
  BY <1>5, <1>6

LEMMA AttachSharedFollows ==
    ASSUME NEW c, Good(c), NEW n, HasPacket(c, n), NEW t \in Topologies, NEW m, NEW d,
           d = AddSharedChild(c, t, m, n)
    PROVE  Follows(c, d) /\ HasPacket(d, n)
<1>1. Follows(c, d)
  BY AddSharedChildGood DEF HasPacket, Follows, Grows
<1>. QED
  BY <1>1, PacketKept

LEMMA AttachPacketGood ==
    ASSUME NEW c, Good(c), NEW n, HasPacket(c, n), NEW d, d = AttachPacket(c, n)
    PROVE  Follows(c, d) /\ HasPacket(d, n)
<1>. DEFINE parent == c.ibParents[c.ibLevel]
            b      == AddSharedChild(c, "Submit", parent, n)
<1>1. d = AddSharedChild(b, "AllEvent", parent, n)
  BY DEF AttachPacket
<1>2. "Submit" \in Topologies /\ "AllEvent" \in Topologies
  BY DEF Topologies
<1>. HIDE DEF parent
<1>3. Follows(c, b) /\ HasPacket(b, n)
  BY <1>2, AttachSharedFollows
<1>. HIDE DEF b
<1>4. Follows(b, d) /\ HasPacket(d, n)
  BY <1>1, <1>2, <1>3, AttachSharedFollows DEF Follows
<1>. QED
  BY <1>3, <1>4, FollowsTwice

LEMMA AttachToPassGood ==
    ASSUME NEW c, Good(c), NEW n, HasPacket(c, n), NEW d, d = AttachToPass(c, n)
    PROVE  Follows(c, d)
<1>1. CASE c.renderMarker = NoNode
  <2>1. d = c
    BY <1>1 DEF AttachToPass
  <2>2. Len(c.nodes) \in Nat
    BY SeqFacts DEF Good, Forest
  <2>. QED
    BY <2>1, <2>2 DEF Follows, SameIbs, Extends
<1>2. CASE c.renderMarker # NoNode
  BY <1>2, AttachSharedFollows DEF AttachToPass, Topologies
<1>. QED
  BY <1>1, <1>2

(* The packet that begins an IB is pushed when it is the first of the IB. *)
LEMMA PushStartsGood ==
    ASSUME NEW c, Good(c), NEW n, NEW d, d = PushStarts(c, n)
    PROVE  /\ Good(d) /\ d.nodes = c.nodes /\ d.ibStack = c.ibStack /\ d.newIb = FALSE
           /\ Len(d.startStack["Submit"]) = IF c.newIb THEN Len(c.startStack["Submit"]) + 1
                                            ELSE Len(c.startStack["Submit"])
<1>. DEFINE u == c.startStack["Submit"]
            v == IF c.newIb THEN Append(u, n) ELSE u
<1>1. IsSeq(u)
  BY DEF Good
<1>2. IsSeq(v) /\ Len(v) = IF c.newIb THEN Len(u) + 1 ELSE Len(u)
  BY <1>1, AppendSeq
<1>3. /\ DOMAIN d = CreatorFields /\ d.nodes = c.nodes /\ d.ibStack = c.ibStack
      /\ d.newIb = FALSE /\ DOMAIN d.startStack = Topologies
      /\ d.submitNode = c.submitNode /\ d.startBin = c.startBin
      /\ d.drawTable = c.drawTable /\ d.renderMarker = c.renderMarker
  BY DEF PushStarts, Good, CreatorFields
<1>4. d.startStack["Submit"] = v
  BY DEF PushStarts, Good, CreatorFields, Topologies
<1>. HIDE DEF v
<1>5. Good(d)
  BY <1>2, <1>3, <1>4 DEF Good, NodesHeld, IbsHeld
<1>. QED
  BY <1>2, <1>3, <1>4, <1>5

(* A node is added and becomes a child, of the pass or of the submit. *)
LEMMA AddEventGood ==
    ASSUME NEW c, Good(c), NEW n, NEW d, d = AddEvent(c, n)
    PROVE  Follows(c, d)
<1>. DEFINE parent == IF c.renderMarker # NoNode THEN c.renderMarker ELSE c.submitNode
            aux    == [id |-> Len(c.events), packet |-> n]
            added  == AddNode(c, "Event", aux)
            e      == Len(added.nodes)
            starts == c.startStack["AllEvent"]
            ranged == SetRange(added, "AllEvent", e, Last(starts), n)
            child  == AddChild(ranged, "AllEvent", parent, e)
<1>1. d = [child EXCEPT !.events = Append(@, e), !.newEvent = TRUE,
                        !.startStack["AllEvent"] = Front(starts)]
  BY DEF AddEvent, LastNode
<1>2. parent \in 1 .. Len(c.nodes) \/ parent \in 0 .. Len(c.nodes)
  BY DEF Good, NodesHeld
<1>3. "AllEvent" \in Topologies
  BY DEF Topologies
<1>. HIDE DEF aux, parent, starts
<1>4. /\ Good(added) /\ Follows(c, added) /\ e = Len(c.nodes) + 1 /\ Len(c.nodes) \in Nat
      /\ Orphan(added.nodes, e, "AllEvent")
  BY <1>3, AddNodeGood DEF Follows, Grows, NewLast
<1>. HIDE DEF added
<1>5. e \in Nat /\ e \in 1 .. e /\ parent \in 0 .. e /\ parent < e
  BY <1>2, <1>4
<1>6. /\ Good(ranged) /\ Follows(added, ranged) /\ Len(ranged.nodes) = e
      /\ Orphan(ranged.nodes, e, "AllEvent")
  <2>1. Grows(added, ranged) /\ Changed(added.nodes, ranged.nodes, {})
    BY <1>3, <1>4, <1>5, SetRangeGood
  <2>. QED
    BY <1>3, <1>4, <2>1 DEF Follows, Grows, Changed
<1>. HIDE DEF ranged, e
<1>7. Good(child) /\ Follows(ranged, child)
  BY <1>3, <1>5, <1>6, AddChildGood DEF Follows, Grows
<1>. HIDE DEF child
<1>8. Follows(child, d)
  <2>1. /\ DOMAIN d = CreatorFields /\ d.nodes = child.nodes /\ d.ibStack = child.ibStack
        /\ d.newIb = child.newIb /\ DOMAIN d.startStack = Topologies
        /\ d.startStack["Submit"] = child.startStack["Submit"]
        /\ d.submitNode = child.submitNode /\ d.startBin = child.startBin
        /\ d.drawTable = child.drawTable /\ d.renderMarker = child.renderMarker
    BY <1>1, <1>7 DEF Good, CreatorFields, Topologies
  <2>2. NodesHeld(d)
    BY <1>7, <2>1 DEF Good, NodesHeld
  <2>. QED
    BY <1>7, <2>1, <2>2, FieldsFollow
<1>9. Follows(c, ranged)
  BY <1>4, <1>6, FollowsTwice
<1>10. Follows(c, child)
  BY <1>7, <1>9, FollowsTwice
<1>. QED
  BY <1>8, <1>10, FollowsTwice

LEMMA CloseRenderMarkerGood ==
    ASSUME NEW c, Good(c), NEW d, d = CloseRenderMarker(c)
    PROVE  Follows(c, d) /\ d.submitNode = c.submitNode /\ Len(d.nodes) = Len(c.nodes)
<1>. DEFINE starts == Front(c.startStack["AllEvent"])
            ranged == SetRange(c, "AllEvent", c.renderMarker, Last(starts), c.lastAdded)
<1>1. CASE c.renderMarker = NoNode
  <2>1. d = c
    BY <1>1 DEF CloseRenderMarker
  <2>2. Len(c.nodes) \in Nat
    BY SeqFacts DEF Good, Forest
  <2>. QED
    BY <2>1, <2>2 DEF Follows, SameIbs, Extends
<1>2. CASE c.renderMarker # NoNode
  <2>1. d = [ranged EXCEPT !.startStack["AllEvent"] = Front(starts)]
    BY <1>2 DEF CloseRenderMarker
  <2>2. c.renderMarker \in 1 .. Len(c.nodes)
    BY <1>2 DEF Good, NodesHeld, NoNode
  <2>3. Good(ranged) /\ Follows(c, ranged) /\ Len(ranged.nodes) = Len(c.nodes)
        /\ ranged.submitNode = c.submitNode
    BY <2>2, SetRangeGood DEF Follows, Grows, Changed, Topologies, SameBut, CreatorFields
  <2>. HIDE DEF ranged
  <2>4. /\ DOMAIN d = CreatorFields /\ d.nodes = ranged.nodes /\ d.ibStack = ranged.ibStack
        /\ d.newIb = ranged.newIb /\ DOMAIN d.startStack = Topologies
        /\ d.startStack["Submit"] = ranged.startStack["Submit"]
        /\ d.submitNode = ranged.submitNode /\ d.startBin = ranged.startBin
        /\ d.drawTable = ranged.drawTable /\ d.renderMarker = ranged.renderMarker
    BY <2>1, <2>3 DEF Good, CreatorFields, Topologies
  <2>5. NodesHeld(d)
    BY <2>3, <2>4 DEF Good, NodesHeld
  <2>6. Follows(ranged, d)
    BY <2>3, <2>4, <2>5, FieldsFollow
  <2>. QED
    BY <2>3, <2>4, <2>6, FollowsTwice
<1>. QED
  BY <1>1, <1>2

LEMMA AddRenderMarkerGood ==
    ASSUME NEW c, Good(c), NEW kind, NEW n, NEW d, d = AddRenderMarker(c, kind, n)
    PROVE  Follows(c, d)
<1>. DEFINE closed == CloseRenderMarker(c)
            aux    == [kind |-> kind, packet |-> n]
            added  == AddNode(closed, "RenderMarker", aux)
            e      == Len(added.nodes)
            marked == [added EXCEPT !.renderMarker = e]
            opened == FilterPass(marked, kind)
            child  == AddChild(opened, "AllEvent", c.submitNode, e)
<1>1. d = [child EXCEPT !.startStack["AllEvent"] = Append(@, n), !.newEvent = TRUE]
  BY DEF AddRenderMarker, LastNode
<1>2. "AllEvent" \in Topologies /\ c.submitNode \in 1 .. Len(c.nodes)
  BY DEF Topologies, Good, NodesHeld
<1>3. Follows(c, closed) /\ Len(closed.nodes) = Len(c.nodes)
  BY CloseRenderMarkerGood
<1>. HIDE DEF closed, aux
<1>4. /\ Good(added) /\ Follows(closed, added) /\ e = Len(c.nodes) + 1 /\ Len(c.nodes) \in Nat
      /\ Orphan(added.nodes, e, "AllEvent")
  BY <1>2, <1>3, AddNodeGood DEF Follows, Grows, NewLast
<1>5. e \in Nat /\ e \in 1 .. e /\ e \in 0 .. e /\ c.submitNode \in 0 .. e /\ c.submitNode < e
  BY <1>2, <1>4
<1>. HIDE DEF added
<1>6. Good(opened) /\ Follows(added, opened) /\ opened.nodes = added.nodes
  <2>1. /\ DOMAIN opened = CreatorFields /\ opened.nodes = added.nodes
        /\ opened.ibStack = added.ibStack
        /\ opened.newIb = added.newIb /\ opened.startStack = added.startStack
        /\ opened.submitNode = added.submitNode /\ opened.startBin = added.startBin
        /\ opened.drawTable = added.drawTable /\ opened.renderMarker = e
    BY <1>4 DEF FilterPass, Good, CreatorFields
  <2>. HIDE DEF opened
  <2>2. NodesHeld(opened)
    BY <1>4, <1>5, <2>1 DEF Good, NodesHeld
  <2>3. Follows(added, opened)
    BY <1>4, <2>1, <2>2, FieldsFollow DEF Good
  <2>. QED
    BY <2>1, <2>3 DEF Follows
<1>. HIDE DEF opened
<1>7. Good(child) /\ Follows(opened, child)
  BY <1>2, <1>4, <1>5, <1>6, AddChildGood DEF Follows, Grows
<1>. HIDE DEF child
<1>8. Follows(child, d)
  <2>1. /\ DOMAIN d = CreatorFields /\ d.nodes = child.nodes /\ d.ibStack = child.ibStack
        /\ d.newIb = child.newIb /\ DOMAIN d.startStack = Topologies
        /\ d.startStack["Submit"] = child.startStack["Submit"]
        /\ d.submitNode = child.submitNode /\ d.startBin = child.startBin
        /\ d.drawTable = child.drawTable /\ d.renderMarker = child.renderMarker
    BY <1>1, <1>7 DEF Good, CreatorFields, Topologies
  <2>2. NodesHeld(d)
    BY <1>7, <2>1 DEF Good, NodesHeld
  <2>. QED
    BY <1>7, <2>1, <2>2, FieldsFollow
<1>9. Follows(c, added)
  BY <1>3, <1>4, FollowsTwice
<1>10. Follows(c, opened)
  BY <1>6, <1>9, FollowsTwice
<1>11. Follows(c, child)
  BY <1>7, <1>10, FollowsTwice
<1>. QED
  BY <1>8, <1>11, FollowsTwice

LEMMA HandlePacketGood ==
    ASSUME NEW c, Good(c), NEW p, NEW n, HasPacket(c, n), NEW d, d = HandlePacket(c, p, n)
    PROVE  Follows(c, d)
<1>1. CASE d = AddEvent(c, n)
  BY <1>1, AddEventGood
<1>2. CASE \E kind : d = AddRenderMarker(c, kind, n)
  BY <1>2, AddRenderMarkerGood
<1>3. CASE \/ d = [c EXCEPT !.ibPacket = n]
           \/ d = [c EXCEPT !.startBin = n]
           \/ d = [c EXCEPT !.startBin = NoNode]
           \/ d = [c EXCEPT !.drawTable = n]
           \/ d = c
  <2>1. Len(c.nodes) \in Nat
    BY SeqFacts DEF Good, Forest
  <2>2. n \in 0 .. Len(c.nodes) /\ NoNode \in 0 .. Len(c.nodes)
    BY <2>1 DEF HasPacket, NoNode
  <2>3. /\ DOMAIN d = CreatorFields /\ d.nodes = c.nodes /\ d.ibStack = c.ibStack
        /\ d.newIb = c.newIb /\ d.startStack = c.startStack
        /\ d.submitNode = c.submitNode /\ d.renderMarker = c.renderMarker
        /\ d.startBin \in {c.startBin, n, NoNode} /\ d.drawTable \in {c.drawTable, n}
    BY <1>3 DEF Good, CreatorFields
  <2>4. NodesHeld(d)
    BY <2>2, <2>3 DEF Good, NodesHeld
  <2>. QED
    BY <2>3, <2>4, FieldsFollow DEF Good
<1>. QED
  BY <1>1, <1>2, <1>3 DEF HandlePacket

(* A type 2 packet is ignored; the first of the others begins the IB. *)
PacketSeen(c, p, d) ==
    /\ Good(d) /\ d.ibStack = c.ibStack
    /\ p.op = "type2" => d = c
    /\ p.op # "type2" => /\ d.newIb = FALSE
                         /\ Len(d.startStack["Submit"]) =
                               IF c.newIb THEN Len(c.startStack["Submit"]) + 1
                               ELSE Len(c.startStack["Submit"])

LEMMA OnPacketGood ==
    ASSUME NEW c, Good(c), c.newIb \in BOOLEAN, NEW p, p.op = "drawState" => IsSeq(p.groups),
           NEW insts, NEW d, d = OnPacket(c, p, insts)
    PROVE  PacketSeen(c, p, d)
<1>. DEFINE n       == LastNode(c) + 1
            tracked == [c EXCEPT !.tracker = TrackPacket(@, p, n)]
            node    == AddPacketNode(tracked, p, insts)
            pushed  == PushStarts(node, n)
            added   == AttachPacket(pushed, n)
            cached  == IF p.op = "drawState" THEN CacheSetDrawStateGroupInfo(added, p, n) ELSE added
            handled == HandlePacket(cached, p, n)
            passed  == AttachToPass(handled, n)
<1>1. d = IF p.op = "type2" THEN c ELSE [passed EXCEPT !.lastAdded = n]
  BY DEF OnPacket
<1>. SUFFICES ASSUME p.op # "type2"
              PROVE  /\ Good(d) /\ d.ibStack = c.ibStack /\ d.newIb = FALSE
                     /\ Len(d.startStack["Submit"]) =
                            IF c.newIb THEN Len(c.startStack["Submit"]) + 1
                            ELSE Len(c.startStack["Submit"])
  BY <1>1 DEF PacketSeen
<1>2. Good(tracked) /\ SameIbs(c, tracked) /\ n = Len(tracked.nodes) + 1
  <2>1. /\ DOMAIN tracked = CreatorFields /\ tracked.nodes = c.nodes /\ tracked.ibStack = c.ibStack
        /\ tracked.newIb = c.newIb /\ tracked.startStack = c.startStack
        /\ tracked.submitNode = c.submitNode /\ tracked.startBin = c.startBin
        /\ tracked.drawTable = c.drawTable /\ tracked.renderMarker = c.renderMarker
    BY DEF Good, CreatorFields
  <2>2. n = Len(tracked.nodes) + 1
    BY <2>1 DEF LastNode
  <2>. HIDE DEF tracked
  <2>. QED
    BY <2>1, <2>2, FieldsChanged DEF Good, NodesHeld
<1>. HIDE DEF tracked, n
<1>3. Good(node) /\ SameIbs(c, node) /\ HasPacket(node, n)
  BY <1>2, AddPacketNodeGood DEF Follows, SameIbs
<1>. HIDE DEF node
<1>4. /\ Good(pushed) /\ HasPacket(pushed, n) /\ pushed.ibStack = c.ibStack /\ pushed.newIb = FALSE
      /\ Len(pushed.startStack["Submit"]) = IF c.newIb THEN Len(c.startStack["Submit"]) + 1
                                            ELSE Len(c.startStack["Submit"])
  <2>1. pushed = PushStarts(node, n)
    OBVIOUS
  <2>. HIDE DEF pushed
  <2>2. /\ Good(pushed) /\ pushed.nodes = node.nodes /\ pushed.ibStack = node.ibStack
        /\ pushed.newIb = FALSE
        /\ Len(pushed.startStack["Submit"]) = IF node.newIb THEN Len(node.startStack["Submit"]) + 1
                                              ELSE Len(node.startStack["Submit"])
    BY <1>3, <2>1, PushStartsGood
  <2>. QED
    BY <1>3, <2>2 DEF SameIbs, HasPacket
<1>. HIDE DEF pushed
<1>5. Good(added) /\ SameIbs(pushed, added) /\ HasPacket(added, n)
  BY <1>4, AttachPacketGood DEF Follows
<1>. HIDE DEF added
<1>6. Good(cached) /\ SameIbs(added, cached) /\ HasPacket(cached, n)
  <2>1. /\ DOMAIN cached = CreatorFields /\ cached.nodes = added.nodes
        /\ cached.ibStack = added.ibStack
        /\ cached.newIb = added.newIb /\ cached.startStack = added.startStack
        /\ cached.submitNode = added.submitNode /\ cached.startBin = added.startBin
        /\ cached.drawTable = added.drawTable /\ cached.renderMarker = added.renderMarker
    BY <1>5 DEF CacheSetDrawStateGroupInfo, Good, CreatorFields
  <2>. HIDE DEF cached
  <2>. QED
    BY <1>5, <2>1, FieldsChanged DEF Good, NodesHeld, HasPacket
<1>. HIDE DEF cached
<1>7. Good(handled) /\ SameIbs(cached, handled) /\ HasPacket(handled, n)
  <2>1. Follows(cached, handled)
    BY <1>6, HandlePacketGood
  <2>. QED
    BY <1>6, <2>1, PacketKept DEF Follows
<1>. HIDE DEF handled
<1>8. Good(passed) /\ SameIbs(handled, passed)
  BY <1>7, AttachToPassGood DEF Follows
<1>. HIDE DEF passed
<1>9. /\ DOMAIN d = CreatorFields /\ d.nodes = passed.nodes /\ d.ibStack = passed.ibStack
      /\ d.newIb = passed.newIb /\ d.startStack = passed.startStack
      /\ d.submitNode = passed.submitNode /\ d.startBin = passed.startBin
      /\ d.drawTable = passed.drawTable /\ d.renderMarker = passed.renderMarker
  BY <1>1, <1>8 DEF Good, CreatorFields
<1>10. Good(d)
  BY <1>8, <1>9, FieldsChanged DEF Good, NodesHeld
<1>. QED
  BY <1>4, <1>5, <1>6, <1>7, <1>8, <1>9, <1>10 DEF SameIbs

-----------------------------------------------------------------------------
(* OnSubmitStart and OnSubmitEnd. *)

LEMMA NewCreatorGood ==
    /\ Good(NewCreator) /\ NewCreator.newIb = TRUE
    /\ NewCreator.ibStack = <<>> /\ NewCreator.startStack["Submit"] = <<>>
<1>. DEFINE r == Node("Root", [id |-> 0])
            s == <<r>>
<1>1. /\ NodeOk(r)
      /\ \A t \in Topologies : KidsOf(r, t) = {} /\ SharedOf(r, t) = {}
  BY NewNode
<1>. HIDE DEF r
<1>2. IsSeq(s) /\ Len(s) = 1 /\ s[1] = r
  <2>1. s \in Seq({r})
    OBVIOUS
  <2>. QED
    BY <2>1, TypedSeq
<1>. HIDE DEF s
<1>3. \A n \in 1 .. Len(s) : s[n] = r /\ n = 1
  BY <1>2
<1>4. Forest(s)
  BY <1>1, <1>2, <1>3 DEF Forest
<1>5. /\ DOMAIN NewCreator = CreatorFields /\ NewCreator.nodes = s
      /\ NewCreator.ibStack = <<>> /\ DOMAIN NewCreator.startStack = Topologies
      /\ NewCreator.startStack["Submit"] = <<>> /\ NewCreator.newIb = TRUE
      /\ NewCreator.submitNode = 1 /\ NewCreator.startBin = 0
      /\ NewCreator.drawTable = 0 /\ NewCreator.renderMarker = 0
  BY DEF NewCreator, CreatorFields, Topologies, kRootNodeIndex, NoNode, s, r
<1>6. NodesHeld(NewCreator)
  <2>. DEFINE N == Len(NewCreator.nodes)
  <2>1. N = 1
    BY <1>2, <1>5
  <2>. HIDE DEF N
  <2>2. 1 \in 1 .. N /\ 0 \in 0 .. N
    BY <2>1
  <2>. QED
    BY <1>5, <2>2 DEF NodesHeld, N
<1>7. IbsHeld(NewCreator)
  BY <1>5, EmptySequence DEF IbsHeld
<1>. QED
  BY <1>4, <1>5, <1>6, <1>7, EmptySequence DEF Good

Started(d) ==
    /\ Good(d) /\ d.newIb = TRUE
    /\ d.ibStack = <<>> /\ d.startStack["Submit"] = <<>>

LEMMA OnSubmitStartGood ==
    ASSUME NEW c, Good(c), NEW submit, NEW d, d = OnSubmitStart(c, submit)
    PROVE  Started(d)
<1>. DEFINE a == AddNodeUnder(c, kRootNodeIndex, "Submit", [index |-> submit])
            n == Len(a.nodes)
            s == a.nodes
            r == [s[n] EXCEPT !.root = [t \in Topologies |-> n]]
<1>1. kRootNodeIndex \in 0 .. Len(c.nodes)
  <2>1. c.submitNode \in 1 .. Len(c.nodes) /\ Len(c.nodes) \in Nat
    BY SeqFacts DEF Good, NodesHeld, Forest
  <2>. QED
    BY <2>1 DEF kRootNodeIndex
<1>2. Good(a) /\ n = Len(c.nodes) + 1 /\ Len(c.nodes) \in Nat
  BY <1>1, AddNodeUnderGood DEF Grows
<1>3. /\ DOMAIN d = CreatorFields /\ d.nodes = [s EXCEPT ![n] = r] /\ d.ibStack = <<>>
      /\ d.newIb = TRUE /\ DOMAIN d.startStack = Topologies /\ d.startStack["Submit"] = <<>>
      /\ d.submitNode = n /\ d.startBin = a.startBin
      /\ d.drawTable = a.drawTable /\ d.renderMarker = 0
  <2>. DEFINE e == [s EXCEPT ![n] = r]
              w == [t \in Topologies |-> <<>>]
              b == [a EXCEPT !.nodes = e, !.submitNode = n, !.ibLevel = 1, !.ibParents[1] = n]
              f == [b EXCEPT !.ibPacket = NoNode, !.ibStack = <<>>,
                             !.startStack = w, !.renderMarker = NoNode]
              g == [f EXCEPT !.tracker.reg = [i \in Passes |-> NoNode], !.tracker.pass = "none"]
  <2>1. d = [g EXCEPT !.newEvent = TRUE, !.newIb = TRUE, !.firstTile = FALSE]
    BY DEF OnSubmitStart, LastNode
  <2>2. DOMAIN a = CreatorFields
    BY <1>2 DEF Good
  <2>. HIDE DEF a, n, s, r, e, w
  <2>3. /\ DOMAIN b = CreatorFields /\ b.nodes = e /\ b.submitNode = n
        /\ b.startBin = a.startBin /\ b.drawTable = a.drawTable
    BY <2>2 DEF CreatorFields
  <2>. HIDE DEF b
  <2>4. /\ DOMAIN f = CreatorFields /\ f.nodes = b.nodes /\ f.ibStack = <<>>
        /\ f.submitNode = b.submitNode /\ f.startBin = b.startBin
        /\ f.drawTable = b.drawTable /\ f.startStack = w /\ f.renderMarker = 0
    BY <2>3 DEF CreatorFields, NoNode
  <2>. HIDE DEF f
  <2>5. /\ DOMAIN g = CreatorFields /\ g.nodes = f.nodes /\ g.ibStack = f.ibStack
        /\ g.submitNode = f.submitNode /\ g.startBin = f.startBin
        /\ g.drawTable = f.drawTable /\ g.startStack = f.startStack
        /\ g.renderMarker = f.renderMarker
    BY <2>4 DEF CreatorFields
  <2>. HIDE DEF g
  <2>6. /\ DOMAIN d = CreatorFields /\ d.nodes = g.nodes /\ d.ibStack = g.ibStack
        /\ d.submitNode = g.submitNode /\ d.startBin = g.startBin
        /\ d.drawTable = g.drawTable /\ d.startStack = g.startStack
        /\ d.renderMarker = g.renderMarker /\ d.newIb = TRUE
    BY <2>1, <2>5 DEF CreatorFields
  <2>7. DOMAIN w = Topologies /\ w["Submit"] = <<>>
    BY DEF w, Topologies
  <2>. QED
    BY <2>3, <2>4, <2>5, <2>6, <2>7 DEF e
<1>. HIDE DEF a
<1>4. n \in 1 .. n /\ 0 \in 0 .. n
  BY <1>2
<1>5. Forest(s) /\ NodeOk(s[n])
  BY <1>2, <1>4 DEF Good, Forest
<1>6. /\ DOMAIN r = NodeFields /\ r.type = s[n].type /\ r.aux = s[n].aux
      /\ r.kids = s[n].kids /\ r.shared = s[n].shared
      /\ r.start = s[n].start /\ r.end = s[n].end /\ DOMAIN r.root = Topologies
  BY <1>5 DEF NodeOk, NodeFields
<1>. HIDE DEF r
<1>7. /\ NodeOk(r)
      /\ \A t \in Topologies : KidsOf(r, t) = KidsOf(s[n], t) /\ SharedOf(r, t) = SharedOf(s[n], t)
  BY <1>5, <1>6 DEF NodeOk, KidsOf, SharedOf
<1>8. Forest(d.nodes) /\ Len(d.nodes) = n
  <2>1. n \in 1 .. Len(s) /\ Len(s) = n
    BY <1>4
  <2>2. d.nodes = [s EXCEPT ![n] = r]
    BY <1>3
  <2>. HIDE DEF s, n
  <2>3. n \in 1 .. Len(s) =>
            /\ NodeOk(r) /\ r.type = s[n].type /\ r.aux = s[n].aux
            /\ \A t \in Topologies : /\ KidsOf(r, t) = KidsOf(s[n], t)
                                     /\ SharedOf(r, t) = SharedOf(s[n], t)
    BY <1>6, <1>7
  <2>4. Changed(s, d.nodes, {})
    BY <1>5, <2>2, <2>3, ForestReplace
  <2>. QED
    BY <2>1, <2>4 DEF Changed
<1>9. NodesHeld(d)
  BY <1>2, <1>3, <1>4, <1>8 DEF NodesHeld, Good
<1>10. IbsHeld(d)
  BY <1>3, EmptySequence DEF IbsHeld
<1>. QED
  BY <1>3, <1>8, <1>9, <1>10, EmptySequence DEF Good, Started

LEMMA SetIbsGood ==
    ASSUME NEW c, Good(c), NEW ibs \in SortedIbs(c), NEW d, d = SetIbs(c, ibs)
    PROVE  Grows(c, d)
<1>. DEFINE s   == c.nodes
            n   == c.submitNode
            old == s[n].kids["Submit"]
            r   == [s[n] EXCEPT !.kids = [s[n].kids EXCEPT !["Submit"] = ibs]]
<1>1. n \in 1 .. Len(s) /\ Forest(s) /\ NodeOk(s[n]) /\ "Submit" \in Topologies
  BY Zenon DEF Good, NodesHeld, Forest, Topologies
<1>2. IsSeq(old)
  BY <1>1 DEF NodeOk
<1>3. IsSeq(ibs) /\ Range(ibs) = Range(old)
  <2>1. ibs \in [DOMAIN old -> Range(old)] /\ Range(ibs) = Range(old)
    BY DEF SortedIbs
  <2>2. DOMAIN old = 1 .. Len(old) /\ Len(old) \in Nat
    BY <1>2, SeqFacts
  <2>. HIDE DEF old
  <2>3. ibs = [i \in 1 .. Len(old) |-> ibs[i]]
    BY <2>1, <2>2
  <2>. QED
    BY <2>1, <2>2, <2>3, SeqIntro
<1>4. d.nodes = [s EXCEPT ![n] = r] /\ SameBut(c, d, {"nodes"})
  BY DEF SetIbs, SameBut, Good, CreatorFields
<1>5. /\ NodeOk(r) /\ r.type = s[n].type /\ r.aux = s[n].aux
      /\ KidsOf(r, "Submit") = Range(ibs)
      /\ \A u \in Topologies : u # "Submit" => KidsOf(r, u) = KidsOf(s[n], u)
      /\ \A u \in Topologies : SharedOf(r, u) = SharedOf(s[n], u)
  BY <1>1, <1>3, NodeWithKids
<1>6. \A u \in Topologies : KidsOf(r, u) = KidsOf(s[n], u) /\ SharedOf(r, u) = SharedOf(s[n], u)
  <2>1. KidsOf(s[n], "Submit") = Range(old)
    BY DEF KidsOf
  <2>. HIDE DEF r, old
  <2>. QED
    BY <1>3, <1>5, <2>1
<1>. HIDE DEF r
<1>7. Changed(s, d.nodes, {})
  <2>. HIDE DEF s, n
  <2>. QED
    BY <1>1, <1>4, <1>5, <1>6, ForestReplace
<1>. QED
  BY <1>4, <1>7, NodesChanged DEF Grows, Changed

LEMMA AddPresentsGood ==
    ASSUME NEW c, Good(c), NEW number \in Nat, NEW d, d = AddPresents(c, number)
    PROVE  Grows(c, d)
<1>. DEFINE s    == c.nodes
            N    == Len(s)
            new  == [i \in 1 .. number |-> Node("Present", [id |-> 0])]
            kids == [i \in 1 .. number |-> N + i]
            old  == s[1].kids["AllEvent"]
            q    == old \o kids
            r    == [s[1] EXCEPT !.kids = [s[1].kids EXCEPT !["AllEvent"] = q]]
            T    == {"AllEvent"}
<1>1. N \in Nat /\ 1 \in 1 .. N
  <2>1. N \in Nat /\ c.submitNode \in 1 .. N
    BY SeqFacts DEF Good, NodesHeld, Forest
  <2>. QED
    BY <2>1
<1>2. Forest(s) /\ NodeOk(s[1]) /\ "AllEvent" \in Topologies /\ IsSeq(old) /\ T \subseteq Topologies
  BY <1>1 DEF Good, Forest, NodeOk, Topologies
<1>3. d.nodes = [s EXCEPT ![1] = r] \o new /\ SameBut(c, d, {"nodes"})
  <2>1. d = [c EXCEPT !.nodes = [s EXCEPT ![1] = r] \o new]
    BY <1>2 DEF AddPresents, kRootNodeIndex, LastNode, Good, CreatorFields
  <2>. HIDE DEF new, r
  <2>. QED
    BY <2>1 DEF SameBut, Good, CreatorFields
<1>. HIDE DEF N
<1>4. IsSeq(new) /\ Len(new) = number /\ IsSeq(kids) /\ Len(kids) = number
  <2>1. new = [i \in 1 .. number |-> new[i]] /\ kids = [i \in 1 .. number |-> kids[i]]
    OBVIOUS
  <2>. HIDE DEF new, kids
  <2>. QED
    BY <2>1, SeqIntro
<1>5. \A i \in 1 .. number : kids[i] = N + i /\ new[i] = Node("Present", [id |-> 0])
  OBVIOUS
<1>. HIDE DEF new, kids
<1>6. IsSeq(q) /\ \A k \in Range(q) : k \in Range(old) \/ k \in N + 1 .. N + number
  <2>. DEFINE m == Len(old)
  <2>1. m \in Nat
    BY <1>2, SeqFacts
  <2>2. /\ IsSeq(q) /\ Len(q) = m + number
        /\ \A i \in 1 .. m : q[i] = old[i]
        /\ \A i \in 1 .. number : q[m + i] = kids[i]
    <3>. HIDE DEF old
    <3>1. /\ IsSeq(q) /\ Len(q) = Len(old) + Len(kids)
          /\ \A i \in 1 .. Len(old) : q[i] = old[i]
          /\ \A i \in 1 .. Len(kids) : q[Len(old) + i] = kids[i]
      <4>1. IsSeq(old) /\ IsSeq(kids)
        BY <1>2, <1>4
      <4>. QED
        BY <4>1, ConcatSeq
    <3>. HIDE DEF q
    <3>. QED
      BY <1>4, <3>1
  <2>3. \A i \in 1 .. m : old[i] \in Range(old)
    BY <1>2, SeqFacts
  <2>4. DOMAIN q = 1 .. m + number
    BY <2>2, SeqFacts
  <2>. HIDE DEF m, q, old
  <2>5. \A i \in DOMAIN q : i \in 1 .. m \/ (i - m \in 1 .. number /\ i = m + (i - m))
    BY <2>1, <2>4
  <2>6. \A i \in 1 .. number : N + i \in N + 1 .. N + number
    BY <1>1
  <2>7. \A i \in DOMAIN q : q[i] \in Range(old) \/ q[i] \in N + 1 .. N + number
    BY <1>5, <2>2, <2>3, <2>5, <2>6
  <2>. QED
    BY <2>2, <2>7 DEF Range
<1>. HIDE DEF q
<1>7. /\ NodeOk(r) /\ r.type = s[1].type /\ r.aux = s[1].aux
      /\ KidsOf(r, "AllEvent") = Range(q)
      /\ \A u \in Topologies : u # "AllEvent" => KidsOf(r, u) = KidsOf(s[1], u)
      /\ \A u \in Topologies : SharedOf(r, u) = SharedOf(s[1], u)
  BY <1>2, <1>6, NodeWithKids
<1>8. KidsOf(s[1], "AllEvent") = Range(old)
  BY DEF KidsOf
<1>. HIDE DEF r, old
<1>9. \A u \in Topologies : \A k \in KidsOf(r, u) :
          k \in KidsOf(s[1], u) \/ (u \in T /\ k \in N + 1 .. N + number)
  BY <1>6, <1>7, <1>8
<1>10. /\ \A i \in 1 .. number : NodeOk(new[i])
       /\ \A i \in 1 .. number, t \in Topologies : KidsOf(new[i], t) = {} /\ SharedOf(new[i], t) = {}
  <2>. DEFINE aux == [id |-> 0]
  <2>1. \A i \in 1 .. number : new[i] = Node("Present", aux)
    BY <1>5
  <2>. HIDE DEF aux
  <2>. QED
    BY <2>1, NewNode
<1>11. Forest(d.nodes) /\ Extends(s, d.nodes)
  <2>. DEFINE e == d.nodes
              p == 1
  <2>1. /\ e = [s EXCEPT ![p] = r] \o new /\ p \in 1 .. Len(s) /\ N = Len(s)
        /\ r.type = s[p].type /\ r.aux = s[p].aux
        /\ \A u \in Topologies : SharedOf(r, u) = SharedOf(s[p], u)
    BY <1>1, <1>3, <1>7 DEF N
  <2>2. \A u \in Topologies : \A k \in KidsOf(r, u) :
            k \in KidsOf(s[p], u) \/ (u \in T /\ k \in Len(s) + 1 .. Len(s) + Len(new))
    BY <1>4, <1>9 DEF N
  <2>3. /\ \A i \in 1 .. Len(new) : NodeOk(new[i])
        /\ \A i \in 1 .. Len(new), t \in Topologies :
              KidsOf(new[i], t) = {} /\ SharedOf(new[i], t) = {}
    BY <1>4, <1>10
  <2>. HIDE DEF s, e, p, T
  <2>4. Forest(e) /\ Extends(s, e)
    BY <1>2, <1>4, <1>7, <2>1, <2>2, <2>3, ForestBlock
  <2>. QED
    BY <2>4 DEF e
<1>. QED
  BY <1>3, <1>11, NodesChanged DEF Grows

LEMMA OnSubmitEndGood ==
    ASSUME NEW c, Good(c), NEW submit, NEW presents, IsSeq(presents), NEW ibs \in SortedIbs(c),
           NEW d, d = OnSubmitEnd(c, submit, presents, ibs)
    PROVE  Good(d) /\ SameIbs(c, d)
<1>. DEFINE P == {i \in DOMAIN presents : presents[i] = submit}
            b == SetIbs(c, ibs)
<1>1. Cardinality(P) \in Nat
  <2>1. DOMAIN presents = 1 .. Len(presents) /\ Len(presents) \in Nat
    BY SeqFacts
  <2>2. IsFiniteSet(DOMAIN presents)
    BY <2>1, FS_Interval
  <2>3. P \subseteq DOMAIN presents
    OBVIOUS
  <2>. HIDE DEF P
  <2>. QED
    BY <2>2, <2>3, FS_Subset, FS_CardinalityType
<1>2. d = AddPresents(b, Cardinality(P))
  BY DEF OnSubmitEnd
<1>3. Grows(c, b)
  BY SetIbsGood
<1>. HIDE DEF b, P
<1>4. Grows(b, d)
  BY <1>1, <1>2, <1>3, AddPresentsGood DEF Grows
<1>. QED
  BY <1>3, <1>4, GrowsTwice DEF Grows

-----------------------------------------------------------------------------
(* The invariant.  Above the primary ring there are at most as many levels as
   IBs on the creator's stack (chained IBs stay on it).  The first packet of
   every IB is on the other stack, unless the IB was just entered: then the
   emulator has to leave it, or to emulate a packet of it, before it enters the
   next. *)

Levels == Len(emu.stack) - 1
Ibs    == Len(creator.ibStack)
Starts == Len(creator.startStack["Submit"])

Heights ==
    /\ creator.newIb \in BOOLEAN
    /\ Levels <= Ibs
    /\ creator.newIb = FALSE => Starts = Ibs
    /\ creator.newIb = TRUE /\ Ibs = 0 => Starts = 0
    /\ creator.newIb = TRUE /\ Ibs > 0 => Starts = Ibs - 1 /\ emu.pc # "enter"

HierarchyInv == EmuInv /\ Good(creator) /\ Heights

LEMMA Lengths ==
    ASSUME EmuInv, Good(creator)
    PROVE  /\ Ibs \in Nat /\ Starts \in Nat /\ Levels \in Nat /\ (AtRing <=> Levels = 0)
           /\ Ibs # 0 => creator.ibStack # <<>>
<1>1. IsSeq(creator.ibStack) /\ IsSeq(creator.startStack["Submit"])
  BY DEF Good, IbsHeld
<1>2. Len(emu.stack) \in Nat /\ Len(emu.stack) >= 1
  BY TopOfStack DEF EmuInv
<1>. QED
  BY <1>1, <1>2, SeqFacts, EmptySequence DEF Ibs, Starts, Levels, AtRing

LEMMA InitHierarchy == Init => HierarchyInv
<1>. SUFFICES ASSUME Init PROVE HierarchyInv
  OBVIOUS
<1>1. EmuInv /\ Levels = 0
  <2>1. Len(<<Ring>>) = 1
    OBVIOUS
  <2>. QED
    BY <2>1, InitEmu DEF Init, EmuInit, Levels
<1>2. Good(creator) /\ creator.newIb = TRUE /\ Ibs = 0 /\ Starts = 0
  BY NewCreatorGood, EmptySequence DEF Init, Ibs, Starts
<1>. HIDE DEF Ibs, Starts, Levels
<1>3. creator.newIb \in BOOLEAN /\ creator.newIb # FALSE
  BY <1>2
<1>4. Levels <= Ibs /\ ~(Ibs > 0)
  BY <1>1, <1>2
<1>. QED
  BY <1>1, <1>2, <1>3, <1>4, Zenon DEF HierarchyInv, Heights

LEMMA StartSubmitHierarchy == ASSUME HierarchyInv, StartSubmit PROVE HierarchyInv'
<1>1. EmuInv'
  BY SubmitStartEmu DEF HierarchyInv, StartSubmit
<1>2. Levels' = 0
  <2>1. \E level : emu'.stack = <<level>>
    BY DEF StartSubmit, SubmitStart, HierarchyInv, EmuInv, EmuFields
  <2>. QED
    BY <2>1 DEF Levels
<1>3. /\ Good(creator') /\ creator'.newIb = TRUE
      /\ creator'.ibStack = <<>> /\ creator'.startStack["Submit"] = <<>>
  <2>1. Good(creator) /\ creator' = OnSubmitStart(creator, emu.submit)
    BY DEF HierarchyInv, StartSubmit
  <2>2. Started(creator')
    BY <2>1, OnSubmitStartGood
  <2>. QED
    BY <2>2 DEF Started
<1>4. Ibs' = 0 /\ Starts' = 0
  BY <1>3, EmptySequence DEF Ibs, Starts
<1>5. Good(creator)'
  BY <1>3
<1>. HIDE DEF Ibs, Starts, Levels
<1>6. creator'.newIb \in BOOLEAN /\ creator'.newIb # FALSE
  BY <1>3
<1>7. Levels' <= Ibs' /\ ~(Ibs' > 0)
  BY <1>2, <1>4
<1>. QED
  BY <1>1, <1>4, <1>5, <1>6, <1>7, Zenon DEF HierarchyInv, Heights

LEMMA EmulatePacketHierarchy == ASSUME HierarchyInv, EmulatePacket PROVE HierarchyInv'
<1>. DEFINE p == CurPacket
            d == creator'
<1>1. EmuInv'
  BY PacketEmu DEF HierarchyInv, EmulatePacket
<1>2. /\ Levels' = Levels
      /\ emu'.pc \in {"failed", "enter", "check"}
      /\ p.op = "type2" => emu'.pc # "enter"
      /\ emu.pc = "packet"
  <2>1. \E level : emu'.stack = [emu.stack EXCEPT ![Len(emu.stack)] = level]
    BY DEF EmulatePacket, Packet, HierarchyInv, EmuInv, EmuFields
  <2>2. Len(emu'.stack) = Len(emu.stack)
    <3>1. PICK level : emu'.stack = [emu.stack EXCEPT ![Len(emu.stack)] = level]
      BY <2>1
    <3>. DEFINE s == emu.stack
                e == emu'.stack
                n == Len(s)
    <3>2. n \in Nat /\ DOMAIN s = 1 .. n
      BY SeqFacts DEF HierarchyInv, EmuInv, StackOk
    <3>3. DOMAIN e = DOMAIN s
      BY <3>1
    <3>4. IsSeq(e)
      BY <1>1 DEF EmuInv, StackOk
    <3>5. Len(e) \in Nat /\ DOMAIN e = 1 .. Len(e)
      BY <3>4, SeqFacts
    <3>. HIDE DEF s, e, n
    <3>6. Len(e) = n
      BY <3>2, <3>3, <3>5
    <3>. QED
      BY <3>6 DEF s, e, n
  <2>3. p.op = "type2" => ~Enters(p)
    BY DEF Enters, IsIbPacket
  <2>. QED
    BY <2>2, <2>3 DEF EmulatePacket, Packet, HierarchyInv, EmuInv, EmuFields, Levels
<1>3. p.op = "drawState" => IsSeq(p.groups)
  BY <1>2, PacketInCapture DEF HierarchyInv
<1>4. d = OnPacket(creator, p, Insts(emu.stack))
  BY DEF EmulatePacket
<1>5. Good(creator) /\ creator.newIb \in BOOLEAN
  BY DEF HierarchyInv, Heights
<1>6. ~AtRing
  BY <1>2 DEF HierarchyInv, EmuInv
<1>. DEFINE insts == Insts(emu.stack)
<1>. HIDE DEF p, d, insts
<1>7. PacketSeen(creator, p, d)
  BY <1>3, <1>4, <1>5, OnPacketGood DEF insts
<1>8. /\ Good(creator)' /\ Ibs' = Ibs
      /\ p.op = "type2" => creator'.newIb = creator.newIb /\ Starts' = Starts
      /\ p.op # "type2" => /\ creator'.newIb = FALSE
                           /\ Starts' = IF creator.newIb THEN Starts + 1 ELSE Starts
  BY <1>7 DEF Ibs, Starts, d, PacketSeen
<1>9. Ibs \in Nat /\ Starts \in Nat /\ Levels \in Nat /\ (AtRing <=> Levels = 0)
  BY Lengths DEF HierarchyInv
<1>. HIDE DEF Ibs, Starts, Levels
<1>10. Levels <= Ibs
  BY DEF HierarchyInv, Heights
<1>11. Ibs > 0
  BY <1>6, <1>9, <1>10
<1>12. Heights'
  <2>1. CASE p.op = "type2"
    BY <1>2, <1>8, <1>9, <1>11, <2>1 DEF HierarchyInv, Heights
  <2>2. CASE p.op # "type2"
    <3>1. creator.newIb = TRUE => Starts' = Ibs
      BY <1>8, <1>9, <1>11, <2>2 DEF HierarchyInv, Heights
    <3>2. creator.newIb = FALSE => Starts' = Ibs
      BY <1>8, <2>2 DEF HierarchyInv, Heights
    <3>3. Levels' <= Ibs'
      BY <1>2, <1>8 DEF HierarchyInv, Heights
    <3>. QED
      BY <1>5, <1>8, <2>2, <3>1, <3>2, <3>3 DEF Heights
  <2>. QED
    BY <2>1, <2>2
<1>. QED
  BY <1>1, <1>8, <1>12 DEF HierarchyInv

(* An IB is entered, by a call or a chain. *)
LEMMA EnteredHeights ==
    ASSUME HierarchyInv, EmuInv', emu.pc = "enter", emu'.pc = "check",
           Levels' <= Ibs + 1,
           Good(creator'), creator'.newIb = TRUE, Starts' = Starts, Ibs' = Ibs + 1
    PROVE  HierarchyInv'
<1>1. Ibs \in Nat /\ Starts \in Nat /\ Levels \in Nat /\ (AtRing <=> Levels = 0)
  BY Lengths DEF HierarchyInv
<1>. HIDE DEF Ibs, Starts, Levels
<1>2. Starts = Ibs
  BY <1>1 DEF HierarchyInv, Heights
<1>3. Ibs' \in Nat /\ Ibs' # 0 /\ Starts' = Ibs' - 1 /\ Levels' <= Ibs'
  BY <1>1, <1>2
<1>4. creator'.newIb \in BOOLEAN /\ creator'.newIb # FALSE
  OBVIOUS
<1>5. emu'.pc # "enter"
  OBVIOUS
<1>6. Good(creator)'
  OBVIOUS
<1>. QED
  BY <1>3, <1>4, <1>5, <1>6, Zenon DEF HierarchyInv, Heights

LEMMA CallIbHierarchy == ASSUME HierarchyInv, CallIb PROVE HierarchyInv'
<1>. DEFINE cur   == Top(emu'.stack)
            index == emu'.ibIndex
            level == Len(emu.stack)
<1>1. EmuInv' /\ LevelOk(cur) /\ Len(emu'.stack) = Len(emu.stack) + 1
  BY EnterIbEmu DEF HierarchyInv, CallIb
<1>0. Levels \in Nat /\ Levels' = Levels + 1
  BY <1>1, TopOfStack DEF HierarchyInv, EmuInv, Levels
<1>2. emu.pc = "enter" /\ emu'.pc = "check"
  BY DEF CallIb, EnterIb, HierarchyInv, EmuInv, EmuFields
<1>3. creator' = OnIbStart(creator, level, cur, index)
  BY DEF CallIb
<1>4. cur.type # "Chain"
  BY <1>1 DEF LevelOk
<1>5. Ibs \in Nat /\ Levels <= Ibs
  BY Lengths DEF HierarchyInv, Heights
<1>. DEFINE d == creator'
<1>. HIDE DEF cur, index, level, d
<1>6. IbOpened(creator, d)
  BY <1>3, <1>4, OnIbStartGood DEF HierarchyInv, d
<1>7. Good(creator') /\ creator'.newIb = TRUE /\ Starts' = Starts /\ Ibs' = Ibs + 1
  BY <1>6 DEF d, Starts, Ibs, IbOpened
<1>. HIDE DEF Starts, Ibs, Levels
<1>8. Levels' <= Ibs + 1
  BY <1>0, <1>5
<1>. QED
  BY <1>1, <1>2, <1>7, <1>8, EnteredHeights

LEMMA FollowChainHierarchy == ASSUME HierarchyInv, FollowChain PROVE HierarchyInv'
<1>. DEFINE cur   == Top(emu'.stack)
            index == emu.ibIndex
            level == Len(emu.stack) - 1
<1>1. EmuInv' /\ cur.type # "Chain" /\ Len(emu'.stack) = Len(emu.stack)
  BY ChainIbEmu DEF HierarchyInv, FollowChain
<1>0. Levels \in Nat /\ Levels' = Levels
  BY <1>1, TopOfStack DEF HierarchyInv, EmuInv, Levels
<1>2. emu.pc = "enter" /\ emu'.pc = "check"
  BY DEF FollowChain, ChainIb, HierarchyInv, EmuInv, EmuFields
<1>3. creator' = OnIbStart(creator, level, cur, index)
  BY DEF FollowChain
<1>5. Ibs \in Nat /\ Levels <= Ibs
  BY Lengths DEF HierarchyInv, Heights
<1>. DEFINE d == creator'
<1>. HIDE DEF cur, index, level, d
<1>6. IbOpened(creator, d)
  BY <1>1, <1>3, OnIbStartGood DEF HierarchyInv, d
<1>7. Good(creator') /\ creator'.newIb = TRUE /\ Starts' = Starts /\ Ibs' = Ibs + 1
  BY <1>6 DEF d, Starts, Ibs, IbOpened
<1>. HIDE DEF Starts, Ibs, Levels
<1>8. Levels' <= Ibs + 1
  BY <1>0, <1>5
<1>. QED
  BY <1>1, <1>2, <1>7, <1>8, EnteredHeights

LEMMA ReturnFromIbHierarchy == ASSUME HierarchyInv, ReturnFromIb PROVE HierarchyInv'
<1>. DEFINE level == Len(emu.stack) - 2
            d     == creator'
<1>1. EmuInv' /\ Len(emu'.stack) = Len(emu.stack) - 1 /\ Len(emu.stack) # 1
  BY LeaveIbEmu DEF HierarchyInv, ReturnFromIb
<1>0. Levels # 0 /\ Levels' = Levels - 1
  BY <1>1, TopOfStack DEF HierarchyInv, EmuInv, Levels
<1>2. d = OnIbEnd(creator, level)
  BY DEF ReturnFromIb
<1>3. /\ Ibs \in Nat /\ Starts \in Nat /\ Levels \in Nat /\ (AtRing <=> Levels = 0)
      /\ Ibs # 0 => creator.ibStack # <<>>
  BY Lengths DEF HierarchyInv
<1>4. Ibs > 0
  <2>. HIDE DEF Ibs, Levels
  <2>1. Levels <= Ibs
    BY DEF HierarchyInv, Heights
  <2>. QED
    BY <1>0, <1>3, <2>1
<1>5. /\ Good(creator) /\ creator.ibStack # <<>> /\ creator.newIb \in BOOLEAN
      /\ creator.newIb = FALSE => Len(creator.startStack["Submit"]) = Len(creator.ibStack)
  BY <1>3, <1>4 DEF HierarchyInv, Heights, Ibs, Starts
<1>. HIDE DEF level, d
<1>6. /\ Good(d) /\ d.newIb = FALSE
      /\ Len(d.ibStack) = Len(creator.ibStack) - 1
      /\ Len(d.startStack["Submit"]) = IF creator.newIb THEN Len(creator.startStack["Submit"])
                                       ELSE Len(creator.startStack["Submit"]) - 1
  BY <1>2, <1>5, OnIbEndGood
<1>7. /\ Good(creator)' /\ creator'.newIb = FALSE /\ Ibs' = Ibs - 1
      /\ Starts' = IF creator.newIb THEN Starts ELSE Starts - 1
  BY <1>6 DEF d, Ibs, Starts
<1>. HIDE DEF Ibs, Starts, Levels
<1>8. Starts' = Ibs'
  <2>1. CASE creator.newIb = TRUE
    BY <1>3, <1>4, <1>7, <2>1 DEF HierarchyInv, Heights
  <2>2. CASE creator.newIb = FALSE
    BY <1>3, <1>4, <1>7, <2>2 DEF HierarchyInv, Heights
  <2>. QED
    BY <1>5, <2>1, <2>2
<1>9. Levels' <= Ibs'
  BY <1>0, <1>3, <1>7 DEF HierarchyInv, Heights
<1>. QED
  BY <1>1, <1>7, <1>8, <1>9 DEF HierarchyInv, Heights

(* The emulator moves on without entering or leaving an IB. *)
LEMMA KeptHeights ==
    ASSUME HierarchyInv, EmuInv', emu'.stack = emu.stack, emu'.pc # "enter",
           Good(creator'), SameIbs(creator, creator')
    PROVE  HierarchyInv'
BY DEF HierarchyInv, Heights, Ibs, Starts, Levels, SameIbs

LEMMA EndSubmitHierarchy == ASSUME HierarchyInv, EndSubmit PROVE HierarchyInv'
<1>1. EmuInv' /\ emu'.stack = emu.stack
  BY OtherEmu DEF HierarchyInv, EndSubmit
<1>2. emu'.pc # "enter"
  BY DEF EndSubmit, SubmitEnd, HierarchyInv, EmuInv, EmuFields
<1>3. PICK ibs \in SortedIbs(creator) :
          creator' = OnSubmitEnd(creator, emu.submit, capture.presents, ibs)
  BY DEF EndSubmit
<1>4. Good(creator) /\ IsSeq(capture.presents)
  BY CapturesAssumption DEF HierarchyInv, EmuInv
<1>. DEFINE submit   == emu.submit
            presents == capture.presents
<1>. HIDE DEF submit, presents
<1>5. Good(creator') /\ SameIbs(creator, creator')
  BY <1>3, <1>4, OnSubmitEndGood DEF submit, presents
<1>. QED
  BY <1>1, <1>2, <1>5, KeptHeights

LEMMA OtherHierarchy == ASSUME HierarchyInv, Internal PROVE HierarchyInv'
<1>1. EmuInv' /\ emu'.stack = emu.stack
  BY OtherEmu DEF HierarchyInv, Internal
<1>2. emu'.pc # "enter"
  BY DEF Internal, BadPacket, NothingQueued, MisplacedChain, StayInIb, AllSubmitsDone,
         HierarchyInv, EmuInv, EmuFields
<1>3. Good(creator') /\ SameIbs(creator, creator')
  BY DEF Internal, HierarchyInv, SameIbs
<1>. QED
  BY <1>1, <1>2, <1>3, KeptHeights

LEMMA StutterHierarchy == ASSUME HierarchyInv, UNCHANGED vars PROVE HierarchyInv'
<1>1. UNCHANGED <<capture, emu, creator>>
  BY DEF vars, emuVars
<1>2. EmuInv'
  BY <1>1 DEF HierarchyInv, EmuInv, StackOk, LevelOk, IsValid, AtRing, CurIb, EndOfCurIb
<1>. QED
  BY <1>1, <1>2 DEF HierarchyInv, Heights, Ibs, Starts, Levels

(* The invariant is kept by every step of the emulator and the callback it makes. *)
THEOREM Invariance == Spec => []HierarchyInv
<1>1. Init => HierarchyInv
  BY InitHierarchy
<1>2. HierarchyInv /\ [Next]_vars => HierarchyInv'
  <2>. SUFFICES ASSUME HierarchyInv, [Next]_vars PROVE HierarchyInv'
    OBVIOUS
  <2>1. CASE StartSubmit
    BY <2>1, StartSubmitHierarchy
  <2>2. CASE EmulatePacket
    BY <2>2, EmulatePacketHierarchy
  <2>3. CASE CallIb
    BY <2>3, CallIbHierarchy
  <2>4. CASE FollowChain
    BY <2>4, FollowChainHierarchy
  <2>5. CASE ReturnFromIb
    BY <2>5, ReturnFromIbHierarchy
  <2>6. CASE EndSubmit
    BY <2>6, EndSubmitHierarchy
  <2>7. CASE Internal
    BY <2>7, OtherHierarchy
  <2>8. CASE Returned
    BY <2>8, StutterHierarchy DEF Returned
  <2>9. CASE UNCHANGED vars
    BY <2>9, StutterHierarchy
  <2>. QED
    BY <2>1, <2>2, <2>3, <2>4, <2>5, <2>6, <2>7, <2>8, <2>9 DEF Next
<1>. QED
  BY <1>1, <1>2, PTL DEF Spec

(* Whatever the command buffers call, chain to or queue, ExecuteSubmit only reads
   packets of memory that is in the capture. *)
THEOREM ReadsCapturedHolds == Spec => []ReadsCaptured
<1>1. HierarchyInv => ReadsCaptured
  <2>. SUFFICES ASSUME HierarchyInv, emu.pc = "packet"
                PROVE  /\ CurIb.ib.buf \in DOMAIN capture.mem \ capture.lost
                       /\ CurIb.va \in DOMAIN capture.mem[CurIb.ib.buf]
    BY DEF ReadsCaptured
  <2>1. IsValid(CurIb.ib) /\ CurIb.va \in DOMAIN capture.mem[CurIb.ib.buf]
    BY PacketInCapture DEF HierarchyInv
  <2>. QED
    BY <2>1 DEF IsValid
<1>. QED
  BY <1>1, Invariance, PTL

(* What OnIbEnd asserts holds whenever the emulator calls it, with and without
   chains, skipped IBs and IBs that have no packets. *)
THEOREM IbStacksAgreeHolds == Spec => []IbStacksAgree
<1>1. HierarchyInv => IbStacksAgree
  <2>. SUFFICES ASSUME HierarchyInv, ~AtRing
                PROVE  /\ creator.ibStack # <<>>
                       /\ ~creator.newIb => Starts = Ibs
    BY DEF IbStacksAgree, Starts, Ibs
  <2>1. /\ Ibs \in Nat /\ Levels \in Nat /\ (AtRing <=> Levels = 0)
        /\ Ibs # 0 => creator.ibStack # <<>>
    BY Lengths DEF HierarchyInv
  <2>2. Levels <= Ibs
    BY DEF HierarchyInv, Heights
  <2>3. creator.newIb \in BOOLEAN /\ (creator.newIb = FALSE => Starts = Ibs)
    BY DEF HierarchyInv, Heights
  <2>. HIDE DEF Ibs, Starts, Levels
  <2>4. Ibs # 0
    BY <2>1, <2>2
  <2>. QED
    BY <2>1, <2>3, <2>4
<1>. QED
  BY <1>1, Invariance, PTL

LEMMA AtMostOne ==
    ASSUME NEW S, \A m, n \in S : m = n
    PROVE  Cardinality(S) <= 1
<1>1. CASE S = {}
  BY <1>1, FS_EmptySet
<1>2. CASE S # {}
  <2>1. PICK m : m \in S
    BY <1>2
  <2>2. S = {m}
    BY <2>1
  <2>3. Cardinality({m}) = 1
    BY FS_Singleton
  <2>. QED
    BY <2>2, <2>3
<1>. QED
  BY <1>1, <1>2

(* Whatever the command buffers hold, the lists of children that CreateTopologies
   turns into trees are forests, and only packets are shared. *)
THEOREM TopologiesWellFormedHolds == Spec => []TopologiesWellFormed
<1>1. HierarchyInv => TopologiesWellFormed
  <2>. SUFFICES ASSUME HierarchyInv PROVE TopologiesWellFormed
    OBVIOUS
  <2>. DEFINE s == creator.nodes
  <2>1. Forest(s)
    BY DEF HierarchyInv, Good
  <2>2. Nodes = 1 .. Len(s)
    BY <2>1, SeqFacts DEF Forest, Nodes
  <2>3. \A t \in Topologies : \A n \in Nodes :
            Cardinality({m \in Nodes : n \in Range(s[m].kids[t])}) <= 1
    <3>. SUFFICES ASSUME NEW t \in Topologies, NEW n \in Nodes
                  PROVE  Cardinality({m \in Nodes : n \in Range(s[m].kids[t])}) <= 1
      OBVIOUS
    <3>1. \A j, m \in 1 .. Len(s) : n \in KidsOf(s[j], t) /\ n \in KidsOf(s[m], t) => j = m
      BY <2>1, <2>2 DEF Forest
    <3>. DEFINE S == {m \in Nodes : n \in Range(s[m].kids[t])}
    <3>2. \A j, m \in S : j = m
      BY <2>2, <3>1 DEF KidsOf
    <3>. HIDE DEF S
    <3>3. Cardinality(S) <= 1
      BY <3>2, AtMostOne
    <3>. QED
      BY <3>3 DEF S
  <2>4. \A m \in Nodes, t \in Topologies : \A n \in Range(s[m].kids[t]) : n > m
    BY <2>1, <2>2 DEF Forest, KidsOf
  <2>5. \A m \in Nodes, t \in Topologies : Range(s[m].shared[t]) \subseteq NodesOf("Packet")
    BY <2>1, <2>2 DEF Forest, SharedOf, NodesOf
  <2>. QED
    BY <2>3, <2>4, <2>5 DEF TopologiesWellFormed
<1>. QED
  BY <1>1, Invariance, PTL

-----------------------------------------------------------------------------
(* What the nodes say, next to how they hang together: the range of a node in
   the topology t and, of a pass, its children.  Most steps only add nodes. *)

SameIn(r, q, t) ==
    /\ q.start[t] = r.start[t] /\ q.end[t] = r.end[t] /\ q.root[t] = r.root[t]
    /\ t = "AllEvent" /\ r.type = "RenderMarker" => q.kids[t] = r.kids[t]

Kept(s, d, t) ==
    /\ Extends(s, d)
    /\ \A n \in 1 .. Len(s) : SameIn(s[n], d[n], t)

(* The nodes that d has and s has not are of the types T. *)
AddsOnly(s, d, T) == \A n \in 1 .. Len(d) : n > Len(s) => d[n].type \in T

(* The fields that the ranges of the topology t are computed from. *)
RangeFields(t) ==
    IF t = "Submit" THEN {"tracker", "submitNode", "lastAdded", "ibStack", "newIb"}
    ELSE {"submitNode", "lastAdded", "newEvent", "renderMarker", "startBin", "drawTable"}

SameFields(c, d, t) ==
    /\ \A f \in RangeFields(t) : d[f] = c[f]
    /\ d.startStack[t] = c.startStack[t]

Builds(c, d, T, t) ==
    /\ Good(d) /\ SameFields(c, d, t)
    /\ Kept(c.nodes, d.nodes, t) /\ AddsOnly(c.nodes, d.nodes, T)

LEMMA GoodNodes ==
    ASSUME NEW c, Good(c)
    PROVE  IsSeq(c.nodes) /\ Len(c.nodes) \in Nat /\ DOMAIN c.nodes = 1 .. Len(c.nodes)
BY SeqFacts DEF Good, Forest

LEMMA KeptTwice ==
    ASSUME NEW t, NEW r, NEW s, NEW d, IsSeq(r), IsSeq(s), IsSeq(d), Kept(r, s, t), Kept(s, d, t)
    PROVE  Kept(r, d, t)
<1>. DEFINE n == Len(r)
            m == Len(s)
<1>1. Extends(r, d)
  BY ExtendsTwice DEF Kept
<1>2. n \in Nat /\ m \in Nat /\ n <= m
  BY SeqFacts DEF Kept, Extends
<1>3. /\ \A i \in 1 .. n : SameIn(r[i], s[i], t) /\ s[i].type = r[i].type
      /\ \A i \in 1 .. m : SameIn(s[i], d[i], t)
  BY DEF Kept, Extends
<1>. HIDE DEF n, m
<1>4. \A i \in 1 .. n : i \in 1 .. m
  BY <1>2
<1>5. \A i \in 1 .. n : SameIn(r[i], d[i], t)
  BY <1>3, <1>4 DEF SameIn
<1>. QED
  BY <1>1, <1>5 DEF Kept, n

LEMMA AddsOnlyTwice ==
    ASSUME NEW T, NEW r, NEW s, NEW d, IsSeq(r), IsSeq(s), IsSeq(d), Extends(s, d),
           AddsOnly(r, s, T), AddsOnly(s, d, T)
    PROVE  AddsOnly(r, d, T)
<1>. DEFINE n == Len(r)
            m == Len(s)
            k == Len(d)
<1>1. n \in Nat /\ m \in Nat /\ k \in Nat
  BY SeqFacts
<1>2. /\ \A i \in 1 .. m : d[i].type = s[i].type
      /\ \A i \in 1 .. m : i > n => s[i].type \in T
      /\ \A i \in 1 .. k : i > m => d[i].type \in T
  BY DEF Extends, AddsOnly
<1>. HIDE DEF n, m, k
<1>3. \A i \in 1 .. k : i \in 1 .. m \/ i > m
  BY <1>1
<1>. QED
  BY <1>2, <1>3 DEF AddsOnly, n, k

LEMMA BuildsTwice ==
    ASSUME NEW T, NEW t, NEW b, Good(b), NEW c, Builds(b, c, T, t), NEW d, Builds(c, d, T, t)
    PROVE  Builds(b, d, T, t)
<1>1. IsSeq(b.nodes) /\ IsSeq(c.nodes) /\ IsSeq(d.nodes)
  BY GoodNodes DEF Builds
<1>2. Kept(b.nodes, d.nodes, t)
  BY <1>1, KeptTwice DEF Builds
<1>3. AddsOnly(b.nodes, d.nodes, T)
  BY <1>1, AddsOnlyTwice DEF Builds, Kept
<1>. QED
  BY <1>2, <1>3 DEF Builds, SameFields

(* Nothing changes that matters to t. *)
LEMMA FieldsBuild ==
    ASSUME NEW T, NEW t, NEW c, Good(c), NEW d, Good(d), d.nodes = c.nodes, SameFields(c, d, t)
    PROVE  Builds(c, d, T, t)
<1>. DEFINE n == Len(c.nodes)
<1>1. n \in Nat
  BY GoodNodes
<1>2. Kept(c.nodes, d.nodes, t)
  BY <1>1 DEF Kept, Extends, SameIn
<1>3. AddsOnly(c.nodes, d.nodes, T)
  <2>. HIDE DEF n
  <2>1. \A i \in 1 .. n : ~(i > n)
    BY <1>1
  <2>. QED
    BY <2>1 DEF AddsOnly, n
<1>. QED
  BY <1>2, <1>3 DEF Builds

LEMMA SameButFields ==
    ASSUME NEW c, NEW d, SameBut(c, d, {"nodes"}), NEW t
    PROVE  SameFields(c, d, t)
<1>1. /\ d.tracker = c.tracker /\ d.submitNode = c.submitNode /\ d.lastAdded = c.lastAdded
      /\ d.ibStack = c.ibStack /\ d.newIb = c.newIb /\ d.newEvent = c.newEvent
      /\ d.renderMarker = c.renderMarker /\ d.startBin = c.startBin
      /\ d.drawTable = c.drawTable /\ d.startStack = c.startStack
  BY DEF SameBut, CreatorFields
<1>. QED
  BY <1>1 DEF SameFields, RangeFields

(* One node is replaced by one that is the same in t. *)
Swapped(s, d, n, r) == IsSeq(s) /\ IsSeq(d) /\ d = [s EXCEPT ![n] = r]

LEMMA ReplaceKept ==
    ASSUME NEW t, NEW s, NEW n, NEW r, NEW d, Swapped(s, d, n, r),
           n \in 1 .. Len(s) => r.type = s[n].type /\ r.aux = s[n].aux /\ SameIn(s[n], r, t)
    PROVE  Len(d) = Len(s) /\ Kept(s, d, t)
<1>. DEFINE N == Len(s)
<1>1. N \in Nat /\ DOMAIN s = 1 .. N
  BY SeqFacts DEF Swapped
<1>2. /\ DOMAIN d = 1 .. N
      /\ \A m \in 1 .. N : m # n => d[m] = s[m]
      /\ n \in 1 .. N => d[n] = r
  BY <1>1 DEF Swapped
<1>3. DOMAIN d = 1 .. Len(d) /\ Len(d) \in Nat
  BY SeqFacts DEF Swapped
<1>4. n \in 1 .. N => r.type = s[n].type /\ r.aux = s[n].aux /\ SameIn(s[n], r, t)
  OBVIOUS
<1>. HIDE DEF N
<1>5. Len(d) = N
  BY <1>1, <1>2, <1>3
<1>6. \A m \in 1 .. N : SameIn(s[m], s[m], t)
  BY DEF SameIn
<1>7. \A m \in 1 .. N : d[m].type = s[m].type /\ d[m].aux = s[m].aux /\ SameIn(s[m], d[m], t)
  BY <1>2, <1>4, <1>6
<1>8. N <= N
  BY <1>1
<1>. QED
  BY <1>5, <1>7, <1>8 DEF Kept, Extends, N

LEMMA NoneAdded ==
    ASSUME NEW s, NEW d, Len(d) = Len(s), IsSeq(s), NEW T
    PROVE  AddsOnly(s, d, T)
<1>. DEFINE n == Len(s)
<1>1. n \in Nat
  BY SeqFacts
<1>. HIDE DEF n
<1>2. \A i \in 1 .. n : ~(i > n)
  BY <1>1
<1>. QED
  BY <1>2 DEF AddsOnly, n

LEMMA AddNodeBuilds ==
    ASSUME NEW t \in Topologies, NEW T, NEW c, Good(c), NEW type \in T, NEW aux,
           NEW d, d = AddNode(c, type, aux)
    PROVE  /\ Builds(c, d, T, t) /\ NewLast(c.nodes, d.nodes, type, aux)
           /\ d.nodes[Len(d.nodes)] = Node(type, aux)
           /\ SameBut(c, d, {"nodes"})
<1>1. Grows(c, d) /\ NewLast(c.nodes, d.nodes, type, aux)
  BY AddNodeGood
<1>2. d.nodes = Append(c.nodes, Node(type, aux))
  BY DEF AddNode, Good, CreatorFields
<1>. DEFINE s == c.nodes
            n == Len(s)
            e == d.nodes
<1>3. n \in Nat /\ IsSeq(s)
  BY GoodNodes
<1>4. /\ Len(e) = n + 1 /\ e[n + 1] = Node(type, aux)
      /\ \A i \in 1 .. n : e[i] = s[i]
  BY <1>2, <1>3, AppendSeq
<1>5. Extends(s, e) /\ e[n + 1].type = type
  BY <1>1, <1>4 DEF NewLast
<1>. HIDE DEF n, e, s
<1>6. AddsOnly(s, e, T)
  <2>1. \A i \in 1 .. n + 1 : i > n => i = n + 1
    BY <1>3
  <2>. QED
    BY <1>4, <1>5, <2>1 DEF AddsOnly, n
<1>7. Kept(s, e, t)
  BY <1>4, <1>5 DEF Kept, SameIn, n
<1>8. SameFields(c, d, t) /\ SameBut(c, d, {"nodes"}) /\ Good(d)
  BY <1>1, SameButFields DEF Grows
<1>. QED
  BY <1>1, <1>4, <1>6, <1>7, <1>8 DEF Builds, s, e

LEMMA AddChildBuilds ==
    ASSUME NEW t \in Topologies, NEW T, NEW c, Good(c), NEW n \in 0 .. Len(c.nodes),
           NEW u \in Topologies,
           NEW k \in 1 .. Len(c.nodes), n < k, Orphan(c.nodes, k, u),
           u = "AllEvent" /\ t = "AllEvent" /\ n # 0 => c.nodes[n].type # "RenderMarker",
           NEW d, d = AddChild(c, u, n, k)
    PROVE  Builds(c, d, T, t) /\ Len(d.nodes) = Len(c.nodes) /\ SameBut(c, d, {"nodes"})
<1>. DEFINE s == c.nodes
            q == Append(s[n].kids[u], k)
            r == [s[n] EXCEPT !.kids = [s[n].kids EXCEPT ![u] = q]]
<1>1. Grows(c, d)
  BY AddChildGood
<1>2. d.nodes = [s EXCEPT ![n] = r]
  BY DEF AddChild, Good, CreatorFields
<1>3. IsSeq(s) /\ IsSeq(d.nodes)
  BY <1>1, GoodNodes DEF Grows
<1>4. ASSUME n \in 1 .. Len(s)
      PROVE  r.type = s[n].type /\ r.aux = s[n].aux /\ SameIn(s[n], r, t)
  <2>1. NodeOk(s[n]) /\ n # 0
    BY <1>4 DEF Good, Forest
  <2>. HIDE DEF q
  <2>2. /\ r.type = s[n].type /\ r.aux = s[n].aux
        /\ r.start = s[n].start /\ r.end = s[n].end /\ r.root = s[n].root
        /\ r.kids = [s[n].kids EXCEPT ![u] = q]
    BY <2>1 DEF NodeOk, NodeFields
  <2>3. t # u => r.kids[t] = s[n].kids[t]
    BY <2>1, <2>2 DEF NodeOk
  <2>. QED
    BY <2>1, <2>2, <2>3 DEF SameIn
<1>. DEFINE e == d.nodes
<1>. HIDE DEF r, s, e
<1>5. Len(e) = Len(s) /\ Kept(s, e, t)
  <2>1. Swapped(s, e, n, r)
    BY <1>2, <1>3 DEF Swapped, e
  <2>2. n \in 1 .. Len(s) => r.type = s[n].type /\ r.aux = s[n].aux /\ SameIn(s[n], r, t)
    BY <1>4
  <2>. QED
    BY <2>1, <2>2, ReplaceKept
<1>6. AddsOnly(s, e, T)
  BY <1>3, <1>5, NoneAdded
<1>. QED
  BY <1>1, <1>5, <1>6, SameButFields DEF Builds, Grows, s, e

LEMMA AddSharedChildBuilds ==
    ASSUME NEW t \in Topologies, NEW T, NEW c, Good(c), NEW n, NEW u \in Topologies,
           NEW k, HasPacket(c, k), NEW d, d = AddSharedChild(c, u, n, k)
    PROVE  Builds(c, d, T, t)
<1>. DEFINE s == c.nodes
            q == Append(s[n].shared[u], k)
            r == [s[n] EXCEPT !.shared = [s[n].shared EXCEPT ![u] = q]]
<1>1. Grows(c, d)
  BY AddSharedChildGood DEF HasPacket
<1>2. d.nodes = [s EXCEPT ![n] = r]
  BY DEF AddSharedChild, Good, CreatorFields
<1>3. IsSeq(s) /\ IsSeq(d.nodes)
  BY <1>1, GoodNodes DEF Grows
<1>4. ASSUME n \in 1 .. Len(s)
      PROVE  r.type = s[n].type /\ r.aux = s[n].aux /\ SameIn(s[n], r, t)
  <2>1. NodeOk(s[n])
    BY <1>4 DEF Good, Forest
  <2>. HIDE DEF q
  <2>2. /\ r.type = s[n].type /\ r.aux = s[n].aux /\ r.kids = s[n].kids
        /\ r.start = s[n].start /\ r.end = s[n].end /\ r.root = s[n].root
    BY <2>1 DEF NodeOk, NodeFields
  <2>. QED
    BY <2>2 DEF SameIn
<1>. DEFINE e == d.nodes
<1>. HIDE DEF r, s, e
<1>5. Len(e) = Len(s) /\ Kept(s, e, t)
  <2>1. Swapped(s, e, n, r)
    BY <1>2, <1>3 DEF Swapped, e
  <2>2. n \in 1 .. Len(s) => r.type = s[n].type /\ r.aux = s[n].aux /\ SameIn(s[n], r, t)
    BY <1>4
  <2>. QED
    BY <2>1, <2>2, ReplaceKept
<1>6. AddsOnly(s, e, T)
  BY <1>3, <1>5, NoneAdded
<1>. QED
  BY <1>1, <1>5, <1>6, SameButFields DEF Builds, Grows, s, e

LEMMA AddNodeUnderBuilds ==
    ASSUME NEW t \in Topologies, NEW T, NEW c, Good(c), NEW n \in 0 .. Len(c.nodes),
           t = "AllEvent" /\ n # 0 => c.nodes[n].type # "RenderMarker",
           NEW type \in T, NEW aux, NEW d, d = AddNodeUnder(c, n, type, aux)
    PROVE  /\ Builds(c, d, T, t) /\ SameBut(c, d, {"nodes"})
           /\ Len(d.nodes) = Len(c.nodes) + 1 /\ Len(c.nodes) \in Nat
           /\ d.nodes[Len(d.nodes)].type = type
<1>. DEFINE a == AddNode(c, type, aux)
            k == Len(a.nodes)
            b == AddChild(a, "Submit", n, k)
<1>0. "Submit" \in Topologies /\ "AllEvent" \in Topologies
  BY DEF Topologies
<1>1. /\ Builds(c, a, T, t) /\ NewLast(c.nodes, a.nodes, type, aux)
      /\ SameBut(c, a, {"nodes"})
  BY AddNodeBuilds
<1>2. d = AddChild(b, "AllEvent", n, k)
  BY DEF AddNodeUnder, LastNode
<1>. HIDE DEF a
<1>3. /\ k = Len(c.nodes) + 1 /\ Len(c.nodes) \in Nat
      /\ k \in Nat /\ k \in 1 .. k /\ n \in 0 .. k /\ n < k
      /\ n # 0 => n \in 1 .. Len(c.nodes)
  BY <1>1 DEF NewLast
<1>4. /\ Orphan(a.nodes, k, "Submit") /\ Orphan(a.nodes, k, "AllEvent")
      /\ a.nodes[k].type = type
  BY <1>1 DEF NewLast, Topologies
<1>5. Builds(a, b, T, t) /\ Changed(a.nodes, b.nodes, {"Submit"}) /\ SameBut(a, b, {"nodes"})
  <2>. DEFINE u == "Submit"
  <2>1. /\ Good(a) /\ n \in 0 .. Len(a.nodes) /\ u \in Topologies /\ k \in 1 .. Len(a.nodes)
        /\ Orphan(a.nodes, k, u)
        /\ u = "AllEvent" /\ t = "AllEvent" /\ n # 0 => a.nodes[n].type # "RenderMarker"
    BY <1>0, <1>1, <1>3, <1>4 DEF Builds
  <2>2. b = AddChild(a, u, n, k)
    OBVIOUS
  <2>. HIDE DEF u, b, k
  <2>3. Builds(a, b, T, t) /\ SameBut(a, b, {"nodes"})
    BY <1>3, <2>1, <2>2, AddChildBuilds
  <2>4. Changed(a.nodes, b.nodes, {u})
    BY <1>3, <2>1, <2>2, AddChildGood
  <2>. QED
    BY <2>3, <2>4 DEF u
<1>. HIDE DEF b
<1>6. Len(b.nodes) = k /\ Orphan(b.nodes, k, "AllEvent")
  BY <1>0, <1>4, <1>5 DEF Changed
<1>7. t = "AllEvent" /\ n # 0 => b.nodes[n].type # "RenderMarker"
  <2>1. n # 0 => b.nodes[n].type = a.nodes[n].type /\ a.nodes[n].type = c.nodes[n].type
    <3>1. n # 0 => n \in 1 .. Len(a.nodes)
      BY <1>3
    <3>. QED
      BY <1>1, <1>3, <1>5, <3>1 DEF Builds, Kept, Extends
  <2>. QED
    BY <2>1
<1>8. Builds(b, d, T, t) /\ Len(d.nodes) = k /\ SameBut(b, d, {"nodes"})
  <2>. DEFINE u == "AllEvent"
  <2>1. /\ Good(b) /\ n \in 0 .. Len(b.nodes) /\ u \in Topologies /\ k \in 1 .. Len(b.nodes)
        /\ Orphan(b.nodes, k, u) /\ d = AddChild(b, u, n, k)
        /\ u = "AllEvent" /\ t = "AllEvent" /\ n # 0 => b.nodes[n].type # "RenderMarker"
    BY <1>0, <1>2, <1>3, <1>5, <1>6, <1>7 DEF Builds
  <2>. HIDE DEF u, k
  <2>2. Builds(b, d, T, t) /\ Len(d.nodes) = Len(b.nodes) /\ SameBut(b, d, {"nodes"})
    BY <1>3, <2>1, AddChildBuilds
  <2>. QED
    BY <1>6, <2>2
<1>9. Builds(c, d, T, t)
  <2>1. Builds(c, b, T, t)
    BY <1>1, <1>5, BuildsTwice
  <2>. QED
    BY <1>8, <2>1, BuildsTwice
<1>10. d.nodes[k].type = type
  BY <1>3, <1>4, <1>5, <1>6, <1>8 DEF Builds, Kept, Extends
<1>11. SameBut(c, d, {"nodes"})
  BY <1>1, <1>5, <1>8 DEF SameBut
<1>. QED
  BY <1>3, <1>8, <1>9, <1>10, <1>11

(* The nodes that others are added to, besides the passes. *)
Anchored(c) ==
    /\ c.nodes[1].type = "Root"
    /\ c.nodes[c.submitNode].type \in {"Root", "Submit"}
    /\ c.startBin # NoNode => c.nodes[c.startBin].type = "Packet"
    /\ c.drawTable # NoNode => c.nodes[c.drawTable].type = "Packet"

RangeSet(c, d, t, n, first, last) ==
    /\ Len(d.nodes) = Len(c.nodes) /\ Extends(c.nodes, d.nodes)
    /\ \A m \in 1 .. Len(c.nodes) : m # n => d.nodes[m] = c.nodes[m]
    /\ d.nodes[n].start[t] = first /\ d.nodes[n].end[t] = last
    /\ d.nodes[n].root[t] = c.submitNode
    /\ d.nodes[n].kids = c.nodes[n].kids

LEMMA SetRangeBuilds ==
    ASSUME NEW T, NEW c, Good(c), NEW u \in Topologies, NEW n \in 1 .. Len(c.nodes),
           NEW first, NEW last, NEW d, d = SetRange(c, u, n, first, last)
    PROVE  /\ RangeSet(c, d, u, n, first, last)
           /\ \A t \in Topologies : t # u => Builds(c, d, T, t)
<1>. DEFINE s == c.nodes
            e == d.nodes
            r == [s[n] EXCEPT !.start = [s[n].start EXCEPT ![u] = first],
                              !.end = [s[n].end EXCEPT ![u] = last],
                              !.root = [s[n].root EXCEPT ![u] = c.submitNode]]
<1>1. NodeOk(s[n]) /\ Forest(s) /\ IsSeq(s) /\ DOMAIN s = 1 .. Len(s) /\ n \in DOMAIN s
  BY GoodNodes DEF Good, Forest
<1>2. e = [s EXCEPT ![n] = r]
  BY <1>1 DEF SetRange, Good, CreatorFields, NodeOk, NodeFields
<1>3. Grows(c, d) /\ Len(e) = Len(s)
  BY SetRangeGood DEF Changed
<1>4. /\ r.type = s[n].type /\ r.aux = s[n].aux /\ r.kids = s[n].kids
      /\ r.start = [s[n].start EXCEPT ![u] = first]
      /\ r.end = [s[n].end EXCEPT ![u] = last]
      /\ r.root = [s[n].root EXCEPT ![u] = c.submitNode]
  BY <1>1 DEF NodeOk, NodeFields
<1>. HIDE DEF r
<1>5. /\ r.start[u] = first /\ r.end[u] = last /\ r.root[u] = c.submitNode
      /\ \A t \in Topologies : t # u => SameIn(s[n], r, t)
  BY <1>1, <1>4 DEF SameIn, NodeOk
<1>6. e[n] = r /\ \A m \in 1 .. Len(s) : m # n => e[m] = s[m]
  BY <1>1, <1>2
<1>7. RangeSet(c, d, u, n, first, last)
  BY <1>3, <1>4, <1>5, <1>6 DEF RangeSet, Grows
<1>8. ASSUME NEW t \in Topologies, t # u
      PROVE  Builds(c, d, T, t)
  <2>1. Swapped(s, e, n, r)
    BY <1>1, <1>2, <1>3, GoodNodes DEF Swapped, Grows
  <2>2. n \in 1 .. Len(s) => r.type = s[n].type /\ r.aux = s[n].aux /\ SameIn(s[n], r, t)
    BY <1>4, <1>5, <1>8
  <2>. HIDE DEF s, e
  <2>3. Kept(s, e, t)
    BY <2>1, <2>2, ReplaceKept
  <2>4. AddsOnly(s, e, T)
    BY <1>1, <1>3, NoneAdded
  <2>. QED
    BY <1>3, <2>3, <2>4, SameButFields DEF Builds, Grows, s, e
<1>. QED
  BY <1>7, <1>8

-----------------------------------------------------------------------------
(* OnIbStart and OnIbEnd, again. *)

LEMMA PlacedBuilds ==
    ASSUME NEW t \in Topologies, NEW c, Good(c), t = "AllEvent" => Anchored(c),
           NEW level, NEW ib, NEW type, NEW d,
           d = SharedParent(IbPacketParent(c, level), level, ib, type)
    PROVE  Builds(c, d, {"Field"}, t)
<1>. DEFINE b == IbPacketParent(c, level)
            T == {"Field"}
<1>0. Good(d)
  BY PlacedGood
<1>1. Good(b) /\ b.nodes = c.nodes /\ SameFields(c, b, t)
      /\ b.startBin = c.startBin /\ b.drawTable = c.drawTable
  <2>1. /\ DOMAIN b = CreatorFields /\ b.nodes = c.nodes /\ b.ibStack = c.ibStack
        /\ b.newIb = c.newIb /\ b.startStack = c.startStack
        /\ b.submitNode = c.submitNode /\ b.startBin = c.startBin
        /\ b.drawTable = c.drawTable /\ b.renderMarker = c.renderMarker
    BY DEF IbPacketParent, Good, CreatorFields
  <2>2. b.tracker = c.tracker /\ b.lastAdded = c.lastAdded /\ b.newEvent = c.newEvent
    BY DEF IbPacketParent, Good, CreatorFields
  <2>. HIDE DEF b
  <2>3. Good(b)
    BY <2>1, FieldsChanged DEF Good, NodesHeld
  <2>4. SameFields(c, b, t)
    BY <2>1, <2>2 DEF SameFields, RangeFields
  <2>. QED
    BY <2>1, <2>3, <2>4
<1>. HIDE DEF b
<1>2. ASSUME NEW n \in {b.startBin, b.drawTable}, d = FieldNodeParent(b, level, n)
      PROVE  Builds(b, d, T, t)
  <2>. DEFINE aux == [addr |-> <<>>]
              a   == AddNodeUnder(b, n, "Field", aux)
  <2>1. n \in 0 .. Len(b.nodes)
    BY <1>1 DEF Good, NodesHeld
  <2>2. t = "AllEvent" /\ n # 0 => b.nodes[n].type # "RenderMarker"
    BY <1>1 DEF Anchored, NoNode
  <2>. HIDE DEF aux
  <2>3. "Field" \in T
    OBVIOUS
  <2>. HIDE DEF T
  <2>4. Builds(b, a, T, t)
    BY <1>1, <2>1, <2>2, <2>3, AddNodeUnderBuilds
  <2>5. d = [a EXCEPT !.ibParents[level] = LastNode(a)]
    BY <1>2 DEF FieldNodeParent, aux
  <2>. HIDE DEF a
  <2>6. DOMAIN a = CreatorFields
    BY <2>4 DEF Builds, Good
  <2>7. /\ d.nodes = a.nodes /\ d.ibStack = a.ibStack
        /\ d.newIb = a.newIb /\ d.startStack = a.startStack
        /\ d.submitNode = a.submitNode /\ d.startBin = a.startBin
        /\ d.drawTable = a.drawTable /\ d.renderMarker = a.renderMarker
    BY <2>5, <2>6 DEF CreatorFields
  <2>8. d.tracker = a.tracker /\ d.lastAdded = a.lastAdded /\ d.newEvent = a.newEvent
    BY <2>5, <2>6 DEF CreatorFields
  <2>9. SameFields(a, d, t)
    BY <2>7, <2>8 DEF SameFields, RangeFields
  <2>10. Builds(a, d, T, t)
    BY <1>0, <2>4, <2>7, <2>9, FieldsBuild DEF Builds
  <2>. QED
    BY <1>1, <2>4, <2>10, BuildsTwice
<1>3. ASSUME d = [b EXCEPT !.ibParents[level] = GroupAt(b, ib)]
      PROVE  Builds(b, d, T, t)
  <2>1. DOMAIN b = CreatorFields
    BY <1>1 DEF Good
  <2>2. /\ d.nodes = b.nodes /\ d.ibStack = b.ibStack
        /\ d.newIb = b.newIb /\ d.startStack = b.startStack
        /\ d.submitNode = b.submitNode /\ d.startBin = b.startBin
        /\ d.drawTable = b.drawTable /\ d.renderMarker = b.renderMarker
    BY <1>3, <2>1 DEF CreatorFields
  <2>3. d.tracker = b.tracker /\ d.lastAdded = b.lastAdded /\ d.newEvent = b.newEvent
    BY <1>3, <2>1 DEF CreatorFields
  <2>4. SameFields(b, d, t)
    BY <2>2, <2>3 DEF SameFields, RangeFields
  <2>. QED
    BY <1>0, <1>1, <2>2, <2>4, FieldsBuild
<1>4. ASSUME d = b
      PROVE  Builds(b, d, T, t)
  <2>1. SameFields(b, d, t)
    BY <1>4 DEF SameFields
  <2>. QED
    BY <1>0, <1>1, <1>4, <2>1, FieldsBuild
<1>5. \/ d = [b EXCEPT !.ibParents[level] = GroupAt(b, ib)]
      \/ d = FieldNodeParent(b, level, b.startBin)
      \/ d = FieldNodeParent(b, level, b.drawTable)
      \/ d = b
  BY DEF SharedParent, b
<1>6. Builds(b, d, T, t)
  BY <1>2, <1>3, <1>4, <1>5
<1>7. Builds(c, b, T, t)
  BY <1>1, FieldsBuild
<1>. QED
  BY <1>6, <1>7, BuildsTwice

(* The IB gets the last node, and what that node says of it is what the emulator
   said; before it at most a field node is added. *)
IbEntered(c, cur, d, n) ==
    /\ Good(d) /\ n = Len(d.nodes) /\ n > Len(c.nodes)
    /\ Kept(c.nodes, d.nodes, "Submit")
    /\ \A m \in 1 .. n : m > Len(c.nodes) /\ m # n => d.nodes[m].type = "Field"
    /\ d.nodes[n].type = "Ib"
    /\ d.nodes[n].aux.inst = cur.inst /\ d.nodes[n].aux.mask = cur.mask
    /\ d.nodes[n].start["Submit"] = 1 /\ d.nodes[n].end["Submit"] = 1
    /\ d.tracker = PushEnableMask(c.tracker, cur.mask)
    /\ d.submitNode = c.submitNode /\ d.lastAdded = c.lastAdded
    /\ d.ibStack = Append(c.ibStack, n) /\ d.newIb = TRUE
    /\ d.startStack["Submit"] = c.startStack["Submit"]

LEMMA OnIbStartBuilds ==
    ASSUME NEW c, Good(c), NEW level, NEW cur, cur.type # "Chain", NEW ibIndex, NEW d,
           d = OnIbStart(c, level, cur, ibIndex)
    PROVE  /\ IbEntered(c, cur, d, Len(d.nodes))
           /\ Anchored(c) => Builds(c, d, {"Field", "Ib"}, "AllEvent")
<1>. DEFINE tracked == [c EXCEPT !.tracker = PushEnableMask(@, cur.mask), !.ibLevel = level]
            placed  == SharedParent(IbPacketParent(tracked, level), level, cur.ib, cur.type)
            aux     == [type |-> cur.type, index |-> ibIndex, captured |-> ~cur.skip,
                        inst |-> cur.inst, mask |-> cur.mask,
                        addr |-> <<cur.ib.buf, cur.ib.at>>]
            added   == AddNode(placed, "Ib", aux)
            n       == Len(added.nodes)
            child   == AddChild(added, "Submit", IbParent(added), n)
            T       == {"Field", "Ib"}
<1>1. d = [child EXCEPT !.ibStack = Append(@, n), !.newIb = TRUE]
  BY DEF OnIbStart, LastNode
<1>0. Good(d)
  BY OnIbStartGood DEF IbOpened
<1>2. /\ Good(tracked) /\ tracked.nodes = c.nodes
      /\ tracked.tracker = PushEnableMask(c.tracker, cur.mask)
      /\ SameFields(c, tracked, "AllEvent") /\ tracked.startStack = c.startStack
      /\ tracked.submitNode = c.submitNode /\ tracked.lastAdded = c.lastAdded
      /\ tracked.ibStack = c.ibStack
      /\ Anchored(c) => Anchored(tracked)
  <2>0. DOMAIN c = CreatorFields
    BY DEF Good
  <2>1. /\ DOMAIN tracked = CreatorFields /\ tracked.nodes = c.nodes /\ tracked.ibStack = c.ibStack
        /\ tracked.newIb = c.newIb /\ tracked.startStack = c.startStack
        /\ tracked.submitNode = c.submitNode /\ tracked.startBin = c.startBin
        /\ tracked.drawTable = c.drawTable /\ tracked.renderMarker = c.renderMarker
    BY <2>0 DEF CreatorFields
  <2>2. tracked.lastAdded = c.lastAdded /\ tracked.newEvent = c.newEvent
    BY <2>0 DEF CreatorFields
  <2>3. tracked.tracker = PushEnableMask(c.tracker, cur.mask)
    BY <2>0 DEF CreatorFields
  <2>. HIDE DEF tracked
  <2>4. Good(tracked)
    BY <2>1, FieldsChanged DEF Good, NodesHeld
  <2>5. SameFields(c, tracked, "AllEvent")
    BY <2>1, <2>2 DEF SameFields, RangeFields
  <2>6. Anchored(c) => Anchored(tracked)
    BY <2>1 DEF Anchored
  <2>. QED
    BY <2>1, <2>2, <2>3, <2>4, <2>5, <2>6
<1>. HIDE DEF tracked
<1>3. /\ Builds(tracked, placed, {"Field"}, "Submit")
      /\ Anchored(c) => Builds(tracked, placed, {"Field"}, "AllEvent")
  <2>1. "Submit" \in Topologies /\ "AllEvent" \in Topologies
    BY DEF Topologies
  <2>. DEFINE u == "Submit"
              v == "AllEvent"
  <2>2. u \in Topologies /\ (u = "AllEvent" => Anchored(tracked))
    BY <2>1
  <2>3. v \in Topologies /\ (Anchored(c) => (v = "AllEvent" => Anchored(tracked)))
    BY <1>2, <2>1
  <2>. HIDE DEF u, v
  <2>4. Builds(tracked, placed, {"Field"}, u)
    BY <1>2, <2>2, PlacedBuilds
  <2>5. Anchored(c) => Builds(tracked, placed, {"Field"}, v)
    BY <1>2, <2>3, PlacedBuilds
  <2>. QED
    BY <2>4, <2>5 DEF u, v
<1>4. aux.inst = cur.inst /\ aux.mask = cur.mask
  OBVIOUS
<1>. HIDE DEF placed, aux
<1>5. Good(placed) /\ "Ib" \in T /\ "Submit" \in Topologies /\ "AllEvent" \in Topologies
  BY <1>3 DEF Builds, Topologies
<1>. HIDE DEF T
<1>6. /\ NewLast(placed.nodes, added.nodes, "Ib", aux) /\ added.nodes[n] = Node("Ib", aux)
      /\ SameBut(placed, added, {"nodes"}) /\ Good(added)
      /\ \A t \in Topologies : Builds(placed, added, T, t)
  BY <1>5, AddNodeBuilds DEF Builds
<1>. HIDE DEF added
<1>7. IbParent(added) \in 1 .. Len(placed.nodes)
  <2>1. IbParent(added) = IbParent(placed)
    BY <1>6 DEF IbParent, SameBut, CreatorFields
  <2>. QED
    BY <1>5, <2>1, IbParentNode
<1>8. /\ n = Len(placed.nodes) + 1 /\ Len(placed.nodes) \in Nat
      /\ n \in Nat /\ n \in 1 .. n /\ IbParent(added) \in 0 .. n /\ IbParent(added) < n
      /\ Orphan(added.nodes, n, "Submit")
  BY <1>5, <1>6, <1>7 DEF NewLast
<1>9. /\ Len(child.nodes) = n /\ SameBut(added, child, {"nodes"})
      /\ \A t \in Topologies : Builds(added, child, T, t)
  <2>. DEFINE u == "Submit"
              p == IbParent(added)
  <2>1. /\ u \in Topologies /\ p \in 0 .. Len(added.nodes) /\ n \in 1 .. Len(added.nodes) /\ p < n
        /\ Orphan(added.nodes, n, u) /\ child = AddChild(added, u, p, n)
    BY <1>5, <1>8
  <2>0. u # "AllEvent"
    OBVIOUS
  <2>. HIDE DEF u, p, child, n
  <2>2. ASSUME NEW t \in Topologies
        PROVE  /\ Builds(added, child, T, t) /\ Len(child.nodes) = Len(added.nodes)
               /\ SameBut(added, child, {"nodes"})
    <3>1. u = "AllEvent" /\ t = "AllEvent" /\ p # 0 => added.nodes[p].type # "RenderMarker"
      BY <2>0
    <3>2. Good(added)
      BY <1>6
    <3>3. Builds(added, child, T, t)
      BY <2>1, <3>1, <3>2, AddChildBuilds
    <3>4. Len(child.nodes) = Len(added.nodes) /\ SameBut(added, child, {"nodes"})
      BY <2>1, <3>2, AddChildGood DEF Grows, Changed
    <3>. QED
      BY <3>3, <3>4
  <2>. QED
    BY <1>5, <2>2 DEF n
<1>. HIDE DEF child, n
<1>10. /\ d.nodes = child.nodes /\ d.ibStack = Append(child.ibStack, n)
       /\ d.newIb = TRUE /\ d.startStack = child.startStack
       /\ d.submitNode = child.submitNode /\ d.startBin = child.startBin
       /\ d.drawTable = child.drawTable /\ d.renderMarker = child.renderMarker
       /\ d.tracker = child.tracker /\ d.lastAdded = child.lastAdded
       /\ d.newEvent = child.newEvent
  <2>1. DOMAIN child = CreatorFields
    BY <1>9 DEF SameBut
  <2>. QED
    BY <1>1, <2>1 DEF CreatorFields
<1>11. \A t \in Topologies : Builds(placed, child, T, t)
  BY <1>5, <1>6, <1>9, BuildsTwice
<1>12. ASSUME Anchored(c)
       PROVE  Builds(c, d, T, "AllEvent")
  <2>1. Builds(tracked, placed, T, "AllEvent")
    BY <1>3, <1>12 DEF Builds, AddsOnly, T
  <2>2. Builds(tracked, child, T, "AllEvent")
    BY <1>2, <1>5, <1>11, <2>1, BuildsTwice
  <2>3. Builds(c, tracked, T, "AllEvent")
    BY <1>2, FieldsBuild
  <2>4. SameFields(child, d, "AllEvent")
    BY <1>10 DEF SameFields, RangeFields
  <2>5. Good(child)
    BY <2>2 DEF Builds
  <2>6. Builds(child, d, T, "AllEvent")
    BY <1>0, <1>10, <2>4, <2>5, FieldsBuild
  <2>7. Builds(c, child, T, "AllEvent")
    BY <2>2, <2>3, BuildsTwice
  <2>. QED
    BY <2>6, <2>7, BuildsTwice
<1>13. IbEntered(c, cur, d, n)
  <2>. DEFINE s == c.nodes
              e == d.nodes
              q == placed.nodes
              N == Len(s)
              Q == Len(q)
  <2>1. Kept(s, q, "Submit") /\ AddsOnly(s, q, {"Field"}) /\ Kept(q, e, "Submit")
    BY <1>2, <1>3, <1>5, <1>10, <1>11 DEF Builds
  <2>2. IsSeq(s) /\ IsSeq(q) /\ IsSeq(e) /\ N \in Nat
    BY <1>0, <1>5, GoodNodes
  <2>3. Kept(s, e, "Submit")
    BY <2>1, <2>2, KeptTwice
  <2>4. Len(e) = n /\ N <= Q
    BY <1>9, <1>10, <2>1 DEF Kept, Extends
  <2>5. e[n].type = "Ib" /\ e[n].aux = aux /\ e[n].start["Submit"] = 1 /\ e[n].end["Submit"] = 1
    <3>1. /\ added.nodes[n].type = "Ib" /\ added.nodes[n].aux = aux
          /\ added.nodes[n].start["Submit"] = 1 /\ added.nodes[n].end["Submit"] = 1
      BY <1>5, <1>6 DEF Node, kRootNodeIndex
    <3>2. n \in 1 .. Len(added.nodes)
      BY <1>8 DEF n
    <3>. QED
      BY <1>5, <1>9, <1>10, <3>1, <3>2 DEF Builds, Kept, SameIn, Extends
  <2>6. \A m \in 1 .. n : m > N /\ m # n => e[m].type = "Field"
    <3>1. \A m \in 1 .. Q : m > N => q[m].type = "Field"
      BY <2>1 DEF AddsOnly
    <3>2. \A m \in 1 .. Q : e[m].type = q[m].type
      BY <2>1 DEF Kept, Extends
    <3>. HIDE DEF Q, q, e, N
    <3>3. \A m \in 1 .. n : m # n => m \in 1 .. Q
      BY <1>8 DEF Q, q
    <3>. QED
      BY <3>1, <3>2, <3>3
  <2>7. n > N
    <3>. HIDE DEF N
    <3>. QED
      BY <1>8, <2>2, <2>4
  <2>8. /\ child.ibStack = c.ibStack /\ child.startStack["Submit"] = c.startStack["Submit"]
        /\ child.tracker = tracked.tracker /\ child.submitNode = c.submitNode
        /\ child.lastAdded = c.lastAdded
    BY <1>2, <1>3, <1>5, <1>11 DEF Builds, SameFields, RangeFields
  <2>. QED
    BY <1>0, <1>2, <1>4, <1>10, <2>3, <2>4, <2>5, <2>6, <2>7, <2>8 DEF IbEntered
<1>14. n = Len(d.nodes)
  BY <1>9, <1>10
<1>. QED
  BY <1>12, <1>13, <1>14 DEF T

(* OnIbEnd closes the innermost IB.  One without packets keeps the range that
   its node was made with. *)
IbClosed(c, d) ==
    /\ Good(d) /\ d.tracker = PopEnableMask(c.tracker)
    /\ d.submitNode = c.submitNode /\ d.lastAdded = c.lastAdded
    /\ d.newIb = FALSE /\ d.ibStack = Front(c.ibStack)
    /\ c.newIb => d.nodes = c.nodes /\ d.startStack["Submit"] = c.startStack["Submit"]
    /\ ~c.newIb =>
          /\ RangeSet(c, d, "Submit", Last(c.ibStack), Last(c.startStack["Submit"]), c.lastAdded)
          /\ d.startStack["Submit"] = Front(c.startStack["Submit"])

LEMMA OnIbEndBuilds ==
    ASSUME NEW c, Good(c), c.ibStack # <<>>, NEW level, NEW d, d = OnIbEnd(c, level),
           c.newIb = FALSE => Len(c.startStack["Submit"]) = Len(c.ibStack),
           c.newIb \in BOOLEAN
    PROVE  IbClosed(c, d) /\ Builds(c, d, {}, "AllEvent")
<1>. DEFINE popped == [c EXCEPT !.tracker = PopEnableMask(@)]
            closed == CloseIb(popped)
            last   == PopIb(closed)
            u      == c.startStack["Submit"]
            t      == "AllEvent"
            T      == {}
<1>0. Good(d)
  BY OnIbEndGood
<1>1. d = [last EXCEPT !.ibLevel = level]
  BY DEF OnIbEnd
<1>2. /\ Good(popped) /\ SameBut(c, popped, {"tracker"})
      /\ popped.tracker = PopEnableMask(c.tracker)
  <2>0. DOMAIN c = CreatorFields
    BY DEF Good
  <2>1. SameBut(c, popped, {"tracker"}) /\ popped.tracker = PopEnableMask(c.tracker)
    BY <2>0 DEF CreatorFields, SameBut
  <2>. HIDE DEF popped
  <2>2. /\ DOMAIN popped = CreatorFields /\ popped.nodes = c.nodes /\ popped.ibStack = c.ibStack
        /\ popped.newIb = c.newIb /\ popped.startStack = c.startStack
        /\ popped.submitNode = c.submitNode /\ popped.startBin = c.startBin
        /\ popped.drawTable = c.drawTable /\ popped.renderMarker = c.renderMarker
    BY <2>1 DEF SameBut, CreatorFields
  <2>3. Good(popped)
    BY <2>2, FieldsChanged DEF Good, NodesHeld
  <2>. QED
    BY <2>1, <2>3
<1>. HIDE DEF popped
<1>3. /\ popped.nodes = c.nodes /\ popped.ibStack = c.ibStack /\ popped.newIb = c.newIb
      /\ popped.startStack = c.startStack /\ popped.submitNode = c.submitNode
      /\ popped.lastAdded = c.lastAdded /\ DOMAIN popped = CreatorFields
  BY <1>2 DEF SameBut, CreatorFields
<1>4. SameFields(c, popped, t)
  BY <1>2 DEF SameBut, CreatorFields, SameFields, RangeFields
<1>5. Builds(c, popped, T, t)
  <2>. HIDE DEF t, T
  <2>. QED
    BY <1>2, <1>3, <1>4, FieldsBuild
<1>6. /\ Good(closed) /\ closed.newIb = FALSE /\ SameBut(popped, closed, {"nodes", "newIb", "startStack"})
      /\ c.newIb => closed.nodes = c.nodes /\ closed.startStack["Submit"] = u
      /\ ~c.newIb => /\ RangeSet(c, closed, "Submit", Last(c.ibStack), Last(u), c.lastAdded)
                     /\ closed.startStack["Submit"] = Front(u)
      /\ Builds(popped, closed, T, t)
  <2>1. CASE c.newIb
    <3>1. closed = [popped EXCEPT !.newIb = FALSE]
      BY <2>1, <1>3 DEF CloseIb
    <3>2. SameBut(popped, closed, {"newIb"}) /\ closed.newIb = FALSE
      BY <1>3, <3>1 DEF SameBut, CreatorFields
    <3>. HIDE DEF closed
    <3>3. /\ DOMAIN closed = CreatorFields /\ closed.nodes = popped.nodes
          /\ closed.ibStack = popped.ibStack /\ closed.startStack = popped.startStack
          /\ closed.submitNode = popped.submitNode /\ closed.startBin = popped.startBin
          /\ closed.drawTable = popped.drawTable /\ closed.renderMarker = popped.renderMarker
      BY <3>2 DEF SameBut, CreatorFields
    <3>4. Good(closed)
      BY <1>2, <3>3 DEF Good, NodesHeld, IbsHeld
    <3>5. SameFields(popped, closed, t)
      BY <3>2 DEF SameBut, CreatorFields, SameFields, RangeFields
    <3>6. Builds(popped, closed, T, t)
      <4>. HIDE DEF t, T
      <4>. QED
        BY <1>2, <3>3, <3>4, <3>5, FieldsBuild
    <3>7. SameBut(popped, closed, {"nodes", "newIb", "startStack"})
      BY <3>2 DEF SameBut
    <3>. QED
      BY <1>3, <2>1, <3>2, <3>3, <3>4, <3>6, <3>7
  <2>2. CASE c.newIb = FALSE
    <3>. DEFINE n      == Last(c.ibStack)
                ranged == SetRange(popped, "Submit", n, Last(u), popped.lastAdded)
    <3>1. closed = [ranged EXCEPT !.startStack["Submit"] = Front(u)]
      BY <2>2, <1>3 DEF CloseIb
    <3>2. n \in 1 .. Len(popped.nodes) /\ "Submit" \in Topologies /\ t \in Topologies /\ t # "Submit"
      BY <1>3, NonEmptySeq DEF Good, IbsHeld, Topologies
    <3>. DEFINE w == "Submit"
                first == Last(u)
                end == popped.lastAdded
    <3>3. /\ RangeSet(popped, ranged, "Submit", n, Last(u), popped.lastAdded)
          /\ Builds(popped, ranged, T, t)
          /\ SameBut(popped, ranged, {"nodes"})
      <4>1. w \in Topologies /\ t # w /\ ranged = SetRange(popped, w, n, first, end)
        BY <3>2
      <4>. HIDE DEF w, first, end, t, ranged, n, T
      <4>2. RangeSet(popped, ranged, w, n, first, end) /\ Builds(popped, ranged, T, t)
        BY <1>2, <3>2, <4>1, SetRangeBuilds
      <4>3. Grows(popped, ranged)
        BY <1>2, <3>2, <4>1, SetRangeGood
      <4>. QED
        BY <4>2, <4>3 DEF Grows, w, first, end
    <3>4. IsSeq(Front(u))
      <4>1. IsSeq(u) /\ Len(u) >= 1 /\ Len(u) \in Nat
        BY <2>2, NonEmptySeq, SeqFacts DEF Good, IbsHeld
      <4>2. Len(u) - 1 \in 0 .. Len(u)
        BY <4>1
      <4>. QED
        BY <4>1, <4>2, PrefixSeq DEF Front
    <3>. HIDE DEF ranged
    <3>5. /\ SameBut(ranged, closed, {"startStack"})
          /\ DOMAIN closed.startStack = Topologies /\ closed.startStack["Submit"] = Front(u)
          /\ closed.startStack["AllEvent"] = ranged.startStack["AllEvent"]
      <4>1. /\ DOMAIN ranged = CreatorFields /\ DOMAIN ranged.startStack = Topologies
        BY <3>3 DEF Builds, Good
      <4>2. SameBut(ranged, closed, {"startStack"})
        BY <3>1, <4>1 DEF SameBut, CreatorFields
      <4>3. closed.startStack = [ranged.startStack EXCEPT !["Submit"] = Front(u)]
        BY <3>1, <4>1 DEF CreatorFields
      <4>. QED
        BY <4>1, <4>2, <4>3 DEF Topologies
    <3>. HIDE DEF closed
    <3>6. /\ DOMAIN closed = CreatorFields /\ closed.nodes = ranged.nodes
          /\ closed.ibStack = ranged.ibStack /\ closed.newIb = ranged.newIb
          /\ closed.submitNode = ranged.submitNode /\ closed.startBin = ranged.startBin
          /\ closed.drawTable = ranged.drawTable /\ closed.renderMarker = ranged.renderMarker
      BY <3>5 DEF SameBut, CreatorFields
    <3>7. Good(closed)
      BY <3>3, <3>4, <3>5, <3>6 DEF Good, NodesHeld, IbsHeld, Builds
    <3>8. SameFields(ranged, closed, t)
      BY <3>5 DEF SameBut, CreatorFields, SameFields, RangeFields
    <3>9. Builds(popped, closed, T, t)
      <4>. HIDE DEF t, T
      <4>1. Good(ranged)
        BY <3>3 DEF Builds
      <4>2. Builds(ranged, closed, T, t)
        BY <3>6, <3>7, <3>8, <4>1, FieldsBuild
      <4>. QED
        BY <1>2, <3>3, <4>2, BuildsTwice
    <3>10. SameBut(popped, closed, {"nodes", "newIb", "startStack"})
      BY <3>3, <3>5 DEF SameBut
    <3>11. closed.newIb = FALSE
      BY <1>3, <2>2, <3>3, <3>6 DEF SameBut, CreatorFields
    <3>12. RangeSet(c, closed, "Submit", n, Last(u), c.lastAdded)
      BY <1>3, <3>3, <3>6 DEF RangeSet
    <3>. QED
      BY <2>2, <3>5, <3>7, <3>9, <3>10, <3>11, <3>12
  <2>. QED
    BY <2>1, <2>2
<1>. HIDE DEF closed, u
<1>7. /\ SameBut(closed, last, {"ibStack", "startStack"}) /\ last.ibStack = Front(closed.ibStack)
      /\ \A w \in Topologies : last.startStack[w] = closed.startStack[w]
      /\ Good(last)
  <2>1. closed.ibStack # <<>>
    BY <1>3, <1>6 DEF SameBut, CreatorFields
  <2>. QED
    BY <1>6, <2>1, PopIbGood
<1>. HIDE DEF last
<1>8. SameBut(last, d, {"ibLevel"})
  BY <1>1, <1>7 DEF SameBut, CreatorFields
<1>9. /\ d.nodes = closed.nodes /\ d.ibStack = Front(c.ibStack) /\ d.newIb = FALSE
      /\ d.tracker = PopEnableMask(c.tracker) /\ d.submitNode = c.submitNode
      /\ d.lastAdded = c.lastAdded
      /\ \A w \in Topologies : d.startStack[w] = closed.startStack[w]
  <2>1. /\ d.nodes = last.nodes /\ d.ibStack = last.ibStack /\ d.newIb = last.newIb
        /\ d.tracker = last.tracker /\ d.submitNode = last.submitNode
        /\ d.lastAdded = last.lastAdded /\ d.startStack = last.startStack
    BY <1>8 DEF SameBut, CreatorFields
  <2>2. /\ last.nodes = closed.nodes /\ last.newIb = closed.newIb
        /\ last.tracker = closed.tracker /\ last.submitNode = closed.submitNode
        /\ last.lastAdded = closed.lastAdded
    BY <1>7 DEF SameBut, CreatorFields
  <2>3. /\ closed.ibStack = c.ibStack /\ closed.tracker = PopEnableMask(c.tracker)
        /\ closed.submitNode = c.submitNode /\ closed.lastAdded = c.lastAdded
    BY <1>2, <1>3, <1>6 DEF SameBut, CreatorFields
  <2>. QED
    BY <1>6, <1>7, <2>1, <2>2, <2>3
<1>10. IbClosed(c, d)
  BY <1>0, <1>6, <1>9 DEF IbClosed, RangeSet, Topologies, u
<1>11. SameFields(closed, d, t)
  BY <1>7, <1>8, <1>9 DEF SameBut, CreatorFields, SameFields, RangeFields, Topologies
<1>12. Builds(c, d, T, t)
  <2>. HIDE DEF t, T
  <2>1. Builds(closed, d, T, t)
    BY <1>0, <1>6, <1>9, <1>11, FieldsBuild
  <2>2. Builds(c, closed, T, t)
    BY <1>5, <1>6, BuildsTwice
  <2>. QED
    BY <2>1, <2>2, BuildsTwice
<1>. QED
  BY <1>10, <1>12

-----------------------------------------------------------------------------
(* OnPacket, again. *)

LEMMA AddGroupNodesBuilds ==
    ASSUME NEW t \in Topologies, NEW T, "Field" \in T,
           NEW c, Good(c), NEW groups, IsSeq(groups), NEW n, n = Len(c.nodes), HasPacket(c, n),
           \A u \in Topologies : KidsOf(c.nodes[n], u) = {},
           NEW d, d = AddGroupNodes(c, n, groups)
    PROVE  Builds(c, d, T, t) /\ SameBut(c, d, {"nodes"})
<1>. DEFINE s      == c.nodes
            e      == d.nodes
            K      == Len(groups)
            fields == [i \in DOMAIN groups |->
                          Node("Field", [addr |-> <<groups[i].ib.buf, groups[i].ib.at>>])]
            kids   == [i \in DOMAIN groups |-> n + i]
            r      == [s[n] EXCEPT !.kids = [u \in Topologies |-> kids]]
            q      == [s EXCEPT ![n] = r]
<1>1. Good(d) /\ Extends(s, e)
  BY AddGroupNodesGood DEF Follows, HasPacket
<1>2. e = q \o fields /\ SameBut(c, d, {"nodes"})
  BY DEF AddGroupNodes, SameBut, Good, CreatorFields
<1>3. K \in Nat /\ DOMAIN groups = 1 .. K /\ n \in Nat /\ IsSeq(s) /\ DOMAIN s = 1 .. n /\ n \in 1 .. n
  BY SeqFacts, GoodNodes DEF HasPacket
<1>4. NodeOk(s[n]) /\ s[n].type = "Packet"
  BY DEF Good, Forest, HasPacket
<1>. HIDE DEF K, kids
<1>5. /\ IsSeq(fields) /\ Len(fields) = K
      /\ \A i \in 1 .. K : fields[i] = Node("Field", [addr |-> <<groups[i].ib.buf, groups[i].ib.at>>])
  <2>1. fields = [i \in 1 .. K |-> fields[i]]
    BY <1>3
  <2>2. IsSeq(fields) /\ Len(fields) = K
    BY <1>3, <2>1, SeqIntro
  <2>. QED
    BY <1>3, <2>2
<1>. HIDE DEF fields
<1>6. \A i \in 1 .. K : fields[i].type = "Field"
  BY <1>5 DEF Node
<1>7. /\ r.type = s[n].type /\ r.start = s[n].start /\ r.end = s[n].end /\ r.root = s[n].root
  BY <1>4 DEF NodeOk, NodeFields
<1>. HIDE DEF r
<1>8. /\ DOMAIN q = 1 .. n /\ q[n] = r
      /\ \A m \in 1 .. n : m # n => q[m] = s[m]
  BY <1>3
<1>9. IsSeq(q) /\ Len(q) = n
  <2>1. q = [i \in 1 .. n |-> q[i]]
    BY <1>3
  <2>. QED
    BY <1>3, <2>1, SeqIntro
<1>. HIDE DEF q
<1>10. \A m \in 1 .. n : SameIn(s[m], q[m], t)
  BY <1>4, <1>7, <1>8 DEF SameIn
<1>11. /\ Len(e) = n + K
       /\ \A m \in 1 .. n : e[m] = q[m]
       /\ \A i \in 1 .. K : e[n + i] = fields[i]
  <2>1. /\ Len(q \o fields) = Len(q) + Len(fields)
        /\ \A i \in 1 .. Len(q) : (q \o fields)[i] = q[i]
        /\ \A i \in 1 .. Len(fields) : (q \o fields)[Len(q) + i] = fields[i]
    <3>1. IsSeq(q) /\ IsSeq(fields)
      BY <1>5, <1>9
    <3>. QED
      BY <3>1, ConcatSeq
  <2>. QED
    BY <1>2, <1>5, <1>9, <2>1, Zenon
<1>12. Kept(s, e, t)
  BY <1>1, <1>10, <1>11 DEF Kept
<1>13. AddsOnly(s, e, T)
  <2>1. \A m \in 1 .. n + K : m > n => m - n \in 1 .. K /\ m = n + (m - n)
    BY <1>3
  <2>. QED
    BY <1>6, <1>11, <2>1 DEF AddsOnly
<1>. QED
  BY <1>1, <1>2, <1>12, <1>13, SameButFields DEF Builds

(* The packet has the number n, and n is all that is new to t but fields. *)
NewPacket(s, d, n, op, insts, T, t) ==
    /\ n = Len(s) + 1 /\ n \in 1 .. Len(d)
    /\ d[n].type = "Packet" /\ d[n].aux.op = op /\ d[n].aux.insts = insts
    /\ Kept(s, d, t)
    /\ \A m \in 1 .. Len(d) : m > n => d[m].type \in T

LEMMA AddPacketNodeBuilds ==
    ASSUME NEW t \in Topologies, NEW T, "Field" \in T,
           NEW c, Good(c), NEW p, p.op = "drawState" => IsSeq(p.groups), NEW insts, NEW d,
           d = AddPacketNode(c, p, insts)
    PROVE  /\ NewPacket(c.nodes, d.nodes, Len(c.nodes) + 1, p.op, insts, T, t)
           /\ SameBut(c, d, {"nodes"}) /\ Good(d)
<1>. DEFINE aux == [op |-> p.op, level |-> c.ibLevel, insts |-> insts]
            a   == AddNode(c, "Packet", aux)
            n   == Len(a.nodes)
            U   == {"Packet"}
<1>0. Good(d)
  BY AddPacketNodeGood DEF Follows
<1>1. aux.op = p.op /\ aux.insts = insts /\ "Packet" \in U
  OBVIOUS
<1>2. d = IF p.op = "drawState" THEN AddGroupNodes(a, n, p.groups) ELSE a
  BY DEF AddPacketNode, LastNode
<1>. HIDE DEF aux, U
<1>3. /\ Builds(c, a, U, t) /\ NewLast(c.nodes, a.nodes, "Packet", aux)
      /\ a.nodes[n] = Node("Packet", aux) /\ SameBut(c, a, {"nodes"})
  BY <1>1, AddNodeBuilds
<1>. HIDE DEF a
<1>4. /\ n = Len(c.nodes) + 1 /\ Len(c.nodes) \in Nat /\ n \in 1 .. n
      /\ a.nodes[n].type = "Packet" /\ a.nodes[n].aux = aux
      /\ \A u \in Topologies : KidsOf(a.nodes[n], u) = {}
      /\ HasPacket(a, n)
  BY <1>3, NewNode DEF NewLast, HasPacket
<1>5. Builds(a, d, T, t) /\ SameBut(a, d, {"nodes"})
  <2>1. CASE p.op = "drawState"
    <3>. DEFINE groups == p.groups
    <3>1. d = AddGroupNodes(a, n, groups) /\ IsSeq(groups) /\ Good(a)
      BY <1>2, <1>3, <2>1 DEF Builds
    <3>. HIDE DEF groups
    <3>. QED
      BY <1>4, <3>1, AddGroupNodesBuilds
  <2>2. CASE p.op # "drawState"
    <3>1. d = a /\ SameFields(a, d, t) /\ SameBut(a, d, {"nodes"})
      BY <1>2, <1>3, <2>2 DEF SameFields, SameBut
    <3>. QED
      BY <1>0, <3>1, FieldsBuild
  <2>. QED
    BY <2>1, <2>2
<1>. DEFINE s == c.nodes
            q == a.nodes
            e == d.nodes
<1>6. IsSeq(s) /\ IsSeq(q) /\ IsSeq(e)
  BY <1>0, <1>3, GoodNodes DEF Builds
<1>7. Kept(s, e, t)
  BY <1>3, <1>5, <1>6, KeptTwice DEF Builds
<1>8. e[n].type = "Packet" /\ e[n].aux = aux /\ n <= Len(e)
  BY <1>4, <1>5 DEF Builds, Kept, Extends
<1>9. \A m \in 1 .. Len(e) : m > n => e[m].type \in T
  BY <1>5 DEF Builds, AddsOnly
<1>10. n \in 1 .. Len(e)
  <2>1. Len(e) \in Nat
    BY <1>6, SeqFacts
  <2>. QED
    BY <1>4, <1>8, <2>1
<1>11. SameBut(c, d, {"nodes"})
  BY <1>3, <1>5 DEF SameBut
<1>12. NewPacket(s, e, n, p.op, insts, T, t)
  BY <1>1, <1>4, <1>7, <1>8, <1>9, <1>10 DEF NewPacket
<1>. QED
  BY <1>0, <1>4, <1>11, <1>12

LEMMA AttachPacketBuilds ==
    ASSUME NEW t \in Topologies, NEW T, NEW c, Good(c), NEW n, HasPacket(c, n),
           NEW d, d = AttachPacket(c, n)
    PROVE  Builds(c, d, T, t)
<1>. DEFINE parent == c.ibParents[c.ibLevel]
            b      == AddSharedChild(c, "Submit", parent, n)
<1>1. d = AddSharedChild(b, "AllEvent", parent, n)
  BY DEF AttachPacket
<1>2. "Submit" \in Topologies /\ "AllEvent" \in Topologies
  BY DEF Topologies
<1>. HIDE DEF parent
<1>3. Builds(c, b, T, t) /\ HasPacket(b, n)
  BY <1>2, AddSharedChildBuilds, AttachSharedFollows
<1>. HIDE DEF b
<1>4. Builds(b, d, T, t)
  BY <1>1, <1>2, <1>3, AddSharedChildBuilds DEF Builds
<1>. QED
  BY <1>3, <1>4, BuildsTwice

LEMMA AttachToPassBuilds ==
    ASSUME NEW t \in Topologies, NEW T, NEW c, Good(c), NEW n, HasPacket(c, n),
           NEW d, d = AttachToPass(c, n)
    PROVE  Builds(c, d, T, t)
<1>1. CASE c.renderMarker = NoNode
  <2>1. d = c
    BY <1>1 DEF AttachToPass
  <2>2. SameFields(c, d, t)
    BY <2>1 DEF SameFields
  <2>. QED
    BY <2>1, <2>2, FieldsBuild
<1>2. CASE c.renderMarker # NoNode
  <2>. DEFINE u == "AllEvent"
              m == c.renderMarker
  <2>1. d = AddSharedChild(c, u, m, n) /\ u \in Topologies
    BY <1>2 DEF AttachToPass, Topologies
  <2>. HIDE DEF u, m
  <2>. QED
    BY <2>1, AddSharedChildBuilds
<1>. QED
  BY <1>1, <1>2

(* OnPacket up to the handling of what the packet does. *)
Pushed(c, n, t) ==
    IF IF t = "Submit" THEN c.newIb ELSE c.newEvent THEN Append(c.startStack[t], n)
    ELSE c.startStack[t]

PacketReady(c, p, insts, d, n) ==
    /\ Good(d) /\ HasPacket(d, n)
    /\ \A t \in Topologies : /\ NewPacket(c.nodes, d.nodes, n, p.op, insts, {"Field"}, t)
                             /\ d.startStack[t] = Pushed(c, n, t)
    /\ d.newEvent = FALSE /\ d.newIb = FALSE /\ d.tracker = TrackPacket(c.tracker, p, n)
    /\ d.submitNode = c.submitNode /\ d.lastAdded = c.lastAdded /\ d.ibStack = c.ibStack
    /\ d.renderMarker = c.renderMarker /\ d.startBin = c.startBin /\ d.drawTable = c.drawTable

ReadyFor(c, p, insts) ==
    LET n       == LastNode(c) + 1
        tracked == [c EXCEPT !.tracker = TrackPacket(@, p, n)]
        added   == AttachPacket(PushStarts(AddPacketNode(tracked, p, insts), n), n)
    IN  IF p.op = "drawState" THEN CacheSetDrawStateGroupInfo(added, p, n) ELSE added

LEMMA NewPacketKept ==
    ASSUME NEW t, NEW T, NEW s, NEW q, NEW d, IsSeq(s), IsSeq(q), IsSeq(d), NEW n, NEW op, NEW insts,
           NewPacket(s, q, n, op, insts, T, t), Kept(q, d, t), AddsOnly(q, d, T)
    PROVE  NewPacket(s, d, n, op, insts, T, t)
<1>. DEFINE Q == Len(q)
            D == Len(d)
<1>1. Q \in Nat /\ D \in Nat /\ Q <= D /\ n \in 1 .. Q /\ n = Len(s) + 1
  BY SeqFacts DEF Kept, Extends, NewPacket
<1>2. Kept(s, d, t)
  BY KeptTwice DEF NewPacket
<1>3. /\ \A m \in 1 .. Q : d[m].type = q[m].type /\ d[m].aux = q[m].aux
      /\ \A m \in 1 .. Q : m > n => q[m].type \in T
      /\ \A m \in 1 .. D : m > Q => d[m].type \in T
      /\ q[n].type = "Packet" /\ q[n].aux.op = op /\ q[n].aux.insts = insts
  BY DEF Kept, Extends, NewPacket, AddsOnly
<1>. HIDE DEF Q, D
<1>4. n \in 1 .. D /\ \A m \in 1 .. D : m \in 1 .. Q \/ m > Q
  BY <1>1
<1>5. \A m \in 1 .. D : m > n => d[m].type \in T
  BY <1>3, <1>4
<1>6. d[n].type = "Packet" /\ d[n].aux.op = op /\ d[n].aux.insts = insts
  BY <1>1, <1>3
<1>. QED
  BY <1>1, <1>2, <1>4, <1>5, <1>6 DEF NewPacket, D

LEMMA ReadyForBuilds ==
    ASSUME NEW c, Good(c), NEW p, p.op = "drawState" => IsSeq(p.groups), NEW insts, NEW d,
           d = ReadyFor(c, p, insts)
    PROVE  PacketReady(c, p, insts, d, Len(c.nodes) + 1)
<1>. DEFINE n       == Len(c.nodes) + 1
            tracked == [c EXCEPT !.tracker = TrackPacket(@, p, n)]
            node    == AddPacketNode(tracked, p, insts)
            pushed  == PushStarts(node, n)
            added   == AttachPacket(pushed, n)
            T       == {"Field"}
            op      == p.op
<1>1. d = IF p.op = "drawState" THEN CacheSetDrawStateGroupInfo(added, p, n) ELSE added
  BY DEF ReadyFor, LastNode
<1>2. /\ Good(tracked) /\ SameBut(c, tracked, {"tracker"})
      /\ tracked.tracker = TrackPacket(c.tracker, p, n) /\ tracked.nodes = c.nodes
  <2>0. DOMAIN c = CreatorFields
    BY DEF Good
  <2>1. SameBut(c, tracked, {"tracker"}) /\ tracked.tracker = TrackPacket(c.tracker, p, n)
    BY <2>0 DEF CreatorFields, SameBut
  <2>. HIDE DEF tracked
  <2>2. /\ DOMAIN tracked = CreatorFields /\ tracked.nodes = c.nodes /\ tracked.ibStack = c.ibStack
        /\ tracked.newIb = c.newIb /\ tracked.startStack = c.startStack
        /\ tracked.submitNode = c.submitNode /\ tracked.startBin = c.startBin
        /\ tracked.drawTable = c.drawTable /\ tracked.renderMarker = c.renderMarker
    BY <2>1 DEF SameBut, CreatorFields
  <2>3. Good(tracked)
    BY <2>2, FieldsChanged DEF Good, NodesHeld
  <2>. QED
    BY <2>1, <2>2, <2>3
<1>. HIDE DEF tracked
<1>3. "Field" \in T /\ "Submit" \in Topologies
  BY DEF Topologies
<1>. HIDE DEF T
<1>4. /\ Good(node) /\ SameBut(tracked, node, {"nodes"}) /\ HasPacket(node, n)
      /\ \A t \in Topologies : NewPacket(c.nodes, node.nodes, n, op, insts, T, t)
  <2>1. ASSUME NEW t \in Topologies
        PROVE  /\ NewPacket(tracked.nodes, node.nodes, Len(tracked.nodes) + 1, p.op, insts, T, t)
               /\ SameBut(tracked, node, {"nodes"}) /\ Good(node)
    BY <1>2, <1>3, AddPacketNodeBuilds
  <2>2. HasPacket(node, n)
    BY <1>2, <1>3, <2>1 DEF NewPacket, HasPacket
  <2>. QED
    BY <1>2, <1>3, <2>1, <2>2
<1>. HIDE DEF node, op
<1>5. /\ Good(pushed) /\ SameBut(node, pushed, {"startStack", "newEvent", "newIb"})
      /\ pushed.nodes = node.nodes
      /\ pushed.newEvent = FALSE /\ pushed.newIb = FALSE /\ HasPacket(pushed, n)
      /\ \A t \in Topologies : pushed.startStack[t] = Pushed(node, n, t)
  <2>0. DOMAIN node = CreatorFields
    BY <1>4 DEF Good
  <2>1. /\ SameBut(node, pushed, {"startStack", "newEvent", "newIb"})
        /\ pushed.newEvent = FALSE /\ pushed.newIb = FALSE
    BY <2>0 DEF PushStarts, CreatorFields, SameBut
  <2>2. pushed.startStack = [t \in Topologies |-> Pushed(node, n, t)]
    BY <2>0 DEF PushStarts, CreatorFields, Pushed
  <2>3. Good(pushed)
    BY <1>4, PushStartsGood
  <2>. HIDE DEF pushed
  <2>4. pushed.nodes = node.nodes
    BY <2>1 DEF SameBut, CreatorFields
  <2>. QED
    BY <1>4, <2>1, <2>2, <2>3, <2>4 DEF HasPacket
<1>. HIDE DEF pushed
<1>6. \A t \in Topologies : Builds(pushed, added, T, t)
  BY <1>5, AttachPacketBuilds
<1>7. Good(added) /\ HasPacket(added, n)
  BY <1>5, AttachPacketGood DEF Follows
<1>. HIDE DEF added
<1>8. Good(d) /\ SameBut(added, d, {"groupInfo"}) /\ HasPacket(d, n) /\ d.nodes = added.nodes
  <2>0. DOMAIN added = CreatorFields
    BY <1>7 DEF Good
  <2>1. SameBut(added, d, {"groupInfo"})
    BY <1>1, <2>0 DEF SameBut, CreatorFields, CacheSetDrawStateGroupInfo
  <2>2. /\ DOMAIN d = CreatorFields /\ d.nodes = added.nodes
        /\ d.ibStack = added.ibStack
        /\ d.newIb = added.newIb /\ d.startStack = added.startStack
        /\ d.submitNode = added.submitNode /\ d.startBin = added.startBin
        /\ d.drawTable = added.drawTable /\ d.renderMarker = added.renderMarker
    BY <2>1 DEF SameBut, CreatorFields
  <2>3. Good(d)
    BY <1>7, <2>2, FieldsChanged DEF Good, NodesHeld
  <2>. QED
    BY <1>7, <2>1, <2>2, <2>3 DEF HasPacket
<1>9. ASSUME NEW t \in Topologies
      PROVE  NewPacket(c.nodes, d.nodes, n, op, insts, T, t)
  <2>. DEFINE s == c.nodes
              q == node.nodes
              e == d.nodes
  <2>1. NewPacket(s, q, n, op, insts, T, t) /\ Kept(q, e, t) /\ AddsOnly(q, e, T)
    BY <1>4, <1>5, <1>6, <1>8 DEF Builds
  <2>2. IsSeq(s) /\ IsSeq(q) /\ IsSeq(e)
    BY <1>4, <1>8, GoodNodes
  <2>. HIDE DEF s, q, e, n
  <2>3. NewPacket(s, e, n, op, insts, T, t)
    BY <2>1, <2>2, NewPacketKept
  <2>. QED
    BY <2>3 DEF s, e
<1>10. /\ \A f \in {"submitNode", "lastAdded", "ibStack", "renderMarker", "startBin", "drawTable",
                    "newIb", "newEvent", "startStack"} : node[f] = c[f]
       /\ node.tracker = TrackPacket(c.tracker, p, n)
  <2>1. SameBut(c, node, {"tracker", "nodes"}) /\ node.tracker = tracked.tracker
    BY <1>2, <1>4 DEF SameBut, CreatorFields
  <2>. QED
    BY <1>2, <2>1 DEF SameBut, CreatorFields
<1>11. /\ \A t \in Topologies : added.startStack[t] = pushed.startStack[t]
       /\ \A f \in {"tracker", "submitNode", "lastAdded", "ibStack", "newIb",
                    "newEvent", "renderMarker", "startBin", "drawTable"} : added[f] = pushed[f]
  BY <1>6 DEF Builds, SameFields, RangeFields, Topologies
<1>12. \A t \in Topologies : Pushed(node, n, t) = Pushed(c, n, t)
  BY <1>10 DEF Pushed
<1>13. \A t \in Topologies : d.startStack[t] = Pushed(c, n, t)
  BY <1>5, <1>8, <1>11, <1>12 DEF SameBut, CreatorFields
<1>14. d.newEvent = FALSE /\ d.newIb = FALSE /\ d.tracker = TrackPacket(c.tracker, p, n)
  BY <1>5, <1>8, <1>10, <1>11 DEF SameBut, CreatorFields
<1>15. /\ d.submitNode = c.submitNode /\ d.lastAdded = c.lastAdded /\ d.ibStack = c.ibStack
       /\ d.renderMarker = c.renderMarker /\ d.startBin = c.startBin /\ d.drawTable = c.drawTable
  BY <1>5, <1>8, <1>10, <1>11 DEF SameBut, CreatorFields
<1>16. PacketReady(c, p, insts, d, n)
  BY <1>8, <1>9, <1>13, <1>14, <1>15 DEF PacketReady, op, T
<1>. QED
  BY <1>16

(* What an added child changes. *)
ChildAdded(s, d, u, n, k) ==
    /\ Len(d) = Len(s) /\ Extends(s, d)
    /\ \A m \in 1 .. Len(s) : m # n => d[m] = s[m]
    /\ d[n].start = s[n].start /\ d[n].end = s[n].end /\ d[n].root = s[n].root
    /\ d[n].kids[u] = Append(s[n].kids[u], k)

LEMMA AddChildExact ==
    ASSUME NEW c, Good(c), NEW u \in Topologies, NEW n \in 1 .. Len(c.nodes),
           NEW k \in 1 .. Len(c.nodes), n < k, Orphan(c.nodes, k, u),
           NEW d, d = AddChild(c, u, n, k)
    PROVE  ChildAdded(c.nodes, d.nodes, u, n, k)
<1>. DEFINE s == c.nodes
            e == d.nodes
            q == Append(s[n].kids[u], k)
            r == [s[n] EXCEPT !.kids = [s[n].kids EXCEPT ![u] = q]]
<1>1. n \in 0 .. Len(s) /\ Len(s) \in Nat /\ DOMAIN s = 1 .. Len(s)
  BY GoodNodes
<1>2. Extends(s, e) /\ Len(e) = Len(s)
  BY <1>1, AddChildGood DEF Changed
<1>3. e = [s EXCEPT ![n] = r]
  BY DEF AddChild, Good, CreatorFields
<1>4. NodeOk(s[n])
  BY DEF Good, Forest
<1>. HIDE DEF q
<1>5. r.start = s[n].start /\ r.end = s[n].end /\ r.root = s[n].root /\ r.kids[u] = q
  BY <1>4 DEF NodeOk, NodeFields
<1>. HIDE DEF r
<1>6. e[n] = r /\ \A m \in 1 .. Len(s) : m # n => e[m] = s[m]
  BY <1>1, <1>3
<1>. QED
  BY <1>2, <1>5, <1>6 DEF ChildAdded, q

(* The event gets the last node; it begins where the stack says, and ends at the
   packet.  Its parent is the pass, if there is one. *)
EventParent(c) == IF c.renderMarker # NoNode THEN c.renderMarker ELSE c.submitNode

EventAdded(c, n, d, e) ==
    /\ e = Len(d.nodes) /\ e = Len(c.nodes) + 1
    /\ Extends(c.nodes, d.nodes)
    /\ \A m \in 1 .. Len(c.nodes) :
          /\ d.nodes[m].start = c.nodes[m].start /\ d.nodes[m].end = c.nodes[m].end
          /\ d.nodes[m].root = c.nodes[m].root
          /\ m # EventParent(c) => d.nodes[m].kids["AllEvent"] = c.nodes[m].kids["AllEvent"]
    /\ d.nodes[EventParent(c)].kids["AllEvent"] =
          Append(c.nodes[EventParent(c)].kids["AllEvent"], e)
    /\ d.nodes[e].type = "Event" /\ d.nodes[e].aux.packet = n
    /\ d.nodes[e].start["AllEvent"] = Last(c.startStack["AllEvent"])
    /\ d.nodes[e].end["AllEvent"] = n /\ d.nodes[e].root["AllEvent"] = c.submitNode
    /\ d.newEvent = TRUE /\ d.startStack["AllEvent"] = Front(c.startStack["AllEvent"])
    /\ \A f \in {"submitNode", "lastAdded", "renderMarker", "startBin", "drawTable"} : d[f] = c[f]

LEMMA AddEventBuilds ==
    ASSUME NEW c, Good(c), NEW n, NEW d, d = AddEvent(c, n)
    PROVE  /\ Builds(c, d, {"Event"}, "Submit")
           /\ EventAdded(c, n, d, Len(d.nodes))
<1>. DEFINE parent == EventParent(c)
            aux    == [id |-> Len(c.events), packet |-> n]
            added  == AddNode(c, "Event", aux)
            e      == Len(added.nodes)
            starts == c.startStack["AllEvent"]
            first  == Last(starts)
            ranged == SetRange(added, "AllEvent", e, first, n)
            child  == AddChild(ranged, "AllEvent", parent, e)
            t      == "Submit"
            u      == "AllEvent"
            T      == {"Event"}
<1>0. Good(d)
  BY AddEventGood DEF Follows
<1>1. d = [child EXCEPT !.events = Append(@, e), !.newEvent = TRUE,
                        !.startStack["AllEvent"] = Front(starts)]
  BY DEF AddEvent, LastNode, EventParent
<1>2. parent \in 1 .. Len(c.nodes)
  BY DEF Good, NodesHeld, EventParent, NoNode
<1>3. u \in Topologies /\ t \in Topologies /\ "Event" \in T /\ aux.packet = n /\ t # u
  BY DEF Topologies
<1>. HIDE DEF aux, parent, starts, first, T, t, u
<1>4. /\ Builds(c, added, T, t) /\ Builds(c, added, T, u) /\ NewLast(c.nodes, added.nodes, "Event", aux)
      /\ added.nodes[e] = Node("Event", aux) /\ SameBut(c, added, {"nodes"})
      /\ \A m \in 1 .. Len(c.nodes) : added.nodes[m] = c.nodes[m]
  <2>1. /\ Builds(c, added, T, t) /\ Builds(c, added, T, u)
        /\ NewLast(c.nodes, added.nodes, "Event", aux)
        /\ added.nodes[e] = Node("Event", aux) /\ SameBut(c, added, {"nodes"})
    BY <1>3, AddNodeBuilds
  <2>2. added.nodes = Append(c.nodes, Node("Event", aux))
    BY DEF AddNode, Good, CreatorFields
  <2>3. IsSeq(c.nodes)
    BY GoodNodes
  <2>4. \A m \in 1 .. Len(c.nodes) : added.nodes[m] = c.nodes[m]
    BY <2>2, <2>3, AppendSeq
  <2>. QED
    BY <2>1, <2>4
<1>. HIDE DEF added
<1>5. /\ e = Len(c.nodes) + 1 /\ Len(c.nodes) \in Nat /\ e \in 1 .. e /\ Orphan(added.nodes, e, u)
      /\ parent \in 0 .. e /\ parent \in 1 .. e /\ parent < e /\ Good(added) /\ e \in Nat
      /\ parent # e
  BY <1>2, <1>3, <1>4 DEF NewLast, Builds
<1>6. /\ Builds(added, ranged, T, t) /\ RangeSet(added, ranged, u, e, first, n) /\ Good(ranged)
      /\ SameBut(added, ranged, {"nodes"}) /\ Orphan(ranged.nodes, e, u) /\ Len(ranged.nodes) = e
  <2>1. ranged = SetRange(added, u, e, first, n) /\ e \in 1 .. Len(added.nodes)
    BY <1>5 DEF u
  <2>. HIDE DEF ranged, e
  <2>2. RangeSet(added, ranged, u, e, first, n)
    BY <1>3, <1>5, <2>1, SetRangeBuilds
  <2>3. Builds(added, ranged, T, t)
    BY <1>3, <1>5, <2>1, SetRangeBuilds
  <2>4. Grows(added, ranged) /\ Changed(added.nodes, ranged.nodes, {})
    BY <1>3, <1>5, <2>1, SetRangeGood
  <2>. QED
    BY <1>3, <1>5, <2>2, <2>3, <2>4 DEF Builds, Grows, Changed, e
<1>. HIDE DEF ranged
<1>7. /\ Builds(ranged, child, T, t) /\ ChildAdded(ranged.nodes, child.nodes, u, parent, e)
      /\ SameBut(ranged, child, {"nodes"})
  <2>1. child = AddChild(ranged, u, parent, e) /\ e \in 1 .. Len(ranged.nodes)
        /\ parent \in 1 .. Len(ranged.nodes) /\ parent \in 0 .. Len(ranged.nodes)
        /\ (u = "AllEvent" /\ t = "AllEvent" /\ parent # 0 => ranged.nodes[parent].type # "RenderMarker")
    BY <1>3, <1>5, <1>6 DEF u
  <2>. HIDE DEF child, e
  <2>2. Builds(ranged, child, T, t)
    BY <1>3, <1>5, <1>6, <2>1, AddChildBuilds
  <2>3. ChildAdded(ranged.nodes, child.nodes, u, parent, e)
    BY <1>3, <1>5, <1>6, <2>1, AddChildExact
  <2>4. Grows(ranged, child)
    BY <1>3, <1>5, <1>6, <2>1, AddChildGood
  <2>. QED
    BY <2>2, <2>3, <2>4 DEF Grows
<1>. HIDE DEF child
<1>8. /\ SameBut(child, d, {"events", "newEvent", "startStack"}) /\ d.newEvent = TRUE
      /\ d.startStack = [child.startStack EXCEPT !["AllEvent"] = Front(starts)]
      /\ d.nodes = child.nodes
  <2>0. DOMAIN child = CreatorFields
    BY <1>7 DEF Builds, Good
  <2>. QED
    BY <1>1, <2>0 DEF SameBut, CreatorFields
<1>9. DOMAIN child.startStack = Topologies
  BY <1>7 DEF Builds, Good
<1>10. d.startStack[t] = child.startStack[t] /\ d.startStack["AllEvent"] = Front(starts)
  BY <1>3, <1>8, <1>9 DEF t, Topologies
<1>11. Builds(child, d, T, t)
  <2>1. SameFields(child, d, t)
    BY <1>8, <1>10 DEF SameFields, RangeFields, SameBut, CreatorFields, t
  <2>. QED
    BY <1>0, <1>7, <1>8, <2>1, FieldsBuild DEF Builds
<1>12. Builds(c, d, T, t)
  <2>1. Builds(c, ranged, T, t)
    BY <1>4, <1>6, BuildsTwice
  <2>2. Builds(c, child, T, t)
    BY <1>7, <2>1, BuildsTwice, SMTT(40)
  <2>. QED
    BY <1>11, <2>2, BuildsTwice
<1>13. EventAdded(c, n, d, e)
  <2>. DEFINE N == Len(c.nodes)
  <2>1. Len(d.nodes) = e /\ e = N + 1
    BY <1>5, <1>6, <1>7, <1>8 DEF ChildAdded
  <2>2. \A m \in 1 .. N : m \in 1 .. e /\ m # e
    <3>. HIDE DEF e, N
    <3>. QED
      BY <1>5, <2>1 DEF N
  <2>3. Extends(c.nodes, d.nodes)
    BY <1>12 DEF Builds, Kept
  <2>4. \A m \in 1 .. N : ranged.nodes[m] = c.nodes[m]
    BY <1>4, <1>6, <2>2, SMTT(40) DEF RangeSet
  <2>5. \A m \in 1 .. N : m # parent => d.nodes[m] = c.nodes[m]
    BY <1>6, <1>7, <1>8, <2>2, <2>4, SMTT(40) DEF ChildAdded
  <2>6. /\ d.nodes[parent].start = c.nodes[parent].start
        /\ d.nodes[parent].end = c.nodes[parent].end
        /\ d.nodes[parent].root = c.nodes[parent].root
        /\ d.nodes[parent].kids["AllEvent"] = Append(c.nodes[parent].kids["AllEvent"], e)
    BY <1>2, <1>7, <1>8, <2>4, Zenon DEF ChildAdded, u
  <2>7. d.nodes[e] = ranged.nodes[e]
    BY <1>5, <1>6, <1>7, <1>8 DEF ChildAdded
  <2>8. /\ ranged.nodes[e].type = "Event" /\ ranged.nodes[e].aux = aux
        /\ ranged.nodes[e].start[u] = first /\ ranged.nodes[e].end[u] = n
        /\ ranged.nodes[e].root[u] = added.submitNode
    BY <1>4, <1>5, <1>6 DEF RangeSet, NewLast, Extends
  <2>9. \A f \in {"submitNode", "lastAdded", "renderMarker", "startBin", "drawTable"} :
            d[f] = c[f] /\ added[f] = c[f]
    BY <1>4, <1>6, <1>7, <1>8 DEF SameBut, CreatorFields
  <2>10. \A m \in 1 .. N :
          /\ d.nodes[m].start = c.nodes[m].start /\ d.nodes[m].end = c.nodes[m].end
          /\ d.nodes[m].root = c.nodes[m].root
          /\ m # parent => d.nodes[m].kids["AllEvent"] = c.nodes[m].kids["AllEvent"]
    BY <2>5, <2>6, SMTT(40)
  <2>. QED
    BY <1>3, <1>8, <1>10, <2>1, <2>3, <2>6, <2>7, <2>8, <2>9, <2>10, ZenonT(60)
       DEF EventAdded, parent, starts, first, u
<1>14. Len(d.nodes) = e
  BY <1>13 DEF EventAdded
<1>. QED
  BY <1>12, <1>13, <1>14 DEF T, t

(* The marker gets the last node and is the pass from now on; the pass before it
   gets its range. *)
MarkerAdded(c, n, d, e) ==
    /\ e = Len(d.nodes) /\ e = Len(c.nodes) + 1
    /\ Extends(c.nodes, d.nodes)
    /\ \A m \in 1 .. Len(c.nodes) :
          /\ m # c.renderMarker => /\ d.nodes[m].start = c.nodes[m].start
                                   /\ d.nodes[m].end = c.nodes[m].end
                                   /\ d.nodes[m].root = c.nodes[m].root
          /\ m # c.submitNode => d.nodes[m].kids = c.nodes[m].kids
    /\ d.nodes[e].type = "RenderMarker" /\ d.nodes[e].aux.packet = n
    /\ d.nodes[e].kids["AllEvent"] = <<>>
    /\ d.newEvent = TRUE /\ d.renderMarker = e
    /\ c.renderMarker = NoNode => d.startStack["AllEvent"] = Append(c.startStack["AllEvent"], n)
    /\ c.renderMarker # NoNode =>
          /\ c.renderMarker # c.submitNode =>
                /\ d.nodes[c.renderMarker].start["AllEvent"] = Last(Front(c.startStack["AllEvent"]))
                /\ d.nodes[c.renderMarker].end["AllEvent"] = c.lastAdded
          /\ d.startStack["AllEvent"] = Append(Front(Front(c.startStack["AllEvent"])), n)
    /\ \A f \in {"submitNode", "lastAdded", "startBin", "drawTable"} : d[f] = c[f]

PassEnded(c, d) ==
    /\ Len(d.nodes) = Len(c.nodes) /\ Extends(c.nodes, d.nodes)
    /\ \A m \in 1 .. Len(c.nodes) : m # c.renderMarker => d.nodes[m] = c.nodes[m]
    /\ c.renderMarker = NoNode => d.startStack["AllEvent"] = c.startStack["AllEvent"]
    /\ c.renderMarker # NoNode =>
          /\ d.nodes[c.renderMarker].start["AllEvent"] = Last(Front(c.startStack["AllEvent"]))
          /\ d.nodes[c.renderMarker].end["AllEvent"] = c.lastAdded
          /\ d.nodes[c.renderMarker].kids = c.nodes[c.renderMarker].kids
          /\ d.startStack["AllEvent"] = Front(Front(c.startStack["AllEvent"]))
    /\ SameBut(c, d, {"nodes", "startStack"})

LEMMA CloseRenderMarkerBuilds ==
    ASSUME NEW T, NEW c, Good(c), NEW d, d = CloseRenderMarker(c)
    PROVE  Builds(c, d, T, "Submit") /\ PassEnded(c, d)
<1>. DEFINE starts == Front(c.startStack["AllEvent"])
            first  == Last(starts)
            last   == c.lastAdded
            n      == c.renderMarker
            u      == "AllEvent"
            t      == "Submit"
            ranged == SetRange(c, u, n, first, last)
<1>0. Good(d)
  BY CloseRenderMarkerGood DEF Follows
<1>1. CASE n = NoNode
  <2>1. d = c
    BY <1>1 DEF CloseRenderMarker
  <2>2. Len(c.nodes) \in Nat /\ DOMAIN c = CreatorFields
    BY GoodNodes DEF Good
  <2>3. SameFields(c, d, t)
    BY <2>1 DEF SameFields
  <2>4. Builds(c, d, T, t)
    BY <2>1, <2>3, FieldsBuild
  <2>. QED
    BY <1>1, <2>1, <2>2, <2>4 DEF PassEnded, SameBut, Extends
<1>2. CASE n # NoNode
  <2>1. d = [ranged EXCEPT !.startStack["AllEvent"] = Front(starts)]
    BY <1>2 DEF CloseRenderMarker
  <2>2. n \in 1 .. Len(c.nodes) /\ u \in Topologies /\ t \in Topologies /\ t # u
    BY <1>2 DEF Good, NodesHeld, NoNode, Topologies
  <2>3. /\ RangeSet(c, ranged, u, n, first, last) /\ Builds(c, ranged, T, t)
        /\ SameBut(c, ranged, {"nodes"}) /\ Good(ranged)
    <3>. DEFINE r == ranged
    <3>. HIDE DEF first, last, n, u, t
    <3>1. r = SetRange(c, u, n, first, last)
      OBVIOUS
    <3>. HIDE DEF r
    <3>2. RangeSet(c, r, u, n, first, last)
      BY <2>2, <3>1, SetRangeBuilds
    <3>3. Builds(c, r, T, t)
      BY <2>2, <3>1, SetRangeBuilds
    <3>4. Grows(c, r)
      BY <2>2, <3>1, SetRangeGood
    <3>. QED
      BY <3>2, <3>3, <3>4 DEF Grows, r
  <2>. HIDE DEF ranged
  <2>4. DOMAIN ranged = CreatorFields /\ DOMAIN ranged.startStack = Topologies
    BY <2>3 DEF Good
  <2>5. /\ SameBut(ranged, d, {"startStack"})
        /\ d.startStack = [ranged.startStack EXCEPT !["AllEvent"] = Front(starts)]
        /\ d.nodes = ranged.nodes
    BY <2>1, <2>4 DEF SameBut, CreatorFields
  <2>6. d.startStack[t] = ranged.startStack[t] /\ d.startStack[u] = Front(starts)
    BY <2>2, <2>4, <2>5
  <2>7. SameFields(ranged, d, t)
    BY <2>5, <2>6 DEF SameFields, RangeFields, SameBut, CreatorFields
  <2>8. Builds(c, d, T, t)
    <3>1. Builds(ranged, d, T, t)
      BY <1>0, <2>3, <2>5, <2>7, FieldsBuild
    <3>. QED
      BY <2>3, <3>1, BuildsTwice
  <2>9. SameBut(c, d, {"nodes", "startStack"})
    BY <2>3, <2>5 DEF SameBut, CreatorFields
  <2>. QED
    BY <1>2, <2>3, <2>5, <2>6, <2>8, <2>9 DEF PassEnded, RangeSet
<1>. QED
  BY <1>1, <1>2

LEMMA AddRenderMarkerBuilds ==
    ASSUME NEW c, Good(c), NEW kind, NEW n, NEW d, d = AddRenderMarker(c, kind, n)
    PROVE  /\ Builds(c, d, {"RenderMarker"}, "Submit")
           /\ MarkerAdded(c, n, d, Len(d.nodes))
<1>. DEFINE closed == CloseRenderMarker(c)
            aux    == [kind |-> kind, packet |-> n]
            added  == AddNode(closed, "RenderMarker", aux)
            e      == Len(added.nodes)
            marked == [added EXCEPT !.renderMarker = e]
            opened == FilterPass(marked, kind)
            parent == c.submitNode
            child  == AddChild(opened, "AllEvent", parent, e)
            t      == "Submit"
            u      == "AllEvent"
            T      == {"RenderMarker"}
<1>0. Good(d)
  BY AddRenderMarkerGood DEF Follows
<1>1. d = [child EXCEPT !.startStack["AllEvent"] = Append(@, n), !.newEvent = TRUE]
  BY DEF AddRenderMarker, LastNode
<1>2. parent \in 1 .. Len(c.nodes)
  BY DEF Good, NodesHeld
<1>3. u \in Topologies /\ t \in Topologies /\ "RenderMarker" \in T /\ aux.packet = n /\ t # u
  BY DEF Topologies
<1>4. /\ Builds(c, closed, T, t) /\ PassEnded(c, closed) /\ Good(closed)
  BY CloseRenderMarkerBuilds DEF Builds
<1>. HIDE DEF closed, aux, parent, T, t, u
<1>5. /\ Builds(closed, added, T, t) /\ NewLast(closed.nodes, added.nodes, "RenderMarker", aux)
      /\ added.nodes[e] = Node("RenderMarker", aux) /\ SameBut(closed, added, {"nodes"})
      /\ \A m \in 1 .. Len(closed.nodes) : added.nodes[m] = closed.nodes[m]
  <2>1. /\ Builds(closed, added, T, t)
        /\ NewLast(closed.nodes, added.nodes, "RenderMarker", aux)
        /\ added.nodes[e] = Node("RenderMarker", aux) /\ SameBut(closed, added, {"nodes"})
    BY <1>3, <1>4, AddNodeBuilds
  <2>2. added.nodes = Append(closed.nodes, Node("RenderMarker", aux))
    BY <1>4 DEF AddNode, Good, CreatorFields
  <2>3. IsSeq(closed.nodes)
    BY <1>4, GoodNodes
  <2>4. \A m \in 1 .. Len(closed.nodes) : added.nodes[m] = closed.nodes[m]
    BY <2>2, <2>3, AppendSeq
  <2>. QED
    BY <2>1, <2>4
<1>. HIDE DEF added
<1>6. /\ e = Len(c.nodes) + 1 /\ Len(c.nodes) \in Nat /\ e \in 1 .. e /\ Orphan(added.nodes, e, u)
      /\ parent \in 0 .. e /\ parent \in 1 .. e /\ parent < e /\ Good(added) /\ e \in Nat
      /\ parent # e /\ Len(closed.nodes) = Len(c.nodes) /\ e \in 0 .. e
  BY <1>2, <1>3, <1>4, <1>5 DEF NewLast, Builds, PassEnded
<1>7. /\ SameBut(added, opened, {"exclude", "firstTile", "renderMarker"})
      /\ opened.renderMarker = e /\ opened.nodes = added.nodes /\ Good(opened)
      /\ Builds(added, opened, T, t)
  <2>0. DOMAIN added = CreatorFields
    BY <1>6 DEF Good
  <2>1. /\ SameBut(added, marked, {"renderMarker"}) /\ marked.renderMarker = e
        /\ DOMAIN marked = CreatorFields
    BY <2>0 DEF SameBut, CreatorFields
  <2>. HIDE DEF marked
  <2>2. SameBut(marked, opened, {"exclude", "firstTile"})
    BY <2>1 DEF FilterPass, SameBut, CreatorFields
  <2>. HIDE DEF opened
  <2>3. SameBut(added, opened, {"exclude", "firstTile", "renderMarker"}) /\ opened.renderMarker = e
    BY <2>1, <2>2 DEF SameBut, CreatorFields
  <2>4. /\ DOMAIN opened = CreatorFields /\ opened.nodes = added.nodes
        /\ opened.ibStack = added.ibStack
        /\ opened.newIb = added.newIb /\ opened.startStack = added.startStack
        /\ opened.submitNode = added.submitNode /\ opened.startBin = added.startBin
        /\ opened.drawTable = added.drawTable
        /\ opened.tracker = added.tracker /\ opened.lastAdded = added.lastAdded
    BY <2>3 DEF SameBut, CreatorFields
  <2>5. NodesHeld(opened)
    BY <1>6, <2>3, <2>4 DEF Good, NodesHeld
  <2>6. Good(opened)
    BY <1>6, <2>4, <2>5, FieldsChanged DEF Good
  <2>7. SameFields(added, opened, t)
    BY <2>4 DEF SameFields, RangeFields, t
  <2>. QED
    BY <1>6, <2>3, <2>4, <2>6, <2>7, FieldsBuild
<1>. HIDE DEF opened
<1>8. /\ Builds(opened, child, T, t) /\ ChildAdded(opened.nodes, child.nodes, u, parent, e)
      /\ SameBut(opened, child, {"nodes"})
  <2>1. child = AddChild(opened, u, parent, e) /\ e \in 1 .. Len(opened.nodes)
        /\ parent \in 1 .. Len(opened.nodes) /\ parent \in 0 .. Len(opened.nodes)
        /\ Orphan(opened.nodes, e, u)
        /\ (u = "AllEvent" /\ t = "AllEvent" /\ parent # 0 => opened.nodes[parent].type # "RenderMarker")
    BY <1>3, <1>6, <1>7 DEF u
  <2>. HIDE DEF child, e
  <2>2. Builds(opened, child, T, t)
    BY <1>3, <1>6, <1>7, <2>1, AddChildBuilds
  <2>3. ChildAdded(opened.nodes, child.nodes, u, parent, e)
    BY <1>3, <1>6, <1>7, <2>1, AddChildExact
  <2>4. Grows(opened, child)
    BY <1>3, <1>6, <1>7, <2>1, AddChildGood
  <2>. QED
    BY <2>2, <2>3, <2>4 DEF Grows
<1>. HIDE DEF child
<1>9. /\ SameBut(child, d, {"newEvent", "startStack"}) /\ d.newEvent = TRUE
      /\ d.startStack = [child.startStack EXCEPT !["AllEvent"] = Append(@, n)]
      /\ d.nodes = child.nodes
  <2>0. DOMAIN child = CreatorFields
    BY <1>8 DEF Builds, Good
  <2>. QED
    BY <1>1, <2>0 DEF SameBut, CreatorFields
<1>10. DOMAIN child.startStack = Topologies
  BY <1>8 DEF Builds, Good
<1>11. /\ d.startStack[t] = child.startStack[t]
       /\ d.startStack["AllEvent"] = Append(child.startStack["AllEvent"], n)
  BY <1>3, <1>9, <1>10 DEF t, Topologies
<1>12. Builds(child, d, T, t)
  <2>1. SameFields(child, d, t)
    BY <1>9, <1>11 DEF SameFields, RangeFields, SameBut, CreatorFields, t
  <2>. QED
    BY <1>0, <1>8, <1>9, <2>1, FieldsBuild DEF Builds
<1>13. Builds(c, d, T, t)
  <2>1. Builds(c, added, T, t)
    BY <1>4, <1>5, BuildsTwice
  <2>2. Builds(c, opened, T, t)
    BY <1>7, <2>1, BuildsTwice
  <2>3. Builds(c, child, T, t)
    BY <1>8, <2>2, BuildsTwice
  <2>. QED
    BY <1>12, <2>3, BuildsTwice
<1>14. MarkerAdded(c, n, d, e)
  <2>. DEFINE N == Len(c.nodes)
              pass == c.renderMarker
  <2>1. Len(d.nodes) = e /\ e = N + 1
    BY <1>6, <1>7, <1>8, <1>9 DEF ChildAdded
  <2>2. \A m \in 1 .. N : m \in 1 .. e /\ m # e
    <3>. HIDE DEF e, N
    <3>. QED
      BY <1>6, <2>1 DEF N
  <2>3. Extends(c.nodes, d.nodes)
    BY <1>13 DEF Builds, Kept
  <2>4. /\ \A m \in 1 .. N : opened.nodes[m] = closed.nodes[m]
        /\ \A m \in 1 .. N : m # pass => closed.nodes[m] = c.nodes[m]
        /\ \A m \in 1 .. N : closed.nodes[m].kids = c.nodes[m].kids
    <3>1. /\ \A m \in 1 .. N : opened.nodes[m] = closed.nodes[m]
          /\ \A m \in 1 .. N : m # pass => closed.nodes[m] = c.nodes[m]
      BY <1>4, <1>5, <1>6, <1>7 DEF PassEnded
    <3>2. pass \in 1 .. N => closed.nodes[pass].kids = c.nodes[pass].kids
      <4>1. pass \in 1 .. N => pass # NoNode
        BY <1>6 DEF NoNode
      <4>. QED
        BY <1>4, <4>1 DEF PassEnded
    <3>. QED
      BY <3>1, <3>2
  <2>5. \A m \in 1 .. N : m # parent => d.nodes[m] = opened.nodes[m]
    BY <1>6, <1>7, <1>8, <1>9, <2>2 DEF ChildAdded
  <2>6. /\ d.nodes[parent].start = opened.nodes[parent].start
        /\ d.nodes[parent].end = opened.nodes[parent].end
        /\ d.nodes[parent].root = opened.nodes[parent].root
    BY <1>8, <1>9 DEF ChildAdded
  <2>7. d.nodes[e] = added.nodes[e]
    BY <1>6, <1>7, <1>8, <1>9 DEF ChildAdded
  <2>8. /\ added.nodes[e].type = "RenderMarker" /\ added.nodes[e].aux = aux
        /\ added.nodes[e].kids["AllEvent"] = <<>>
    BY <1>3, <1>5 DEF Node, u
  <2>9. /\ \A f \in {"submitNode", "lastAdded", "startBin", "drawTable"} : d[f] = c[f]
        /\ d.renderMarker = e
    BY <1>4, <1>5, <1>7, <1>8, <1>9 DEF SameBut, CreatorFields, PassEnded
  <2>10. \A m \in 1 .. N :
          /\ m # pass => /\ d.nodes[m].start = c.nodes[m].start
                         /\ d.nodes[m].end = c.nodes[m].end
                         /\ d.nodes[m].root = c.nodes[m].root
          /\ m # parent => d.nodes[m].kids = c.nodes[m].kids
    BY <2>4, <2>5, <2>6
  <2>11. child.startStack["AllEvent"] = closed.startStack["AllEvent"]
    BY <1>5, <1>7, <1>8 DEF SameBut, CreatorFields
  <2>12. pass # NoNode /\ pass # parent => d.nodes[pass] = closed.nodes[pass]
    <3>1. pass # NoNode => pass \in 1 .. N
      BY DEF Good, NodesHeld, NoNode
    <3>. QED
      BY <2>4, <2>5, <3>1
  <2>13. /\ c.renderMarker = NoNode => d.startStack["AllEvent"] = Append(c.startStack["AllEvent"], n)
         /\ c.renderMarker # NoNode =>
              /\ c.renderMarker # c.submitNode =>
                  /\ d.nodes[c.renderMarker].start["AllEvent"] = Last(Front(c.startStack["AllEvent"]))
                  /\ d.nodes[c.renderMarker].end["AllEvent"] = c.lastAdded
              /\ d.startStack["AllEvent"] = Append(Front(Front(c.startStack["AllEvent"])), n)
    BY <1>4, <1>11, <2>11, <2>12 DEF PassEnded, parent
  <2>. QED
    BY <1>3, <1>9, <2>1, <2>3, <2>7, <2>8, <2>9, <2>10, <2>13 DEF MarkerAdded, parent
<1>15. Len(d.nodes) = e
  BY <1>14 DEF MarkerAdded
<1>. QED
  BY <1>13, <1>14, <1>15 DEF T, t

(* The other packets leave the nodes alone. *)
OnlyNoted(c, n, d) ==
    /\ d.nodes = c.nodes /\ d.startStack = c.startStack
    /\ \A f \in {"tracker", "submitNode", "lastAdded", "ibStack", "newIb", "newEvent",
                 "renderMarker"} : d[f] = c[f]
    /\ d.startBin \in {c.startBin, n, NoNode} /\ d.drawTable \in {c.drawTable, n}

HandledTypes == {"Field", "Event", "RenderMarker"}

Handled(c, p, n, d) ==
    /\ Good(d)
    /\ \/ EventAdded(c, n, d, Len(d.nodes))
       \/ MarkerAdded(c, n, d, Len(d.nodes))
       \/ OnlyNoted(c, n, d)

LEMMA WiderBuilds ==
    ASSUME NEW c, NEW d, NEW t, NEW S, NEW T, S \subseteq T, Builds(c, d, S, t)
    PROVE  Builds(c, d, T, t)
BY DEF Builds, AddsOnly

LEMMA HandlePacketBuilds ==
    ASSUME NEW c, Good(c), NEW p, NEW n, HasPacket(c, n), NEW d, d = HandlePacket(c, p, n)
    PROVE  Builds(c, d, HandledTypes, "Submit") /\ Handled(c, p, n, d)
<1>. DEFINE T == HandledTypes
            E == {"Event"}
            M == {"RenderMarker"}
            t == "Submit"
<1>0. Good(d)
  BY HandlePacketGood DEF Follows
<1>1. E \subseteq T /\ M \subseteq T
  BY DEF HandledTypes
<1>2. ASSUME d = AddEvent(c, n)
      PROVE  Builds(c, d, T, t) /\ Handled(c, p, n, d)
  <2>1. Builds(c, d, E, t) /\ EventAdded(c, n, d, Len(d.nodes))
    BY <1>2, AddEventBuilds
  <2>. HIDE DEF E, T, t
  <2>2. Builds(c, d, T, t)
    BY <1>1, <2>1, WiderBuilds
  <2>. QED
    BY <1>0, <2>1, <2>2 DEF Handled
<1>3. ASSUME NEW kind, d = AddRenderMarker(c, kind, n)
      PROVE  Builds(c, d, T, t) /\ Handled(c, p, n, d)
  <2>1. Builds(c, d, M, t) /\ MarkerAdded(c, n, d, Len(d.nodes))
    BY <1>3, AddRenderMarkerBuilds
  <2>. HIDE DEF M, T, t
  <2>2. Builds(c, d, T, t)
    BY <1>1, <2>1, WiderBuilds
  <2>. QED
    BY <1>0, <2>1, <2>2 DEF Handled
<1>4. ASSUME \/ d = [c EXCEPT !.ibPacket = n]
             \/ d = [c EXCEPT !.startBin = n]
             \/ d = [c EXCEPT !.startBin = NoNode]
             \/ d = [c EXCEPT !.drawTable = n]
             \/ d = c
      PROVE  Builds(c, d, T, t) /\ Handled(c, p, n, d)
  <2>0. DOMAIN c = CreatorFields
    BY DEF Good
  <2>1. OnlyNoted(c, n, d)
    BY <1>4, <2>0 DEF CreatorFields, OnlyNoted
  <2>2. SameFields(c, d, t)
    BY <2>1 DEF OnlyNoted, SameFields, RangeFields
  <2>. HIDE DEF T, t
  <2>3. Builds(c, d, T, t)
    BY <1>0, <2>1, <2>2, FieldsBuild DEF OnlyNoted
  <2>. QED
    BY <1>0, <2>1, <2>3 DEF Handled
<1>. HIDE DEF T, t, E, M
<1>5. Builds(c, d, T, t) /\ Handled(c, p, n, d)
  <2>1. CASE p.op = "draw"
    <3>1. d = AddEvent(c, n)
      BY <2>1 DEF HandlePacket
    <3>. QED
      BY <1>2, <3>1
  <2>2. CASE p.op = "marker" /\ p.kind \in PassMarkers
    <3>1. d = AddRenderMarker(c, p.kind, n)
      BY <2>2 DEF HandlePacket
    <3>. QED
      BY <1>3, <3>1
  <2>3. CASE p.op # "draw" /\ ~(p.op = "marker" /\ p.kind \in PassMarkers)
    <3>1. \/ d = [c EXCEPT !.ibPacket = n]
          \/ d = [c EXCEPT !.startBin = n]
          \/ d = [c EXCEPT !.startBin = NoNode]
          \/ d = [c EXCEPT !.drawTable = n]
          \/ d = c
      BY <2>3 DEF HandlePacket
    <3>. QED
      BY <1>4, <3>1
  <2>. QED
    BY <2>1, <2>2, <2>3
<1>. QED
  BY <1>5 DEF T, t

(* The whole of OnPacket: what of it the ranges of the IBs and the registers
   depend on, and the steps that those of the events and the passes need. *)
PacketAdded(c, p, insts, d, n) ==
    /\ Good(d)
    /\ NewPacket(c.nodes, d.nodes, n, p.op, insts, HandledTypes, "Submit")
    /\ d.tracker = TrackPacket(c.tracker, p, n) /\ d.submitNode = c.submitNode
    /\ d.ibStack = c.ibStack /\ d.newIb = FALSE /\ d.lastAdded = n
    /\ d.startStack["Submit"] = Pushed(c, n, "Submit")

PacketAttached(c, n, d) ==
    /\ Good(d) /\ Len(d.nodes) = Len(c.nodes)
    /\ Kept(c.nodes, d.nodes, "AllEvent") /\ d.lastAdded = n
    /\ \A f \in {"submitNode", "newEvent", "renderMarker", "startBin", "drawTable"} : d[f] = c[f]
    /\ d.startStack["AllEvent"] = c.startStack["AllEvent"]

PacketSteps(c, p, insts, d, n) ==
    \E b, h : /\ PacketReady(c, p, insts, b, n) /\ Handled(b, p, n, h)
              /\ PacketAttached(h, n, d)

LEMMA WiderPacket ==
    ASSUME NEW s, NEW d, NEW n, NEW op, NEW insts, NEW t, NEW S, NEW T, S \subseteq T,
           NewPacket(s, d, n, op, insts, S, t)
    PROVE  NewPacket(s, d, n, op, insts, T, t)
BY DEF NewPacket

LEMMA AttachToPassLength ==
    ASSUME NEW c, Good(c), NEW n, HasPacket(c, n), NEW d, d = AttachToPass(c, n)
    PROVE  Len(d.nodes) = Len(c.nodes)
<1>. DEFINE T == {}
            t == "AllEvent"
<1>. HIDE DEF T, t
<1>1. Builds(c, d, T, "AllEvent")
  BY AttachToPassBuilds DEF Topologies
<1>. DEFINE N == Len(c.nodes)
            D == Len(d.nodes)
<1>2. N \in Nat /\ D \in Nat /\ N <= D
  BY <1>1, GoodNodes DEF Builds, Kept, Extends
<1>3. \A m \in 1 .. D : ~(m > N)
  BY <1>1 DEF Builds, AddsOnly, T
<1>. HIDE DEF N, D
<1>4. D = N
  BY <1>2, <1>3
<1>. QED
  BY <1>4 DEF N, D

LEMMA OnPacketBuilds ==
    ASSUME NEW c, Good(c), NEW p, p.op = "drawState" => IsSeq(p.groups), NEW insts, NEW d,
           d = OnPacket(c, p, insts), p.op # "type2"
    PROVE  /\ PacketAdded(c, p, insts, d, Len(c.nodes) + 1)
           /\ PacketSteps(c, p, insts, d, Len(c.nodes) + 1)
<1>. DEFINE n  == Len(c.nodes) + 1
            b  == ReadyFor(c, p, insts)
            h  == HandlePacket(b, p, n)
            a  == AttachToPass(h, n)
            T  == HandledTypes
            t  == "Submit"
            u  == "AllEvent"
            op == p.op
<1>1. d = [a EXCEPT !.lastAdded = n]
  BY DEF OnPacket, ReadyFor, LastNode
<1>2. PacketReady(c, p, insts, b, n)
  BY ReadyForBuilds
<1>. HIDE DEF b
<1>3. Good(b) /\ HasPacket(b, n)
  BY <1>2 DEF PacketReady
<1>4. Builds(b, h, T, t) /\ Handled(b, p, n, h) /\ HasPacket(h, n) /\ Good(h)
  <2>1. Builds(b, h, T, t) /\ Handled(b, p, n, h)
    BY <1>3, HandlePacketBuilds
  <2>2. Follows(b, h)
    BY <1>3, HandlePacketGood
  <2>. QED
    BY <1>3, <2>1, <2>2, PacketKept DEF Follows
<1>. HIDE DEF h
<1>5. t \in Topologies /\ u \in Topologies /\ {"Field"} \subseteq T
  BY DEF Topologies, HandledTypes
<1>. HIDE DEF T, t, u, op
<1>6. Builds(h, a, T, t) /\ Builds(h, a, T, u) /\ Good(a) /\ Len(a.nodes) = Len(h.nodes)
  BY <1>4, <1>5, AttachToPassBuilds, AttachToPassLength DEF Builds
<1>. HIDE DEF a
<1>7. SameBut(a, d, {"lastAdded"}) /\ d.lastAdded = n /\ d.nodes = a.nodes
  <2>0. DOMAIN a = CreatorFields
    BY <1>6 DEF Good
  <2>. QED
    BY <1>1, <2>0 DEF SameBut, CreatorFields
<1>8. Good(d)
  <2>1. /\ DOMAIN d = CreatorFields /\ d.nodes = a.nodes /\ d.ibStack = a.ibStack
        /\ d.newIb = a.newIb /\ d.startStack = a.startStack
        /\ d.submitNode = a.submitNode /\ d.startBin = a.startBin
        /\ d.drawTable = a.drawTable /\ d.renderMarker = a.renderMarker
    BY <1>7 DEF SameBut, CreatorFields
  <2>. QED
    BY <1>6, <2>1, FieldsChanged DEF Good, NodesHeld
<1>9. NewPacket(c.nodes, d.nodes, n, op, insts, T, t)
  <2>. DEFINE s == c.nodes
              q == b.nodes
              e == d.nodes
  <2>1. Builds(b, a, T, t)
    BY <1>3, <1>4, <1>6, BuildsTwice
  <2>2. Kept(q, e, t) /\ AddsOnly(q, e, T)
    BY <1>7, <2>1 DEF Builds
  <2>3. IsSeq(s) /\ IsSeq(q) /\ IsSeq(e)
    BY <1>3, <1>8, GoodNodes
  <2>. DEFINE S == {"Field"}
  <2>4. NewPacket(s, q, n, op, insts, S, t)
    BY <1>2, <1>5 DEF PacketReady, op
  <2>5. S \subseteq T
    BY <1>5
  <2>. HIDE DEF s, q, e, n, S
  <2>6. NewPacket(s, q, n, op, insts, T, t)
    BY <2>4, <2>5, WiderPacket
  <2>7. NewPacket(s, e, n, op, insts, T, t)
    BY <2>2, <2>3, <2>6, NewPacketKept
  <2>. QED
    BY <2>7 DEF s, e
<1>10. PacketAdded(c, p, insts, d, n)
  <2>1. /\ b.tracker = TrackPacket(c.tracker, p, n) /\ b.submitNode = c.submitNode
        /\ b.ibStack = c.ibStack /\ b.newIb = FALSE
        /\ b.startStack["Submit"] = Pushed(c, n, "Submit")
    BY <1>2 DEF PacketReady, Topologies
  <2>2. /\ h.tracker = b.tracker /\ h.submitNode = b.submitNode /\ h.ibStack = b.ibStack
        /\ h.newIb = b.newIb /\ h.startStack["Submit"] = b.startStack["Submit"]
    BY <1>4 DEF Builds, SameFields, RangeFields, t
  <2>3. /\ a.tracker = h.tracker /\ a.submitNode = h.submitNode /\ a.ibStack = h.ibStack
        /\ a.newIb = h.newIb /\ a.startStack["Submit"] = h.startStack["Submit"]
    BY <1>6 DEF Builds, SameFields, RangeFields, t
  <2>4. /\ d.tracker = a.tracker /\ d.submitNode = a.submitNode /\ d.ibStack = a.ibStack
        /\ d.newIb = a.newIb /\ d.startStack = a.startStack
    BY <1>7 DEF SameBut, CreatorFields
  <2>. QED
    BY <1>7, <1>8, <1>9, <2>1, <2>2, <2>3, <2>4 DEF PacketAdded, T, t, op
<1>11. PacketAttached(h, n, d)
  <2>1. \A f \in {"submitNode", "newEvent", "renderMarker", "startBin", "drawTable"} : a[f] = h[f]
    BY <1>6 DEF Builds, SameFields, RangeFields, u
  <2>2. a.startStack["AllEvent"] = h.startStack["AllEvent"] /\ Kept(h.nodes, a.nodes, "AllEvent")
    BY <1>6 DEF Builds, SameFields, u
  <2>. QED
    BY <1>6, <1>7, <1>8, <2>1, <2>2 DEF PacketAttached, SameBut, CreatorFields
<1>. QED
  BY <1>2, <1>4, <1>10, <1>11 DEF PacketSteps

-----------------------------------------------------------------------------
(* OnSubmitStart and OnSubmitEnd, again. *)

TrackerOk(tr) == DOMAIN tr = {"mask", "maskStack", "reg", "pass"}

SubmitBegun(c, d, n) ==
    /\ Good(d) /\ n = Len(d.nodes) /\ n = Len(c.nodes) + 1 /\ Len(c.nodes) \in Nat
    /\ d.nodes[n].type = "Submit"
    /\ Kept(c.nodes, d.nodes, "Submit")
    /\ Anchored(c) => Kept(c.nodes, d.nodes, "AllEvent")
    /\ TrackerOk(d.tracker) /\ d.tracker.reg = [i \in Passes |-> NoNode]
    /\ d.tracker.mask = c.tracker.mask /\ d.tracker.maskStack = c.tracker.maskStack
    /\ d.submitNode = n /\ d.ibStack = <<>> /\ d.newIb = TRUE
    /\ \A t \in Topologies : d.startStack[t] = <<>>
    /\ d.renderMarker = NoNode /\ d.newEvent = TRUE
    /\ d.lastAdded = c.lastAdded /\ d.startBin = c.startBin /\ d.drawTable = c.drawTable

LEMMA OnSubmitStartBuilds ==
    ASSUME NEW c, Good(c), TrackerOk(c.tracker), NEW submit, NEW d, d = OnSubmitStart(c, submit)
    PROVE  SubmitBegun(c, d, Len(d.nodes))
<1>. DEFINE aux == [index |-> submit]
            a == AddNodeUnder(c, kRootNodeIndex, "Submit", aux)
            n == Len(a.nodes)
            s == a.nodes
            r == [s[n] EXCEPT !.root = [t \in Topologies |-> n]]
            T == {"Submit"}
<1>0. Good(d)
  BY OnSubmitStartGood DEF Started
<1>1. kRootNodeIndex \in 0 .. Len(c.nodes)
  <2>1. c.submitNode \in 1 .. Len(c.nodes) /\ Len(c.nodes) \in Nat
    BY SeqFacts DEF Good, NodesHeld, Forest
  <2>. QED
    BY <2>1 DEF kRootNodeIndex
<1>2. /\ Builds(c, a, T, "Submit")
      /\ Anchored(c) => Builds(c, a, T, "AllEvent")
      /\ SameBut(c, a, {"nodes"}) /\ n = Len(c.nodes) + 1 /\ Len(c.nodes) \in Nat
      /\ s[n].type = "Submit" /\ Good(a)
  <2>. DEFINE u == "Submit"
              v == "AllEvent"
              k == kRootNodeIndex
              ty == "Submit"
  <2>1. /\ u \in Topologies /\ v \in Topologies /\ ty \in T /\ u # "AllEvent" /\ a = AddNodeUnder(c, k, ty, aux)
        /\ k \in 0 .. Len(c.nodes)
    BY <1>1 DEF Topologies
  <2>2. Anchored(c) => (v = "AllEvent" /\ k # 0 => c.nodes[k].type # "RenderMarker")
    BY DEF Anchored, kRootNodeIndex
  <2>. HIDE DEF u, v, k, ty, a, aux, T
  <2>0. u = "AllEvent" /\ k # 0 => c.nodes[k].type # "RenderMarker"
    BY <2>1
  <2>3. Builds(c, a, T, u)
    BY <2>0, <2>1, AddNodeUnderBuilds
  <2>5. Grows(c, a) /\ n = Len(c.nodes) + 1 /\ Len(c.nodes) \in Nat
    BY <2>1, AddNodeUnderGood
  <2>6. s[n].type = "Submit"
    <3>1. n \in 1 .. Len(s) /\ n > Len(c.nodes)
      BY <2>5
    <3>. QED
      BY <2>3, <3>1 DEF Builds, AddsOnly, T
  <2>4. Anchored(c) => Builds(c, a, T, v)
    BY <2>1, <2>2, AddNodeUnderBuilds
  <2>. QED
    BY <2>3, <2>4, <2>5, <2>6 DEF u, v, Builds, Grows
<1>3. /\ d.nodes = [s EXCEPT ![n] = r] /\ d.ibStack = <<>>
      /\ d.newIb = TRUE /\ d.startStack = [t \in Topologies |-> <<>>]
      /\ d.submitNode = n /\ d.startBin = a.startBin
      /\ d.drawTable = a.drawTable /\ d.renderMarker = 0
      /\ d.newEvent = TRUE /\ d.lastAdded = a.lastAdded
      /\ d.tracker = [a.tracker EXCEPT !.reg = [i \in Passes |-> NoNode], !.pass = "none"]
  <2>. DEFINE e == [s EXCEPT ![n] = r]
              w == [t \in Topologies |-> <<>>]
              z == [i \in Passes |-> NoNode]
              b == [a EXCEPT !.nodes = e, !.submitNode = n, !.ibLevel = 1, !.ibParents[1] = n]
              f == [b EXCEPT !.ibPacket = NoNode, !.ibStack = <<>>,
                             !.startStack = w, !.renderMarker = NoNode]
              g == [f EXCEPT !.tracker.reg = z, !.tracker.pass = "none"]
  <2>1. d = [g EXCEPT !.newEvent = TRUE, !.newIb = TRUE, !.firstTile = FALSE]
    BY DEF OnSubmitStart, LastNode
  <2>2. DOMAIN a = CreatorFields
    BY <1>2 DEF Good
  <2>. HIDE DEF a, n, s, r, e, w, z
  <2>3. /\ DOMAIN b = CreatorFields /\ b.nodes = e /\ b.submitNode = n
        /\ b.startBin = a.startBin /\ b.drawTable = a.drawTable
        /\ b.tracker = a.tracker /\ b.lastAdded = a.lastAdded
    BY <2>2 DEF CreatorFields
  <2>. HIDE DEF b
  <2>4. /\ DOMAIN f = CreatorFields /\ f.nodes = b.nodes /\ f.ibStack = <<>>
        /\ f.submitNode = b.submitNode /\ f.startBin = b.startBin
        /\ f.drawTable = b.drawTable /\ f.startStack = w /\ f.renderMarker = 0
        /\ f.tracker = b.tracker /\ f.lastAdded = b.lastAdded
    BY <2>3 DEF CreatorFields, NoNode
  <2>. HIDE DEF f
  <2>5. /\ DOMAIN g = CreatorFields /\ g.nodes = f.nodes /\ g.ibStack = f.ibStack
        /\ g.submitNode = f.submitNode /\ g.startBin = f.startBin
        /\ g.drawTable = f.drawTable /\ g.startStack = f.startStack
        /\ g.renderMarker = f.renderMarker /\ g.lastAdded = f.lastAdded
        /\ g.tracker = [f.tracker EXCEPT !.reg = z, !.pass = "none"]
    BY <2>4 DEF CreatorFields
  <2>. HIDE DEF g
  <2>6. /\ d.nodes = g.nodes /\ d.ibStack = g.ibStack
        /\ d.submitNode = g.submitNode /\ d.startBin = g.startBin
        /\ d.drawTable = g.drawTable /\ d.startStack = g.startStack
        /\ d.renderMarker = g.renderMarker /\ d.newIb = TRUE /\ d.newEvent = TRUE
        /\ d.lastAdded = g.lastAdded /\ d.tracker = g.tracker
    BY <2>1, <2>5 DEF CreatorFields
  <2>. QED
    BY <2>3, <2>4, <2>5, <2>6 DEF e, w, z
<1>. HIDE DEF a
<1>4. /\ a.tracker = c.tracker /\ a.lastAdded = c.lastAdded
      /\ a.startBin = c.startBin /\ a.drawTable = c.drawTable
  BY <1>2 DEF SameBut, CreatorFields
<1>5. /\ TrackerOk(d.tracker) /\ d.tracker.reg = [i \in Passes |-> NoNode]
      /\ d.tracker.mask = c.tracker.mask /\ d.tracker.maskStack = c.tracker.maskStack
  BY <1>3, <1>4 DEF TrackerOk
<1>6. n \in 1 .. n /\ IsSeq(s) /\ IsSeq(d.nodes) /\ n \in 1 .. Len(s)
  BY <1>0, <1>2, GoodNodes
<1>7. NodeOk(s[n])
  BY <1>2, <1>6 DEF Good, Forest
<1>8. /\ r.type = s[n].type /\ r.aux = s[n].aux /\ r.kids = s[n].kids
      /\ r.start = s[n].start /\ r.end = s[n].end
  BY <1>7 DEF NodeOk, NodeFields
<1>. DEFINE e == d.nodes
<1>9. /\ Len(e) = n /\ e[n] = r /\ Extends(s, e)
      /\ \A m \in 1 .. Len(s) : m # n => e[m] = s[m]
  <2>1. DOMAIN s = 1 .. Len(s) /\ Len(s) \in Nat /\ DOMAIN e = 1 .. Len(e) /\ Len(e) \in Nat
    BY <1>6, SeqFacts
  <2>. HIDE DEF r
  <2>2. e[n] = r /\ DOMAIN e = DOMAIN s /\ \A m \in 1 .. Len(s) : m # n => e[m] = s[m]
    BY <1>3, <1>6, <2>1
  <2>. DEFINE N == Len(s)
              D == Len(e)
  <2>3. D = N
    <3>0. N \in Nat /\ D \in Nat /\ 1 .. N = 1 .. D
      BY <2>1, <2>2
    <3>. HIDE DEF N, D
    <3>. QED
      BY <3>0
  <2>4. N <= D
    BY <2>1, <2>3
  <2>. QED
    BY <1>8, <2>2, <2>3, <2>4 DEF Extends
<1>10. ASSUME NEW t \in Topologies, Kept(c.nodes, s, t)
       PROVE  Kept(c.nodes, e, t)
  <2>. DEFINE N == Len(c.nodes)
  <2>1. \A m \in 1 .. N : m \in 1 .. Len(s) /\ m # n
    <3>0. N \in Nat /\ n = N + 1 /\ Len(s) = n
      BY <1>2
    <3>. HIDE DEF N, n
    <3>. QED
      BY <3>0
  <2>2. \A m \in 1 .. N : e[m] = s[m]
    BY <1>9, <2>1
  <2>3. Len(c.nodes) <= Len(e)
    BY <1>2, <1>9
  <2>. HIDE DEF e, s
  <2>. QED
    BY <1>10, <2>2, <2>3 DEF Kept, Extends
<1>11. Kept(c.nodes, e, "Submit") /\ (Anchored(c) => Kept(c.nodes, e, "AllEvent"))
  <2>1. /\ Kept(c.nodes, s, "Submit")
        /\ Anchored(c) => Kept(c.nodes, s, "AllEvent")
        /\ "Submit" \in Topologies /\ "AllEvent" \in Topologies
    BY <1>2 DEF Builds, Topologies
  <2>. HIDE DEF e, s
  <2>. QED
    BY <1>10, <2>1
<1>12. e[n].type = "Submit"
  BY <1>2, <1>8, <1>9
<1>13. \A t \in Topologies : d.startStack[t] = <<>>
  BY <1>3
<1>14. SubmitBegun(c, d, n)
  BY <1>0, <1>2, <1>3, <1>4, <1>5, <1>9, <1>11, <1>12, <1>13 DEF SubmitBegun, NoNode
<1>. QED
  BY <1>9, <1>14

LEMMA SetIbsBuilds ==
    ASSUME NEW t \in Topologies, NEW T, NEW c, Good(c), NEW ibs \in SortedIbs(c), NEW d, d = SetIbs(c, ibs)
    PROVE  Builds(c, d, T, t)
<1>. DEFINE s == c.nodes
            e == d.nodes
            n == c.submitNode
            r == [s[n] EXCEPT !.kids = [s[n].kids EXCEPT !["Submit"] = ibs]]
<1>1. Grows(c, d)
  BY SetIbsGood
<1>2. n \in 1 .. Len(s) /\ NodeOk(s[n]) /\ IsSeq(s) /\ IsSeq(e)
  BY <1>1, GoodNodes DEF Good, NodesHeld, Forest, Grows
<1>3. e = [s EXCEPT ![n] = r]
  BY DEF SetIbs, Good, CreatorFields
<1>4. r.type = s[n].type /\ r.aux = s[n].aux /\ SameIn(s[n], r, t)
  <2>1. /\ r.type = s[n].type /\ r.aux = s[n].aux
        /\ r.start = s[n].start /\ r.end = s[n].end /\ r.root = s[n].root
        /\ r.kids = [s[n].kids EXCEPT !["Submit"] = ibs]
    BY <1>2 DEF NodeOk, NodeFields
  <2>. HIDE DEF r
  <2>2. t = "AllEvent" => r.kids[t] = s[n].kids[t]
    BY <1>2, <2>1 DEF NodeOk
  <2>. QED
    BY <2>1, <2>2 DEF SameIn
<1>. HIDE DEF r, s, e, n
<1>5. Len(e) = Len(s) /\ Kept(s, e, t)
  <2>1. Swapped(s, e, n, r)
    BY <1>2, <1>3 DEF Swapped
  <2>2. n \in 1 .. Len(s) => r.type = s[n].type /\ r.aux = s[n].aux /\ SameIn(s[n], r, t)
    BY <1>4
  <2>. QED
    BY <2>1, <2>2, ReplaceKept
<1>6. AddsOnly(s, e, T)
  BY <1>2, <1>5, NoneAdded
<1>. QED
  BY <1>1, <1>5, <1>6, SameButFields DEF Builds, Grows, s, e

LEMMA AddPresentsBuilds ==
    ASSUME NEW t \in Topologies, NEW T, "Present" \in T, NEW c, Good(c),
           t = "AllEvent" => c.nodes[1].type # "RenderMarker",
           NEW number \in Nat, NEW d, d = AddPresents(c, number)
    PROVE  Builds(c, d, T, t)
<1>. DEFINE s    == c.nodes
            e    == d.nodes
            N    == Len(s)
            new  == [i \in 1 .. number |-> Node("Present", [id |-> 0])]
            kids == s[1].kids["AllEvent"] \o [i \in 1 .. number |-> N + i]
            r    == [s[1] EXCEPT !.kids = [s[1].kids EXCEPT !["AllEvent"] = kids]]
            q    == [s EXCEPT ![1] = r]
<1>1. Grows(c, d)
  BY AddPresentsGood
<1>2. N \in Nat /\ 1 \in 1 .. N /\ IsSeq(s) /\ DOMAIN s = 1 .. N /\ NodeOk(s[1])
  <2>1. N \in Nat /\ c.submitNode \in 1 .. N /\ IsSeq(s) /\ DOMAIN s = 1 .. N
    BY GoodNodes DEF Good, NodesHeld
  <2>2. 1 \in 1 .. N
    BY <2>1
  <2>. QED
    BY <2>1, <2>2 DEF Good, Forest
<1>3. e = q \o new
  BY <1>2 DEF AddPresents, kRootNodeIndex, LastNode, Good, CreatorFields, NodeOk
<1>. HIDE DEF N, kids
<1>4. /\ IsSeq(new) /\ Len(new) = number
      /\ \A i \in 1 .. number : new[i].type = "Present"
  <2>1. new = [i \in 1 .. number |-> new[i]]
    OBVIOUS
  <2>2. \A i \in 1 .. number : new[i].type = "Present"
    BY DEF Node
  <2>. HIDE DEF new
  <2>. QED
    BY <2>1, <2>2, SeqIntro
<1>. HIDE DEF new
<1>5. SameIn(s[1], r, t)
  <2>1. /\ r.start = s[1].start /\ r.end = s[1].end /\ r.root = s[1].root
        /\ r.kids = [s[1].kids EXCEPT !["AllEvent"] = kids]
    BY <1>2 DEF NodeOk, NodeFields
  <2>. QED
    BY <2>1 DEF SameIn
<1>. HIDE DEF r
<1>6. /\ DOMAIN q = 1 .. N /\ q[1] = r
      /\ \A m \in 1 .. N : m # 1 => q[m] = s[m]
  BY <1>2
<1>7. IsSeq(q) /\ Len(q) = N
  <2>1. q = [i \in 1 .. N |-> q[i]]
    BY <1>2
  <2>. QED
    BY <1>2, <2>1, SeqIntro
<1>. HIDE DEF q
<1>8. \A m \in 1 .. N : SameIn(s[m], q[m], t)
  BY <1>5, <1>6 DEF SameIn
<1>9. /\ Len(e) = N + number
      /\ \A m \in 1 .. N : e[m] = q[m]
      /\ \A i \in 1 .. number : e[N + i] = new[i]
  <2>1. /\ Len(q \o new) = Len(q) + Len(new)
        /\ \A i \in 1 .. Len(q) : (q \o new)[i] = q[i]
        /\ \A i \in 1 .. Len(new) : (q \o new)[Len(q) + i] = new[i]
    <3>1. IsSeq(q) /\ IsSeq(new)
      BY <1>4, <1>7
    <3>. QED
      BY <3>1, ConcatSeq
  <2>. QED
    BY <1>3, <1>4, <1>7, <2>1, Zenon
<1>10. Kept(s, e, t)
  BY <1>1, <1>8, <1>9 DEF Kept, Grows, N
<1>11. AddsOnly(s, e, T)
  <2>1. \A m \in 1 .. N + number : m > N => m - N \in 1 .. number /\ m = N + (m - N)
    BY <1>2
  <2>. QED
    BY <1>4, <1>9, <2>1 DEF AddsOnly, N
<1>. QED
  BY <1>1, <1>10, <1>11, SameButFields DEF Builds, Grows

LEMMA OnSubmitEndBuilds ==
    ASSUME NEW c, Good(c), NEW submit, NEW presents, IsSeq(presents), NEW ibs \in SortedIbs(c),
           NEW d, d = OnSubmitEnd(c, submit, presents, ibs)
    PROVE  /\ Builds(c, d, {"Present"}, "Submit")
           /\ Anchored(c) => Builds(c, d, {"Present"}, "AllEvent")
<1>. DEFINE P == {i \in DOMAIN presents : presents[i] = submit}
            b == SetIbs(c, ibs)
            T == {"Present"}
<1>1. Cardinality(P) \in Nat
  <2>1. DOMAIN presents = 1 .. Len(presents) /\ Len(presents) \in Nat
    BY SeqFacts
  <2>2. IsFiniteSet(DOMAIN presents)
    BY <2>1, FS_Interval
  <2>3. P \subseteq DOMAIN presents
    OBVIOUS
  <2>. HIDE DEF P
  <2>. QED
    BY <2>2, <2>3, FS_Subset, FS_CardinalityType
<1>2. d = AddPresents(b, Cardinality(P)) /\ "Present" \in T
  BY DEF OnSubmitEnd
<1>. HIDE DEF P, T
<1>3. Good(b) /\ \A t \in Topologies : Builds(c, b, T, t)
  BY SetIbsGood, SetIbsBuilds DEF Grows
<1>. HIDE DEF b
<1>4. c.nodes[1].type # "RenderMarker" => b.nodes[1].type # "RenderMarker"
  <2>1. c.submitNode \in 1 .. Len(c.nodes) /\ Len(c.nodes) \in Nat
    BY GoodNodes DEF Good, NodesHeld
  <2>2. 1 \in 1 .. Len(c.nodes)
    BY <2>1
  <2>3. Extends(c.nodes, b.nodes)
    BY <1>3 DEF Builds, Kept, Topologies
  <2>. QED
    BY <2>2, <2>3 DEF Extends
<1>5. ASSUME NEW t \in Topologies, t = "AllEvent" => b.nodes[1].type # "RenderMarker"
      PROVE  Builds(c, d, T, t)
  <2>1. Builds(b, d, T, t)
    BY <1>1, <1>2, <1>3, <1>5, AddPresentsBuilds
  <2>. QED
    BY <1>3, <2>1, BuildsTwice
<1>. QED
  BY <1>4, <1>5 DEF T, Anchored, Topologies

-----------------------------------------------------------------------------
(* What the nodes record of the emulation, where no chain was followed.  The IBs
   are numbered by their entries, and a packet knows the IBs it was emulated in. *)

Of(s, type) == {n \in 1 .. Len(s) : s[n].type = type}
Inside(s, i) == {q \in Of(s, "Packet") : i \in Range(s[q].aux.insts)}

IbNumbers(s, entered) ==
    /\ entered \in Nat
    /\ \A n \in Of(s, "Ib") : s[n].aux.inst \in 1 .. entered
    /\ \A m, n \in Of(s, "Ib") : s[m].aux.inst = s[n].aux.inst => m = n

InstsKnown(s) ==
    \A q \in Of(s, "Packet") :
        /\ IsSeq(s[q].aux.insts)
        /\ \A i \in Range(s[q].aux.insts) : \E n \in Of(s, "Ib") : s[n].aux.inst = i

(* The IBs on the creator's stack are those on the emulator's, level by level. *)
OpenIbs(c, stack) ==
    /\ Len(c.ibStack) = Len(stack) - 1
    /\ \A k \in 1 .. Len(stack) - 1 :
          /\ c.ibStack[k] \in Of(c.nodes, "Ib")
          /\ c.nodes[c.ibStack[k]].aux.inst = stack[k + 1].inst
          /\ c.nodes[c.ibStack[k]].aux.mask = stack[k + 1].mask

(* The tracker's masks are those of the levels: the current one that of the top. *)
MasksStacked(tr, stack) ==
    /\ TrackerOk(tr) /\ IsSeq(tr.maskStack) /\ Len(tr.maskStack) = Len(stack) - 1
    /\ \A k \in 1 .. Len(stack) - 1 : tr.maskStack[k] = stack[k].mask
    /\ tr.mask = Top(stack).mask
    /\ stack[1].mask = AllMask

(* A register has, for each pass, the last packet of the submit that wrote it. *)
Enabled(s, q, i) ==
    \/ s[q].aux.insts = <<>> /\ i \in AllMask
    \/ /\ s[q].aux.insts # <<>>
       /\ \E n \in Of(s, "Ib") : s[n].aux.inst = Last(s[q].aux.insts) /\ i \in s[n].aux.mask

Writes(s, from, i) ==
    {q \in Of(s, "Packet") : q > from /\ s[q].aux.op = "reg" /\ Enabled(s, q, i)}

LastWritten(s, from, reg) ==
    \A i \in Passes : /\ reg[i] = NoNode \/ reg[i] \in Writes(s, from, i)
                      /\ \A q \in Writes(s, from, i) : q <= reg[i]

(* No packet is younger than the last one. *)
LastPacket(c) ==
    /\ c.lastAdded \in 1 .. Len(c.nodes)
    /\ \A q \in Of(c.nodes, "Packet") : q <= c.lastAdded

(* The packets emulated in an open IB are those since its first one. *)
StartsExact(c, stack) ==
    /\ \A k \in 1 .. Len(c.startStack["Submit"]) :
          /\ c.startStack["Submit"][k] \in Of(c.nodes, "Packet")
          /\ \A q \in Of(c.nodes, "Packet") :
                stack[k + 1].inst \in Range(c.nodes[q].aux.insts) <=> q >= c.startStack["Submit"][k]
    /\ c.newIb /\ c.ibStack # <<>> => Inside(c.nodes, Top(stack).inst) = {}

OpenIn(stack, i) == \E k \in 2 .. Len(stack) : stack[k].inst = i

(* The range of an IB that was left holds its packets, and no other packet. *)
RangeExact(s, n) ==
    \A q \in Of(s, "Packet") :
        q \in s[n].start["Submit"] .. s[n].end["Submit"] <=> s[n].aux.inst \in Range(s[q].aux.insts)

Ranges(s, stack) ==
    \A n \in Of(s, "Ib") :
        /\ s[n].start["Submit"] \in Nat /\ s[n].end["Submit"] \in 1 .. Len(s)
        /\ Inside(s, s[n].aux.inst) = {} => s[n].start["Submit"] = kRootNodeIndex
        /\ \/ OpenIn(stack, s[n].aux.inst)
           \/ Inside(s, s[n].aux.inst) = {}
           \/ RangeExact(s, n)

History(c, stack, entered) ==
    /\ IbNumbers(c.nodes, entered) /\ InstsKnown(c.nodes)
    /\ OpenIbs(c, stack) /\ MasksStacked(c.tracker, stack)
    /\ LastWritten(c.nodes, c.submitNode, c.tracker.reg)
    /\ LastPacket(c) /\ StartsExact(c, stack) /\ Ranges(c.nodes, stack)

(* Nothing that counts is added: neither an IB nor a packet. *)
Quiet(s, d) ==
    /\ Len(s) \in Nat /\ Len(d) \in Nat
    /\ Kept(s, d, "Submit")
    /\ \A n \in 1 .. Len(d) : n > Len(s) => d[n].type \notin {"Packet", "Ib"}

(* The same, seen by type. *)
SameOf(s, d, type) ==
    /\ Of(d, type) = Of(s, type)
    /\ \A n \in Of(s, type) : /\ d[n].aux = s[n].aux
                              /\ d[n].start["Submit"] = s[n].start["Submit"]
                              /\ d[n].end["Submit"] = s[n].end["Submit"]

LEMMA QuietSame ==
    ASSUME NEW s, NEW d, Quiet(s, d), NEW type \in {"Packet", "Ib"}
    PROVE  SameOf(s, d, type)
<1>. DEFINE n == Len(s)
            m == Len(d)
<1>1. n \in Nat /\ m \in Nat /\ n <= m
  BY DEF Quiet, Kept, Extends
<1>2. /\ \A i \in 1 .. n : d[i].type = s[i].type /\ d[i].aux = s[i].aux
      /\ \A i \in 1 .. n : /\ d[i].start["Submit"] = s[i].start["Submit"]
                           /\ d[i].end["Submit"] = s[i].end["Submit"]
      /\ \A i \in 1 .. m : i > n => d[i].type # type
  BY DEF Quiet, Kept, Extends, SameIn
<1>. HIDE DEF n, m
<1>3. /\ \A i \in 1 .. n : i \in 1 .. m
      /\ \A i \in 1 .. m : i \in 1 .. n \/ i > n
  BY <1>1
<1>4. {i \in 1 .. m : d[i].type = type} = {i \in 1 .. n : s[i].type = type}
  BY <1>2, <1>3
<1>. QED
  BY <1>2, <1>4 DEF SameOf, Of, n, m

LEMMA QuietRecords ==
    ASSUME NEW s, NEW d, Quiet(s, d), NEW entered, NEW stack
    PROVE  /\ IbNumbers(s, entered) => IbNumbers(d, entered)
           /\ InstsKnown(s) => InstsKnown(d)
           /\ \A i : Inside(d, i) = Inside(s, i)
           /\ \A i : \A q \in Of(s, "Packet") : Enabled(d, q, i) = Enabled(s, q, i)
           /\ Ranges(s, stack) => Ranges(d, stack)
<1>1. SameOf(s, d, "Packet") /\ SameOf(s, d, "Ib")
  BY QuietSame
<1>2. IbNumbers(s, entered) => IbNumbers(d, entered)
  BY <1>1 DEF IbNumbers, SameOf
<1>3. InstsKnown(s) => InstsKnown(d)
  BY <1>1 DEF InstsKnown, SameOf
<1>4. \A i : Inside(d, i) = Inside(s, i)
  BY <1>1 DEF Inside, SameOf
<1>5. \A i : \A q \in Of(s, "Packet") : Enabled(d, q, i) = Enabled(s, q, i)
  <2>. SUFFICES ASSUME NEW i, NEW q \in Of(s, "Packet") PROVE Enabled(d, q, i) = Enabled(s, q, i)
    OBVIOUS
  <2>1. d[q].aux = s[q].aux
    BY <1>1 DEF SameOf
  <2>2. (\E n \in Of(d, "Ib") : d[n].aux.inst = Last(s[q].aux.insts) /\ i \in d[n].aux.mask)
        <=> (\E n \in Of(s, "Ib") : s[n].aux.inst = Last(s[q].aux.insts) /\ i \in s[n].aux.mask)
    BY <1>1 DEF SameOf
  <2>. QED
    BY <2>1, <2>2 DEF Enabled
<1>6. Ranges(s, stack) => Ranges(d, stack)
  <2>. SUFFICES ASSUME Ranges(s, stack), NEW n \in Of(s, "Ib")
                PROVE  /\ d[n].start["Submit"] \in Nat /\ d[n].end["Submit"] \in 1 .. Len(d)
                       /\ Inside(d, d[n].aux.inst) = {} => d[n].start["Submit"] = kRootNodeIndex
                       /\ \/ OpenIn(stack, d[n].aux.inst)
                          \/ Inside(d, d[n].aux.inst) = {}
                          \/ RangeExact(d, n)
    BY <1>1 DEF Ranges, SameOf
  <2>1. /\ d[n].aux = s[n].aux /\ d[n].start["Submit"] = s[n].start["Submit"]
        /\ d[n].end["Submit"] = s[n].end["Submit"]
    BY <1>1 DEF SameOf
  <2>2. RangeExact(s, n) => RangeExact(d, n)
    BY <1>1, <2>1 DEF RangeExact, SameOf
  <2>3. s[n].end["Submit"] \in 1 .. Len(d)
    <3>1. Len(s) \in Nat /\ Len(d) \in Nat /\ Len(s) <= Len(d) /\ s[n].end["Submit"] \in 1 .. Len(s)
      BY DEF Quiet, Kept, Extends, Ranges
    <3>. QED
      BY <3>1
  <2>. QED
    BY <1>4, <2>1, <2>2, <2>3 DEF Ranges
<1>. QED
  BY <1>2, <1>3, <1>4, <1>5, <1>6

LEMMA QuietWrites ==
    ASSUME NEW s, NEW d, Quiet(s, d), NEW from, NEW i
    PROVE  Writes(d, from, i) = Writes(s, from, i)
<1>1. SameOf(s, d, "Packet")
  BY QuietSame
<1>2. \A q \in Of(s, "Packet") : Enabled(d, q, i) = Enabled(s, q, i)
  BY QuietRecords
<1>. QED
  BY <1>1, <1>2 DEF Writes, SameOf

LEMMA FrontSeq ==
    ASSUME NEW s, IsSeq(s), Len(s) # 0
    PROVE  /\ IsSeq(Front(s)) /\ Len(Front(s)) = Len(s) - 1
           /\ \A i \in 1 .. Len(s) - 1 : Front(s)[i] = s[i]
           /\ Last(s) = s[Len(s)] /\ Len(s) \in 1 .. Len(s) /\ Len(s) - 1 \in Nat
<1>. DEFINE n == Len(s)
            d == Front(s)
<1>1. n \in Nat /\ n # 0
  BY SeqFacts
<1>. HIDE DEF n
<1>2. n - 1 \in Nat /\ n \in 1 .. n
  BY <1>1
<1>3. d = [i \in 1 .. n - 1 |-> s[i]]
  BY <1>1, <1>2 DEF Front, n, IsSeq
<1>4. IsSeq(d) /\ Len(d) = n - 1 /\ \A i \in 1 .. n - 1 : d[i] = s[i]
  <2>. HIDE DEF d
  <2>1. \A i \in 1 .. n - 1 : d[i] = s[i]
    BY <1>3
  <2>2. d = [i \in 1 .. n - 1 |-> d[i]]
    BY <1>3, <2>1
  <2>. QED
    BY <1>2, <2>1, <2>2, SeqIntro
<1>. QED
  BY <1>2, <1>4 DEF n, Last

LEMMA BuildsQuiet ==
    ASSUME NEW c, Good(c), NEW d, NEW T, Builds(c, d, T, "Submit"), "Packet" \notin T, "Ib" \notin T
    PROVE  Quiet(c.nodes, d.nodes)
<1>1. Len(c.nodes) \in Nat /\ Len(d.nodes) \in Nat
  BY GoodNodes DEF Builds
<1>. QED
  BY <1>1 DEF Builds, AddsOnly, Quiet

(* The emulator changes levels, but neither their IBs nor their masks. *)
Mirrors(stack, r) ==
    /\ Len(r) = Len(stack)
    /\ \A k \in 1 .. Len(stack) : r[k].inst = stack[k].inst /\ r[k].mask = stack[k].mask

LEMMA MirrorHistory ==
    ASSUME NEW c, Good(c), NEW stack, NEW r, Len(stack) \in Nat, Len(stack) >= 1, Mirrors(stack, r),
           NEW entered, History(c, stack, entered), Len(c.startStack["Submit"]) <= Len(stack) - 1
    PROVE  History(c, r, entered)
<1>. DEFINE n == Len(stack)
            m == Len(c.startStack["Submit"])
<1>1. n \in Nat /\ n >= 1 /\ Len(r) = n /\ m \in Nat /\ m <= n - 1
  BY SeqFacts DEF Mirrors, Good
<1>2. \A k \in 1 .. n : r[k].inst = stack[k].inst /\ r[k].mask = stack[k].mask
  BY DEF Mirrors
<1>. HIDE DEF n, m
<1>3. /\ \A k \in 1 .. n - 1 : k \in 1 .. n /\ k + 1 \in 1 .. n
      /\ \A k \in 1 .. m : k + 1 \in 1 .. n
      /\ \A k \in 2 .. n : k \in 1 .. n
      /\ n \in 1 .. n /\ 1 \in 1 .. n
  BY <1>1
<1>4. OpenIbs(c, r)
  BY <1>1, <1>2, <1>3 DEF History, OpenIbs, n
<1>5. MasksStacked(c.tracker, r)
  BY <1>1, <1>2, <1>3 DEF History, MasksStacked, Top, n
<1>6. StartsExact(c, r)
  BY <1>1, <1>2, <1>3 DEF History, StartsExact, Top, n, m
<1>7. \A i : OpenIn(stack, i) <=> OpenIn(r, i)
  BY <1>1, <1>2, <1>3 DEF OpenIn, n
<1>8. Ranges(c.nodes, r)
  BY <1>7 DEF History, Ranges
<1>. QED
  BY <1>4, <1>5, <1>6, <1>8 DEF History

LEMMA SubmitEndHistory ==
    ASSUME NEW c, Good(c), NEW d, NEW T, Builds(c, d, T, "Submit"), "Packet" \notin T, "Ib" \notin T,
           NEW stack, NEW entered, History(c, stack, entered)
    PROVE  History(d, stack, entered)
<1>. DEFINE s == c.nodes
            e == d.nodes
<1>1. Quiet(s, e)
  BY BuildsQuiet
<1>2. /\ d.tracker = c.tracker /\ d.submitNode = c.submitNode /\ d.lastAdded = c.lastAdded
      /\ d.ibStack = c.ibStack /\ d.newIb = c.newIb
      /\ d.startStack["Submit"] = c.startStack["Submit"]
  BY DEF Builds, SameFields, RangeFields
<1>3. SameOf(s, e, "Packet") /\ SameOf(s, e, "Ib")
  BY <1>1, QuietSame
<1>4. IbNumbers(e, entered) /\ InstsKnown(e) /\ Ranges(e, stack) /\ \A i : Inside(e, i) = Inside(s, i)
  BY <1>1, QuietRecords DEF History
<1>5. OpenIbs(d, stack)
  BY <1>2, <1>3, ZenonT(60) DEF History, OpenIbs, SameOf
<1>6. LastWritten(e, d.submitNode, d.tracker.reg)
  BY <1>1, <1>2, QuietWrites DEF History, LastWritten
<1>7. LastPacket(d)
  <2>1. Len(s) \in Nat /\ Len(e) \in Nat /\ Len(s) <= Len(e) /\ c.lastAdded \in 1 .. Len(s)
    BY <1>1 DEF Quiet, Kept, Extends, History, LastPacket
  <2>2. c.lastAdded \in 1 .. Len(e)
    BY <2>1
  <2>. QED
    BY <1>2, <1>3, <2>2 DEF History, LastPacket, SameOf
<1>8. StartsExact(d, stack)
  BY <1>2, <1>3, <1>4 DEF History, StartsExact, SameOf
<1>. QED
  BY <1>2, <1>4, <1>5, <1>6, <1>7, <1>8 DEF History

LEMMA SubmitStartHistory ==
    ASSUME NEW c, Good(c), NEW d, SubmitBegun(c, d, Len(d.nodes)),
           NEW stack, Len(stack) = 1, NEW r, Len(r) = 1, r[1].mask = AllMask,
           NEW entered, History(c, stack, entered)
    PROVE  History(d, r, entered)
<1>. DEFINE s == c.nodes
            e == d.nodes
            n == Len(e)
<1>1. Quiet(s, e) /\ n = Len(s) + 1 /\ Len(s) \in Nat
  <2>1. /\ n = Len(s) + 1 /\ Len(s) \in Nat /\ e[n].type = "Submit" /\ Kept(s, e, "Submit")
    BY DEF SubmitBegun
  <2>2. \A m \in 1 .. n : m > Len(s) => m = n
    BY <2>1
  <2>3. n \in Nat
    BY <2>1
  <2>. QED
    BY <2>1, <2>2, <2>3 DEF Quiet
<1>3. SameOf(s, e, "Packet") /\ SameOf(s, e, "Ib")
  BY <1>1, QuietSame
<1>4. IbNumbers(e, entered) /\ InstsKnown(e) /\ Ranges(e, stack)
  BY <1>1, QuietRecords DEF History
<1>5. Ranges(e, r)
  <2>1. \A i : ~OpenIn(stack, i)
    BY DEF OpenIn
  <2>. QED
    BY <1>4, <2>1 DEF Ranges
<1>6. /\ Len(d.ibStack) = 0 /\ Len(d.startStack["Submit"]) = 0 /\ d.ibStack = <<>>
  BY EmptySequence DEF SubmitBegun, Topologies
<1>7. OpenIbs(d, r) /\ StartsExact(d, r)
  BY <1>6 DEF OpenIbs, StartsExact
<1>8. MasksStacked(d.tracker, r)
  <2>1. /\ IsSeq(c.tracker.maskStack) /\ Len(c.tracker.maskStack) = 0 /\ c.tracker.mask = AllMask
    BY DEF History, MasksStacked, Top
  <2>. QED
    BY <2>1 DEF MasksStacked, SubmitBegun, Top
<1>9. LastWritten(e, d.submitNode, d.tracker.reg)
  <2>1. \A q \in Of(s, "Packet") : q \in 1 .. Len(s)
    BY DEF Of
  <2>. DEFINE N == Len(s)
  <2>. HIDE DEF N, n
  <2>2. \A q \in 1 .. N : ~(q > N + 1)
    BY <1>1 DEF N
  <2>3. \A i : Writes(e, n, i) = {}
    BY <1>1, <1>3, <2>1, <2>2 DEF Writes, SameOf, N
  <2>. QED
    BY <2>3 DEF LastWritten, SubmitBegun, n
<1>10. LastPacket(d)
  <2>1. c.lastAdded \in 1 .. Len(s) /\ d.lastAdded = c.lastAdded
    BY DEF History, LastPacket, SubmitBegun
  <2>2. c.lastAdded \in 1 .. n
    BY <1>1, <2>1
  <2>. QED
    BY <1>3, <2>1, <2>2 DEF History, LastPacket, SameOf
<1>. QED
  BY <1>4, <1>5, <1>7, <1>8, <1>9, <1>10 DEF History

LEMMA KnownInsts ==
    ASSUME NEW s, NEW entered, IbNumbers(s, entered), InstsKnown(s), NEW q \in Of(s, "Packet")
    PROVE  /\ \A i \in Range(s[q].aux.insts) : i \in 1 .. entered
           /\ s[q].aux.insts # <<>> => Last(s[q].aux.insts) \in Range(s[q].aux.insts)
<1>1. \A i \in Range(s[q].aux.insts) : i \in 1 .. entered
  BY DEF IbNumbers, InstsKnown
<1>. DEFINE u == s[q].aux.insts
<1>2. IsSeq(u)
  BY DEF InstsKnown
<1>. HIDE DEF u
<1>3. u # <<>> => Last(u) \in Range(u)
  BY <1>2, NonEmptySeq, SeqFacts
<1>. QED
  BY <1>1, <1>3 DEF u

(* An IB is entered. *)
Grown(stack, r, level) ==
    /\ Len(r) = Len(stack) + 1 /\ r[Len(stack) + 1] = level
    /\ \A k \in 1 .. Len(stack) : r[k].inst = stack[k].inst /\ r[k].mask = stack[k].mask

LEMMA EnterHistory ==
    ASSUME NEW c, Good(c), NEW cur, NEW d, IbEntered(c, cur, d, Len(d.nodes)),
           NEW stack, Len(stack) \in Nat, Len(stack) >= 1, NEW r, Grown(stack, r, cur),
           NEW entered, cur.inst = entered + 1, History(c, stack, entered),
           Len(c.startStack["Submit"]) <= Len(stack) - 1
    PROVE  History(d, r, entered + 1)
<1>. DEFINE s == c.nodes
            e == d.nodes
            n == Len(e)
            N == Len(s)
            L == Len(stack)
            x == entered + 1
            P == Of(s, "Packet")
            I == Of(s, "Ib")
<1>1. /\ N \in Nat /\ n \in Nat /\ n > N /\ L \in Nat /\ L >= 1 /\ entered \in Nat
      /\ x \in Nat /\ Len(r) = L + 1
  BY GoodNodes DEF IbEntered, History, IbNumbers, Grown
<1>2. /\ \A i \in 1 .. N : /\ e[i].type = s[i].type /\ e[i].aux = s[i].aux
                           /\ e[i].start["Submit"] = s[i].start["Submit"]
                           /\ e[i].end["Submit"] = s[i].end["Submit"]
      /\ \A i \in 1 .. n : i > N /\ i # n => e[i].type = "Field"
      /\ e[n].type = "Ib" /\ e[n].aux.inst = x /\ e[n].aux.mask = cur.mask
      /\ e[n].start["Submit"] = 1 /\ e[n].end["Submit"] = 1
  BY DEF IbEntered, Kept, Extends, SameIn
<1>3. /\ \A i \in 1 .. N : i \in 1 .. n /\ i # n
      /\ \A i \in 1 .. n : i \in 1 .. N \/ i > N
      /\ n \in 1 .. n /\ 1 \in 1 .. n /\ 1 \in Nat
  <2>. HIDE DEF n, N
  <2>. QED
    BY <1>1
<1>4. /\ Of(e, "Packet") = P /\ Of(e, "Ib") = I \cup {n} /\ n \notin I
      /\ \A q \in P : e[q].aux = s[q].aux
      /\ \A m \in I : /\ e[m].aux = s[m].aux
                      /\ e[m].start["Submit"] = s[m].start["Submit"]
                      /\ e[m].end["Submit"] = s[m].end["Submit"]
  <2>. HIDE DEF n, N
  <2>1. /\ P = {i \in 1 .. N : s[i].type = "Packet"} /\ I = {i \in 1 .. N : s[i].type = "Ib"}
        /\ Of(e, "Packet") = {i \in 1 .. n : e[i].type = "Packet"}
        /\ Of(e, "Ib") = {i \in 1 .. n : e[i].type = "Ib"}
    BY DEF Of, n, N
  <2>. HIDE DEF P, I, s, e
  <2>. QED
    BY <1>2, <1>3, <2>1
<1>5. \A q \in P : /\ x \notin Range(s[q].aux.insts)
                   /\ s[q].aux.insts # <<>> => Last(s[q].aux.insts) # x
  <2>1. \A q \in P : /\ \A i \in Range(s[q].aux.insts) : i \in 1 .. entered
                     /\ s[q].aux.insts # <<>> => Last(s[q].aux.insts) \in Range(s[q].aux.insts)
    BY KnownInsts DEF History
  <2>2. x \notin 1 .. entered
    BY <1>1
  <2>. QED
    BY <2>1, <2>2
<1>6. \A m \in I : s[m].aux.inst \in 1 .. entered /\ s[m].aux.inst \in 1 .. x /\ s[m].aux.inst # x
  <2>1. \A i \in 1 .. entered : i \in 1 .. x /\ i # x
    BY <1>1
  <2>. QED
    BY <2>1 DEF History, IbNumbers
<1>7. IbNumbers(e, x)
  <2>1. \A m, k \in I : s[m].aux.inst = s[k].aux.inst => m = k
    BY DEF History, IbNumbers
  <2>2. x \in 1 .. x
    BY <1>1
  <2>. HIDE DEF x, P, I, n
  <2>3. \A m \in I \cup {n} : e[m].aux.inst = IF m = n THEN x ELSE s[m].aux.inst
    BY <1>2, <1>4
  <2>4. \A m \in I \cup {n} : e[m].aux.inst \in 1 .. x
    BY <1>6, <2>2, <2>3
  <2>5. \A m, k \in I \cup {n} : e[m].aux.inst = e[k].aux.inst => m = k
    BY <1>6, <2>1, <2>3
  <2>. QED
    BY <1>1, <1>4, <2>4, <2>5 DEF IbNumbers
<1>8. InstsKnown(e)
  <2>1. \A q \in P : /\ IsSeq(s[q].aux.insts)
                     /\ \A i \in Range(s[q].aux.insts) : \E m \in I : s[m].aux.inst = i
    BY DEF History, InstsKnown
  <2>. HIDE DEF P, I, n
  <2>. QED
    BY <1>4, <2>1 DEF InstsKnown
<1>9. \A i : Inside(e, i) = Inside(s, i)
  BY <1>4 DEF Inside
<1>10. Inside(e, x) = {}
  BY <1>5, <1>9 DEF Inside
<1>11. /\ d.ibStack = Append(c.ibStack, n) /\ d.newIb = TRUE
       /\ d.startStack["Submit"] = c.startStack["Submit"]
       /\ d.tracker = PushEnableMask(c.tracker, cur.mask)
       /\ d.submitNode = c.submitNode /\ d.lastAdded = c.lastAdded
  BY DEF IbEntered
<1>12. /\ r[L + 1] = cur
       /\ \A k \in 1 .. L : r[k].inst = stack[k].inst /\ r[k].mask = stack[k].mask
  BY DEF Grown
<1>13. OpenIbs(d, r)
  <2>. DEFINE u == c.ibStack
              v == Append(u, n)
  <2>1. IsSeq(u) /\ Len(u) = L - 1
    BY DEF Good, IbsHeld, History, OpenIbs
  <2>2. Len(v) = L /\ v[L] = n /\ \A k \in 1 .. L - 1 : v[k] = u[k]
    <3>1. Len(v) = Len(u) + 1 /\ (\A k \in 1 .. Len(u) : v[k] = u[k]) /\ v[Len(u) + 1] = n
      BY <2>1, AppendSeq
    <3>2. L - 1 + 1 = L
      BY <1>1
    <3>. QED
      BY <2>1, <3>1, <3>2, Zenon
  <2>3. \A k \in 1 .. L - 1 : /\ u[k] \in I /\ s[u[k]].aux.inst = stack[k + 1].inst
                              /\ s[u[k]].aux.mask = stack[k + 1].mask
    BY DEF History, OpenIbs
  <2>. HIDE DEF u, v, L, n, I
  <2>4. \A k \in 1 .. L : k = L \/ (k \in 1 .. L - 1 /\ k + 1 \in 1 .. L)
    BY <1>1
  <2>5. \A k \in 1 .. L : /\ v[k] \in Of(e, "Ib") /\ e[v[k]].aux.inst = r[k + 1].inst
                          /\ e[v[k]].aux.mask = r[k + 1].mask
    <3>. SUFFICES ASSUME NEW k \in 1 .. L
                  PROVE  /\ v[k] \in I \cup {n} /\ e[v[k]].aux.inst = r[k + 1].inst
                         /\ e[v[k]].aux.mask = r[k + 1].mask
      BY <1>4
    <3>1. CASE k = L
      BY <1>2, <1>12, <2>2, <3>1
    <3>2. CASE k \in 1 .. L - 1 /\ k + 1 \in 1 .. L
      BY <1>4, <1>12, <2>2, <2>3, <3>2, SMTT(40)
    <3>. QED
      BY <2>4, <3>1, <3>2
  <2>6. Len(r) - 1 = L
    BY <1>1
  <2>. QED
    BY <1>11, <2>2, <2>5, <2>6 DEF OpenIbs, u, v
<1>14. MasksStacked(d.tracker, r)
  <2>. DEFINE u == c.tracker.maskStack
              v == Append(u, c.tracker.mask)
  <2>1. /\ TrackerOk(c.tracker) /\ IsSeq(u) /\ Len(u) = L - 1
        /\ \A k \in 1 .. L - 1 : u[k] = stack[k].mask
        /\ c.tracker.mask = stack[L].mask /\ stack[1].mask = AllMask
    BY DEF History, MasksStacked, Top
  <2>2. d.tracker = [c.tracker EXCEPT !.maskStack = v, !.mask = cur.mask]
    BY <1>11 DEF PushEnableMask
  <2>. HIDE DEF v
  <2>3. TrackerOk(d.tracker) /\ d.tracker.maskStack = v /\ d.tracker.mask = cur.mask
    BY <2>1, <2>2 DEF TrackerOk
  <2>4. IsSeq(v) /\ Len(v) = L /\ v[L] = c.tracker.mask /\ \A k \in 1 .. L - 1 : v[k] = u[k]
    <3>1. /\ IsSeq(v) /\ Len(v) = Len(u) + 1 /\ v[Len(u) + 1] = c.tracker.mask
          /\ \A k \in 1 .. Len(u) : v[k] = u[k]
      BY <2>1, AppendSeq DEF v
    <3>2. L - 1 + 1 = L
      BY <1>1
    <3>. QED
      BY <2>1, <3>1, <3>2
  <2>. HIDE DEF u, L
  <2>5. \A k \in 1 .. L : k = L \/ k \in 1 .. L - 1
    BY <1>1
  <2>6. \A k \in 1 .. L : v[k] = r[k].mask
    BY <1>12, <2>1, <2>4, <2>5
  <2>7. 1 \in 1 .. L /\ Len(r) - 1 = L
    BY <1>1
  <2>8. Top(r) = cur /\ r[1].mask = AllMask
    BY <1>1, <1>12, <2>1, <2>7 DEF Top
  <2>. QED
    BY <2>3, <2>4, <2>6, <2>7, <2>8 DEF MasksStacked
<1>15. LastWritten(e, d.submitNode, d.tracker.reg)
  <2>1. d.tracker.reg = c.tracker.reg
    BY <1>11 DEF PushEnableMask, History, MasksStacked, TrackerOk
  <2>2. \A q \in P : \A i : Enabled(e, q, i) <=> Enabled(s, q, i)
    <3>. SUFFICES ASSUME NEW q \in P, NEW i PROVE Enabled(e, q, i) <=> Enabled(s, q, i)
      OBVIOUS
    <3>. DEFINE u == s[q].aux.insts
    <3>1. e[q].aux.insts = u /\ (u # <<>> => Last(u) # x)
      BY <1>4, <1>5
    <3>. HIDE DEF u, x, I, P, n
    <3>2. u # <<>> =>
            ((\E m \in Of(e, "Ib") : e[m].aux.inst = Last(u) /\ i \in e[m].aux.mask)
             <=> (\E m \in I : s[m].aux.inst = Last(u) /\ i \in s[m].aux.mask))
      BY <1>2, <1>4, <3>1
    <3>. QED
      BY <3>1, <3>2 DEF Enabled, u, I
  <2>3. \A i : Writes(e, c.submitNode, i) = Writes(s, c.submitNode, i)
    BY <1>4, <2>2 DEF Writes
  <2>. QED
    BY <1>11, <2>1, <2>3 DEF History, LastWritten
<1>16. LastPacket(d)
  <2>1. c.lastAdded \in 1 .. N /\ \A q \in P : q <= c.lastAdded
    BY DEF History, LastPacket
  <2>. QED
    BY <1>3, <1>4, <1>11, <2>1 DEF LastPacket
<1>17. StartsExact(d, r)
  <2>. DEFINE S == c.startStack["Submit"]
              m == Len(S)
  <2>1. m \in Nat /\ m <= L - 1
    BY SeqFacts DEF Good
  <2>2. \A k \in 1 .. m : /\ S[k] \in P
                          /\ \A q \in P : stack[k + 1].inst \in Range(s[q].aux.insts) <=> q >= S[k]
    BY DEF History, StartsExact
  <2>. HIDE DEF m, L, P, S
  <2>3. \A k \in 1 .. m : k + 1 \in 1 .. L
    BY <1>1, <2>1
  <2>4. \A k \in 1 .. m : /\ S[k] \in P
                          /\ \A q \in P : r[k + 1].inst \in Range(e[q].aux.insts) <=> q >= S[k]
    BY <1>4, <1>12, <2>2, <2>3
  <2>5. Inside(e, Top(r).inst) = {}
    BY <1>1, <1>10, <1>12 DEF Top
  <2>. QED
    BY <1>4, <1>11, <2>4, <2>5 DEF StartsExact, S, m
<1>18. Ranges(e, r)
  <2>. SUFFICES ASSUME NEW m \in I \cup {n}
                PROVE  /\ e[m].start["Submit"] \in Nat /\ e[m].end["Submit"] \in 1 .. n
                       /\ Inside(e, e[m].aux.inst) = {} => e[m].start["Submit"] = kRootNodeIndex
                       /\ \/ OpenIn(r, e[m].aux.inst)
                          \/ Inside(e, e[m].aux.inst) = {}
                          \/ RangeExact(e, m)
    BY <1>4 DEF Ranges
  <2>1. CASE m = n
    BY <1>2, <1>3, <1>10, <2>1 DEF kRootNodeIndex
  <2>2. CASE m \in I
    <3>1. /\ s[m].start["Submit"] \in Nat /\ s[m].end["Submit"] \in 1 .. N
          /\ Inside(s, s[m].aux.inst) = {} => s[m].start["Submit"] = kRootNodeIndex
          /\ \/ OpenIn(stack, s[m].aux.inst)
             \/ Inside(s, s[m].aux.inst) = {}
             \/ RangeExact(s, m)
      BY <2>2 DEF History, Ranges
    <3>2. RangeExact(s, m) => RangeExact(e, m)
      BY <1>4, <2>2 DEF RangeExact
    <3>3. OpenIn(stack, s[m].aux.inst) => OpenIn(r, s[m].aux.inst)
      <4>. HIDE DEF L
      <4>1. \A k \in 2 .. L : k \in 1 .. L /\ k \in 2 .. L + 1
        BY <1>1
      <4>. QED
        BY <1>1, <1>12, <4>1 DEF OpenIn, L
    <3>. QED
      BY <1>3, <1>4, <1>9, <2>2, <3>1, <3>2, <3>3
  <2>. QED
    BY <2>1, <2>2
<1>. QED
  BY <1>7, <1>8, <1>13, <1>14, <1>15, <1>16, <1>17, <1>18 DEF History

(* The nodes stay as they were created. *)
SameAux(s, d) ==
    /\ Of(d, "Packet") = Of(s, "Packet") /\ Of(d, "Ib") = Of(s, "Ib") /\ Len(d) = Len(s)
    /\ \A n \in 1 .. Len(s) : d[n].aux = s[n].aux

LEMMA AuxRecords ==
    ASSUME NEW s, NEW d, SameAux(s, d), NEW entered, NEW from
    PROVE  /\ IbNumbers(s, entered) => IbNumbers(d, entered)
           /\ InstsKnown(s) => InstsKnown(d)
           /\ \A i : Inside(d, i) = Inside(s, i)
           /\ \A i : Writes(d, from, i) = Writes(s, from, i)
<1>. DEFINE P == Of(s, "Packet")
            I == Of(s, "Ib")
<1>1. /\ \A q \in P : d[q].aux = s[q].aux
      /\ \A q \in I : d[q].aux = s[q].aux
      /\ Of(d, "Packet") = P /\ Of(d, "Ib") = I
  BY DEF SameAux, Of
<1>. HIDE DEF P, I
<1>2. IbNumbers(s, entered) => IbNumbers(d, entered)
  BY <1>1 DEF IbNumbers, I
<1>3. InstsKnown(s) => InstsKnown(d)
  BY <1>1 DEF InstsKnown, I, P
<1>4. \A i : Inside(d, i) = Inside(s, i)
  BY <1>1 DEF Inside, P
<1>5. \A q \in P : \A i : Enabled(d, q, i) <=> Enabled(s, q, i)
  <2>. SUFFICES ASSUME NEW q \in P, NEW i PROVE Enabled(d, q, i) <=> Enabled(s, q, i)
    OBVIOUS
  <2>. DEFINE u == s[q].aux.insts
  <2>1. d[q].aux.insts = u
    BY <1>1
  <2>. HIDE DEF u
  <2>2. (\E m \in Of(d, "Ib") : d[m].aux.inst = Last(u) /\ i \in d[m].aux.mask)
        <=> (\E m \in I : s[m].aux.inst = Last(u) /\ i \in s[m].aux.mask)
    BY <1>1
  <2>. QED
    BY <2>1, <2>2 DEF Enabled, u, I
<1>6. \A i : Writes(d, from, i) = Writes(s, from, i)
  BY <1>1, <1>5 DEF Writes, P
<1>. QED
  BY <1>2, <1>3, <1>4, <1>6

LEMMA FrontBelow ==
    ASSUME NEW s, IsSeq(s), NEW n \in Nat, n >= 2, Len(s) = n - 1
    PROVE  /\ IsSeq(Front(s)) /\ Len(Front(s)) = n - 2 /\ Last(s) = s[n - 1] /\ s # <<>>
           /\ \A k \in 1 .. n - 2 : Front(s)[k] = s[k]
<1>1. Len(s) # 0 /\ n - 1 - 1 = n - 2
  OBVIOUS
<1>2. /\ IsSeq(Front(s)) /\ Len(Front(s)) = Len(s) - 1 /\ Last(s) = s[Len(s)]
      /\ \A k \in 1 .. Len(s) - 1 : Front(s)[k] = s[k]
  BY <1>1, FrontSeq
<1>3. s # <<>>
  BY <1>1, EmptySequence
<1>4. Len(s) - 1 = n - 2
  OBVIOUS
<1>. QED
  BY <1>2, <1>3, <1>4

(* An IB is left. *)
Shrunk(stack, r) ==
    /\ Len(r) = Len(stack) - 1
    /\ \A k \in 1 .. Len(stack) - 1 : r[k] = stack[k]

LEMMA LeaveHistory ==
    ASSUME NEW c, Good(c), c.newIb \in BOOLEAN, NEW d, IbClosed(c, d),
           NEW stack, Len(stack) \in Nat, Len(stack) >= 2, NEW r, Shrunk(stack, r),
           NEW entered, History(c, stack, entered),
           Len(c.startStack["Submit"]) = IF c.newIb THEN Len(stack) - 2 ELSE Len(stack) - 1
    PROVE  History(d, r, entered)
<1>. DEFINE s == c.nodes
            e == d.nodes
            N == Len(s)
            L == Len(stack)
            P == Of(s, "Packet")
            I == Of(s, "Ib")
            S == c.startStack["Submit"]
            u == c.ibStack
            m == u[L - 1]
            f == S[L - 1]
<1>1. /\ N \in Nat /\ L \in Nat /\ L >= 2 /\ entered \in Nat /\ Len(r) = L - 1
      /\ \A k \in 1 .. L - 1 : r[k] = stack[k]
  BY GoodNodes DEF History, IbNumbers, Shrunk
<1>2. /\ IsSeq(u) /\ Len(u) = L - 1
      /\ \A k \in 1 .. L - 1 : /\ u[k] \in I /\ s[u[k]].aux.inst = stack[k + 1].inst
                               /\ s[u[k]].aux.mask = stack[k + 1].mask
  BY DEF Good, IbsHeld, History, OpenIbs
<1>3. /\ L - 1 \in 1 .. L - 1 /\ L - 1 + 1 = L /\ Len(u) # 0 /\ L - 1 \in Nat /\ L \in 2 .. L
      /\ L - 2 \in Nat /\ L - 1 - 1 = L - 2 /\ 1 \in 1 .. L - 1 /\ L - 1 # 0
  BY <1>1, <1>2, SMTT(40)
<1>4. /\ Last(u) = m /\ Len(Front(u)) = L - 2 /\ u # <<>>
      /\ \A k \in 1 .. L - 2 : Front(u)[k] = u[k]
  <2>. HIDE DEF u, L
  <2>. QED
    BY <1>1, <1>2, FrontBelow DEF m
<1>5. m \in I /\ s[m].aux.inst = stack[L].inst
  BY <1>2, <1>3, Zenon
<1>6. /\ \A q \in P : q \in 1 .. N
      /\ \A q \in I : q \in 1 .. N
  BY DEF Of
<1>7. ~c.newIb => /\ Last(S) = f /\ Len(Front(S)) = L - 2
                  /\ \A k \in 1 .. L - 2 : Front(S)[k] = S[k]
  <2>1. IsSeq(S)
    BY DEF Good
  <2>2. ~c.newIb => Len(S) = L - 1
    OBVIOUS
  <2>. HIDE DEF S, L
  <2>. QED
    BY <1>1, <2>1, <2>2, FrontBelow DEF f
<1>8. /\ SameAux(s, e)
      /\ \A n \in 1 .. N : n # m => e[n] = s[n]
      /\ c.newIb => e = s
      /\ ~c.newIb => e[m].start["Submit"] = f /\ e[m].end["Submit"] = c.lastAdded
  <2>1. CASE c.newIb
    <3>1. e = s
      BY <2>1 DEF IbClosed
    <3>. QED
      BY <2>1, <3>1 DEF SameAux
  <2>2. CASE ~c.newIb
    <3>1. RangeSet(c, d, "Submit", m, f, c.lastAdded)
      BY <1>4, <1>7, <2>2 DEF IbClosed
    <3>2. /\ Len(e) = N /\ \A n \in 1 .. N : e[n].type = s[n].type /\ e[n].aux = s[n].aux
          /\ \A n \in 1 .. N : n # m => e[n] = s[n]
          /\ e[m].start["Submit"] = f /\ e[m].end["Submit"] = c.lastAdded
      BY <3>1 DEF RangeSet, Extends
    <3>3. \A type : Of(e, type) = Of(s, type)
      BY <3>2 DEF Of
    <3>. QED
      BY <2>2, <3>2, <3>3 DEF SameAux
  <2>. QED
    BY <2>1, <2>2
<1>9. /\ IbNumbers(e, entered) /\ InstsKnown(e)
      /\ \A i : Inside(e, i) = Inside(s, i)
      /\ \A i : Writes(e, c.submitNode, i) = Writes(s, c.submitNode, i)
  BY <1>8, AuxRecords DEF History
<1>10. /\ Of(e, "Packet") = P /\ Of(e, "Ib") = I /\ Len(e) = N
       /\ \A n \in 1 .. N : e[n].aux = s[n].aux
  BY <1>8 DEF SameAux
<1>11. /\ d.ibStack = Front(u) /\ d.newIb = FALSE /\ d.tracker = PopEnableMask(c.tracker)
       /\ d.submitNode = c.submitNode /\ d.lastAdded = c.lastAdded
       /\ d.startStack["Submit"] = IF c.newIb THEN S ELSE Front(S)
  BY DEF IbClosed
<1>12. c.lastAdded \in 1 .. N /\ \A q \in P : q <= c.lastAdded
  BY DEF History, LastPacket
<1>. HIDE DEF N, L, P, I, S, u, m, f
<1>13. \A k \in 1 .. L - 2 : k \in 1 .. L - 1 /\ k + 1 \in 1 .. L - 1
  BY <1>1
<1>14. OpenIbs(d, r)
  <2>1. Len(r) - 1 = L - 2
    BY <1>1
  <2>2. \A k \in 1 .. L - 2 : /\ Front(u)[k] \in I /\ e[Front(u)[k]].aux.inst = r[k + 1].inst
                              /\ e[Front(u)[k]].aux.mask = r[k + 1].mask
    <3>. SUFFICES ASSUME NEW k \in 1 .. L - 2
                  PROVE  /\ Front(u)[k] \in I /\ e[Front(u)[k]].aux.inst = r[k + 1].inst
                         /\ e[Front(u)[k]].aux.mask = r[k + 1].mask
      OBVIOUS
    <3>1. k \in 1 .. L - 1 /\ k + 1 \in 1 .. L - 1
      BY <1>13
    <3>2. Front(u)[k] = u[k]
      BY <1>4
    <3>3. u[k] \in I /\ s[u[k]].aux.inst = stack[k + 1].inst /\ s[u[k]].aux.mask = stack[k + 1].mask
      BY <1>2, <3>1
    <3>4. r[k + 1] = stack[k + 1]
      BY <1>1, <3>1
    <3>5. u[k] \in 1 .. N
      BY <1>6, <3>3
    <3>. QED
      BY <1>10, <3>2, <3>3, <3>4, <3>5
  <2>. QED
    BY <1>4, <1>10, <1>11, <2>1, <2>2 DEF OpenIbs
<1>15. MasksStacked(d.tracker, r)
  <2>. DEFINE v == c.tracker.maskStack
  <2>1. /\ TrackerOk(c.tracker) /\ IsSeq(v) /\ Len(v) = L - 1
        /\ \A k \in 1 .. L - 1 : v[k] = stack[k].mask
        /\ stack[1].mask = AllMask
    BY DEF History, MasksStacked, L
  <2>2. /\ TrackerOk(d.tracker) /\ d.tracker.maskStack = Front(v) /\ d.tracker.mask = Last(v)
    BY <1>11, <2>1 DEF PopEnableMask, TrackerOk
  <2>. HIDE DEF v
  <2>3. /\ IsSeq(Front(v)) /\ Len(Front(v)) = L - 2 /\ Last(v) = v[L - 1]
        /\ \A k \in 1 .. L - 2 : Front(v)[k] = v[k]
    BY <1>1, <2>1, FrontBelow
  <2>4. \A k \in 1 .. L - 2 : Front(v)[k] = r[k].mask
    BY <1>1, <1>13, <2>1, <2>3
  <2>5. Top(r).mask = Last(v) /\ r[1].mask = AllMask /\ Len(r) - 1 = L - 2
    BY <1>1, <1>3, <2>1, <2>3 DEF Top
  <2>. QED
    BY <2>2, <2>3, <2>4, <2>5 DEF MasksStacked
<1>16. LastWritten(e, d.submitNode, d.tracker.reg)
  <2>1. d.tracker.reg = c.tracker.reg
    BY <1>11 DEF PopEnableMask, History, MasksStacked, TrackerOk
  <2>. QED
    BY <1>9, <1>11, <2>1 DEF History, LastWritten
<1>17. LastPacket(d)
  BY <1>10, <1>11, <1>12 DEF LastPacket
<1>18. \A k \in 1 .. Len(S) : /\ S[k] \in P
                              /\ \A q \in P : stack[k + 1].inst \in Range(s[q].aux.insts) <=> q >= S[k]
  BY DEF History, StartsExact, S, P
<1>19. StartsExact(d, r)
  <2>. DEFINE V == d.startStack["Submit"]
  <2>1. Len(V) = L - 2 /\ \A k \in 1 .. L - 2 : V[k] = S[k] /\ k \in 1 .. Len(S)
    BY <1>3, <1>7, <1>11, <1>13, Zenon DEF S, L
  <2>2. \A k \in 1 .. L - 2 : /\ V[k] \in P
                              /\ \A q \in P : r[k + 1].inst \in Range(e[q].aux.insts) <=> q >= V[k]
    BY <1>1, <1>6, <1>10, <1>13, <1>18, <2>1
  <2>. QED
    BY <1>10, <1>11, <2>1, <2>2, SMTT(40) DEF StartsExact
<1>20. Ranges(e, r)
  <2>. SUFFICES ASSUME NEW n \in I
                PROVE  /\ e[n].start["Submit"] \in Nat /\ e[n].end["Submit"] \in 1 .. N
                       /\ Inside(s, s[n].aux.inst) = {} => e[n].start["Submit"] = kRootNodeIndex
                       /\ \/ OpenIn(r, s[n].aux.inst)
                          \/ Inside(s, s[n].aux.inst) = {}
                          \/ RangeExact(e, n)
    BY <1>6, <1>9, <1>10 DEF Ranges
  <2>0. /\ s[n].start["Submit"] \in Nat /\ s[n].end["Submit"] \in 1 .. N
        /\ Inside(s, s[n].aux.inst) = {} => s[n].start["Submit"] = kRootNodeIndex
        /\ \/ OpenIn(stack, s[n].aux.inst)
           \/ Inside(s, s[n].aux.inst) = {}
           \/ RangeExact(s, n)
    BY DEF History, Ranges, I, N
  <2>1. CASE n = m /\ c.newIb
    <3>1. Inside(s, stack[L].inst) = {}
      BY <1>4, <2>1 DEF History, StartsExact, Top, L, u
    <3>. QED
      BY <1>5, <1>8, <2>0, <2>1, <3>1
  <2>2. CASE n = m /\ ~c.newIb
    <3>1. L - 1 \in 1 .. Len(S)
      BY <1>3, <2>2, Zenon DEF S, L
    <3>2. f \in P /\ \A q \in P : s[m].aux.inst \in Range(s[q].aux.insts) <=> q >= f
      BY <1>3, <1>5, <1>18, <3>1 DEF f
    <3>3. /\ f \in Nat /\ \A q \in P : q \in Nat /\ (q \in f .. c.lastAdded <=> q >= f)
      BY <1>1, <1>6, <1>12, <3>2
    <3>4. f >= f
      BY <3>3
    <3>5. f \in Inside(s, s[m].aux.inst)
      BY <3>2, <3>4 DEF Inside, P
    <3>6. RangeExact(e, m)
      BY <1>5, <1>6, <1>8, <1>10, <2>2, <3>2, <3>3 DEF RangeExact
    <3>. QED
      BY <1>8, <1>12, <2>2, <3>3, <3>5, <3>6, SMTT(40)
  <2>3. CASE n # m
    <3>1. e[n] = s[n]
      BY <1>6, <1>8, <2>3
    <3>2. OpenIn(stack, s[n].aux.inst) => OpenIn(r, s[n].aux.inst)
      <4>1. s[n].aux.inst # stack[L].inst
        BY <1>5, <2>3 DEF History, IbNumbers, I
      <4>2. \A k \in 2 .. L : k # L => k \in 2 .. Len(r) /\ k \in 1 .. L - 1
        BY <1>1
      <4>. QED
        BY <1>1, <4>1, <4>2 DEF OpenIn, L
    <3>3. RangeExact(s, n) => RangeExact(e, n)
      BY <1>6, <1>10, <3>1 DEF RangeExact, P
    <3>. QED
      BY <2>0, <3>1, <3>2, <3>3
  <2>. QED
    BY <2>1, <2>2, <2>3
<1>. QED
  BY <1>9, <1>14, <1>15, <1>16, <1>17, <1>19, <1>20 DEF History

(* A packet is emulated. *)
LEMMA InstsOf ==
    ASSUME NEW stack, Len(stack) \in Nat, Len(stack) >= 2, NEW u, u = Insts(stack)
    PROVE  /\ IsSeq(u) /\ u # <<>> /\ Last(u) = Top(stack).inst
           /\ \A k \in 1 .. Len(stack) - 1 : stack[k + 1].inst \in Range(u)
           /\ \A i \in Range(u) : \E k \in 1 .. Len(stack) - 1 : stack[k + 1].inst = i
<1>. DEFINE L == Len(stack)
<1>1. u = [k \in 1 .. L - 1 |-> stack[k + 1].inst]
  BY DEF Insts
<1>0. L \in Nat /\ L >= 2
  OBVIOUS
<1>. HIDE DEF L
<1>2. L \in Nat /\ L >= 2 /\ L - 1 \in Nat /\ L - 1 \in 1 .. L - 1 /\ L - 1 + 1 = L /\ L - 1 # 0
  BY <1>0
<1>3. \A k \in 1 .. L - 1 : u[k] = stack[k + 1].inst
  BY <1>1
<1>4. u = [k \in 1 .. L - 1 |-> u[k]]
  BY <1>1, <1>3
<1>5. IsSeq(u) /\ Len(u) = L - 1
  BY <1>2, <1>4, SeqIntro
<1>6. u # <<>>
  BY <1>2, <1>5, EmptySequence
<1>7. DOMAIN u = 1 .. L - 1
  BY <1>1
<1>8. Last(u) = stack[L].inst
  BY <1>2, <1>3, <1>5 DEF Last
<1>9. \A k \in 1 .. L - 1 : stack[k + 1].inst \in Range(u)
  BY <1>3, <1>7 DEF Range
<1>10. \A i \in Range(u) : \E k \in 1 .. L - 1 : stack[k + 1].inst = i
  BY <1>3, <1>7 DEF Range
<1>. QED
  BY <1>5, <1>6, <1>8, <1>9, <1>10 DEF Top, L

LEMMA PacketHistory ==
    ASSUME NEW c, Good(c), c.newIb \in BOOLEAN, NEW p, NEW insts, NEW d, NEW n,
           PacketAdded(c, p, insts, d, n),
           NEW stack, Len(stack) \in Nat, Len(stack) >= 2, insts = Insts(stack),
           NEW entered, History(c, stack, entered),
           Len(c.startStack["Submit"]) = IF c.newIb THEN Len(stack) - 2 ELSE Len(stack) - 1
    PROVE  History(d, stack, entered)
<1>. DEFINE s == c.nodes
            e == d.nodes
            N == Len(s)
            D == Len(e)
            L == Len(stack)
            P == Of(s, "Packet")
            I == Of(s, "Ib")
            S == c.startStack["Submit"]
            u == c.ibStack
<1>1. /\ N \in Nat /\ D \in Nat /\ n = N + 1 /\ n \in 1 .. D /\ L \in Nat /\ L >= 2 /\ N <= D
  BY GoodNodes DEF PacketAdded, NewPacket
<1>2. /\ \A i \in 1 .. N : /\ e[i].type = s[i].type /\ e[i].aux = s[i].aux
                           /\ e[i].start["Submit"] = s[i].start["Submit"]
                           /\ e[i].end["Submit"] = s[i].end["Submit"]
      /\ \A i \in 1 .. D : i > n => e[i].type \in HandledTypes
      /\ e[n].type = "Packet" /\ e[n].aux.op = p.op /\ e[n].aux.insts = insts
  BY DEF PacketAdded, NewPacket, Kept, Extends, SameIn
<1>3. /\ d.tracker = TrackPacket(c.tracker, p, n) /\ d.submitNode = c.submitNode
      /\ d.ibStack = u /\ d.newIb = FALSE /\ d.lastAdded = n
      /\ d.startStack["Submit"] = IF c.newIb THEN Append(S, n) ELSE S
  BY DEF PacketAdded, Pushed
<1>4. /\ IsSeq(insts) /\ insts # <<>> /\ Last(insts) = Top(stack).inst
      /\ \A k \in 1 .. L - 1 : stack[k + 1].inst \in Range(insts)
      /\ \A i \in Range(insts) : \E k \in 1 .. L - 1 : stack[k + 1].inst = i
  BY InstsOf
<1>5. /\ P = {i \in 1 .. N : s[i].type = "Packet"} /\ I = {i \in 1 .. N : s[i].type = "Ib"}
      /\ Of(e, "Packet") = {i \in 1 .. D : e[i].type = "Packet"}
      /\ Of(e, "Ib") = {i \in 1 .. D : e[i].type = "Ib"}
  BY DEF Of
<1>6. /\ IsSeq(u) /\ Len(u) = L - 1
      /\ \A k \in 1 .. L - 1 : /\ u[k] \in I /\ s[u[k]].aux.inst = stack[k + 1].inst
                               /\ s[u[k]].aux.mask = stack[k + 1].mask
  BY DEF Good, IbsHeld, History, OpenIbs
<1>7. IsSeq(S) /\ Len(S) = IF c.newIb THEN L - 2 ELSE L - 1
  BY DEF Good
<1>8. /\ \A k \in 1 .. Len(S) :
            /\ S[k] \in P
            /\ \A q \in P : stack[k + 1].inst \in Range(s[q].aux.insts) <=> q >= S[k]
      /\ c.newIb /\ u # <<>> => Inside(s, stack[L].inst) = {}
  BY DEF History, StartsExact, Top
<1>9. c.submitNode \in 1 .. N
  BY DEF Good, NodesHeld
<1>. HIDE DEF s, e, N, D, L, P, I, S, u
<1>10. /\ \A i \in 1 .. N : i \in 1 .. D /\ i # n /\ i < n /\ ~(i >= n)
       /\ \A i \in 1 .. D : i \in 1 .. N \/ i = n \/ i > n
       /\ n \notin 1 .. N /\ L - 1 \in 1 .. L - 1 /\ L - 1 + 1 = L /\ n \in Nat /\ L - 2 \in Nat
       /\ L - 2 + 1 = L - 1 /\ L - 1 # 0
  BY <1>1
<1>11. /\ Of(e, "Packet") = P \cup {n} /\ Of(e, "Ib") = I /\ n \notin P
       /\ \A q \in P : q \in 1 .. N /\ e[q].aux = s[q].aux
       /\ \A m \in I : /\ m \in 1 .. N /\ e[m].aux = s[m].aux
                       /\ e[m].start["Submit"] = s[m].start["Submit"]
                       /\ e[m].end["Submit"] = s[m].end["Submit"]
  <2>1. Of(e, "Packet") = P \cup {n}
    BY <1>1, <1>2, <1>5, <1>10 DEF HandledTypes
  <2>2. Of(e, "Ib") = I
    BY <1>1, <1>2, <1>5, <1>10 DEF HandledTypes
  <2>. QED
    BY <1>2, <1>5, <1>10, <2>1, <2>2
<1>12. IbNumbers(e, entered)
  BY <1>11 DEF History, IbNumbers, s, e, I
<1>13. InstsKnown(e)
  <2>1. \A q \in P : /\ IsSeq(s[q].aux.insts)
                     /\ \A i \in Range(s[q].aux.insts) : \E m \in I : s[m].aux.inst = i
    BY DEF History, InstsKnown, s, P, I
  <2>2. \A i \in Range(insts) : \E m \in I : s[m].aux.inst = i
    BY <1>4, <1>6
  <2>3. \A i : (\E m \in I : s[m].aux.inst = i) => \E m \in I : e[m].aux.inst = i
    BY <1>11
  <2>4. \A q \in P \cup {n} : /\ IsSeq(e[q].aux.insts)
                              /\ \A i \in Range(e[q].aux.insts) : \E m \in I : s[m].aux.inst = i
    BY <1>2, <1>4, <1>11, <2>1, <2>2
  <2>. QED
    BY <1>11, <2>3, <2>4 DEF InstsKnown
<1>14. OpenIbs(d, stack)
  BY <1>3, <1>6, <1>11 DEF OpenIbs, e, L
<1>15. MasksStacked(d.tracker, stack)
  <2>1. MasksStacked(c.tracker, stack)
    BY DEF History
  <2>. DEFINE tr == c.tracker
  <2>2. TrackerOk(tr)
    BY <2>1 DEF MasksStacked
  <2>. HIDE DEF tr
  <2>3. LET v == TrackPacket(tr, p, n) IN TrackerOk(v) /\ v.mask = tr.mask /\ v.maskStack = tr.maskStack
    BY <2>2 DEF TrackPacket, SetReg, TrackerOk
  <2>. QED
    BY <1>3, <2>1, <2>3 DEF MasksStacked, tr
<1>16. LastPacket(d)
  <2>1. \A q \in P \cup {n} : q <= n
    BY <1>1, <1>10, <1>11
  <2>. QED
    BY <1>1, <1>3, <1>11, <2>1 DEF LastPacket, e, D
<1>17. StartsExact(d, stack)
  <2>. DEFINE V == d.startStack["Submit"]
  <2>1. \A k \in 1 .. L - 1 : stack[k + 1].inst \in Range(e[n].aux.insts)
    BY <1>2, <1>4
  <2>2. \A k \in 1 .. Len(S) : k \in 1 .. L - 1
    BY <1>1, <1>7
  <2>3. \A k \in 1 .. Len(S) :
            /\ S[k] \in P \cup {n}
            /\ \A q \in P \cup {n} : stack[k + 1].inst \in Range(e[q].aux.insts) <=> q >= S[k]
    <3>. SUFFICES ASSUME NEW k \in 1 .. Len(S), NEW q \in P \cup {n}
                  PROVE  stack[k + 1].inst \in Range(e[q].aux.insts) <=> q >= S[k]
      BY <1>8
    <3>1. CASE q \in P
      BY <1>8, <1>11, <3>1
    <3>2. CASE q = n
      <4>1. S[k] \in 1 .. N
        BY <1>8, <1>11
      <4>2. n >= S[k]
        BY <1>1, <4>1
      <4>. QED
        BY <2>1, <2>2, <3>2, <4>2
    <3>. QED
      BY <3>1, <3>2
  <2>4. CASE ~c.newIb
    <3>1. V = S
      BY <1>3, <2>4
    <3>. QED
      BY <1>3, <1>11, <2>3, <3>1 DEF StartsExact, e
  <2>5. CASE c.newIb
    <3>1. V = Append(S, n)
      BY <1>3, <2>5
    <3>2. Len(S) = L - 2
      BY <1>7, <2>5
    <3>3. Len(V) = L - 1 /\ V[L - 1] = n /\ \A k \in 1 .. L - 2 : V[k] = S[k]
      BY <1>7, <1>10, <3>1, <3>2, AppendSeq
    <3>4. Inside(s, stack[L].inst) = {}
      <4>1. u # <<>>
        BY <1>6, <1>10, EmptySequence
      <4>. QED
        BY <1>8, <2>5, <4>1
    <3>5. \A q \in P \cup {n} : stack[L].inst \in Range(e[q].aux.insts) <=> q >= n
      <4>. SUFFICES ASSUME NEW q \in P \cup {n}
                    PROVE  stack[L].inst \in Range(e[q].aux.insts) <=> q >= n
        OBVIOUS
      <4>1. CASE q \in P
        <5>1. stack[L].inst \notin Range(s[q].aux.insts)
          BY <3>4, <4>1 DEF Inside, P
        <5>. QED
          BY <1>10, <1>11, <4>1, <5>1
      <4>2. CASE q = n
        BY <1>10, <2>1, <4>2
      <4>. QED
        BY <4>1, <4>2
    <3>6. \A k \in 1 .. L - 1 : k = L - 1 \/ k \in 1 .. L - 2
      BY <1>1
    <3>. HIDE DEF V
    <3>7. \A k \in 1 .. L - 1 :
            /\ V[k] \in P \cup {n}
            /\ \A q \in P \cup {n} : stack[k + 1].inst \in Range(e[q].aux.insts) <=> q >= V[k]
      <4>. SUFFICES ASSUME NEW k \in 1 .. L - 1
                    PROVE /\ V[k] \in P \cup {n}
                          /\ \A q \in P \cup {n} : stack[k + 1].inst \in Range(e[q].aux.insts) <=> q >= V[k]
        OBVIOUS
      <4>1. CASE k = L - 1
        BY <1>10, <3>3, <3>5, <4>1
      <4>2. CASE k \in 1 .. L - 2
        BY <2>3, <3>2, <3>3, <4>2
      <4>. QED
        BY <3>6, <4>1, <4>2
    <3>. QED
      BY <1>3, <1>11, <3>3, <3>7 DEF StartsExact, V, e
  <2>. QED
    BY <2>4, <2>5
<1>18. \A i : /\ Inside(s, i) \subseteq Inside(e, i)
              /\ ~OpenIn(stack, i) => Inside(e, i) = Inside(s, i) /\ i \notin Range(insts)
  <2>. SUFFICES ASSUME NEW i
                PROVE  /\ Inside(s, i) \subseteq Inside(e, i)
                       /\ ~OpenIn(stack, i) => Inside(e, i) = Inside(s, i) /\ i \notin Range(insts)
    OBVIOUS
  <2>1. /\ Inside(s, i) = {q \in P : i \in Range(s[q].aux.insts)}
        /\ Inside(e, i) = {q \in P \cup {n} : i \in Range(e[q].aux.insts)}
    BY <1>11 DEF Inside, P
  <2>2. ~OpenIn(stack, i) => i \notin Range(insts)
    <3>1. \A k \in 1 .. L - 1 : k + 1 \in 2 .. L
      BY <1>1
    <3>. QED
      BY <1>4, <3>1 DEF OpenIn, L
  <2>. QED
    BY <1>2, <1>11, <2>1, <2>2
<1>19. Ranges(e, stack)
  <2>. SUFFICES ASSUME NEW m \in I
                PROVE  /\ s[m].start["Submit"] \in Nat /\ s[m].end["Submit"] \in 1 .. D
                       /\ Inside(e, s[m].aux.inst) = {} => s[m].start["Submit"] = kRootNodeIndex
                       /\ \/ OpenIn(stack, s[m].aux.inst)
                          \/ Inside(e, s[m].aux.inst) = {}
                          \/ RangeExact(e, m)
    BY <1>11 DEF Ranges, D
  <2>1. /\ s[m].start["Submit"] \in Nat /\ s[m].end["Submit"] \in 1 .. N
        /\ Inside(s, s[m].aux.inst) = {} => s[m].start["Submit"] = kRootNodeIndex
        /\ \/ OpenIn(stack, s[m].aux.inst)
           \/ Inside(s, s[m].aux.inst) = {}
           \/ RangeExact(s, m)
    BY DEF History, Ranges, s, I, N
  <2>2. ~OpenIn(stack, s[m].aux.inst) /\ RangeExact(s, m) => RangeExact(e, m)
    <3>. SUFFICES ASSUME ~OpenIn(stack, s[m].aux.inst), RangeExact(s, m), NEW q \in P \cup {n}
                  PROVE  q \in s[m].start["Submit"] .. s[m].end["Submit"]
                            <=> s[m].aux.inst \in Range(e[q].aux.insts)
      BY <1>11 DEF RangeExact
    <3>1. CASE q \in P
      BY <1>11, <3>1 DEF RangeExact, P
    <3>2. CASE q = n
      <4>1. n \notin s[m].start["Submit"] .. s[m].end["Submit"]
        BY <1>1, <2>1
      <4>. QED
        BY <1>2, <1>18, <3>2, <4>1
    <3>. QED
      BY <3>1, <3>2
  <2>3. s[m].end["Submit"] \in 1 .. D
    BY <1>10, <2>1
  <2>4. Inside(e, s[m].aux.inst) = {} => Inside(s, s[m].aux.inst) = {}
    BY <1>18
  <2>5. ~OpenIn(stack, s[m].aux.inst) => Inside(e, s[m].aux.inst) = Inside(s, s[m].aux.inst)
    BY <1>18
  <2>. QED
    BY <2>1, <2>2, <2>3, <2>4, <2>5
<1>20. LastWritten(e, d.submitNode, d.tracker.reg)
  <2>. DEFINE from == c.submitNode
              reg == c.tracker.reg
              mask == c.tracker.mask
  <2>1. \A q \in P : \A i : Enabled(e, q, i) <=> Enabled(s, q, i)
    <3>. SUFFICES ASSUME NEW q \in P, NEW i PROVE Enabled(e, q, i) <=> Enabled(s, q, i)
      OBVIOUS
    <3>. DEFINE v == s[q].aux.insts
    <3>1. e[q].aux.insts = v
      BY <1>11
    <3>. HIDE DEF v
    <3>2. (\E m \in Of(e, "Ib") : e[m].aux.inst = Last(v) /\ i \in e[m].aux.mask)
          <=> (\E m \in I : s[m].aux.inst = Last(v) /\ i \in s[m].aux.mask)
      BY <1>11
    <3>. QED
      BY <3>1, <3>2 DEF Enabled, v, I
  <2>2. \A i : Enabled(e, n, i) <=> i \in mask
    <3>. DEFINE m == u[L - 1]
    <3>1. m \in I /\ s[m].aux.inst = stack[L].inst /\ s[m].aux.mask = stack[L].mask
      BY <1>6, <1>10
    <3>2. mask = stack[L].mask
      BY DEF History, MasksStacked, Top, L
    <3>3. \A k \in I : s[k].aux.inst = stack[L].inst => k = m
      BY <3>1 DEF History, IbNumbers, I, s
    <3>4. Last(insts) = stack[L].inst
      BY <1>4 DEF Top, L
    <3>. HIDE DEF m, mask
    <3>5. \A i : (\E k \in I : e[k].aux.inst = stack[L].inst /\ i \in e[k].aux.mask) <=> i \in mask
      BY <1>11, <3>1, <3>2, <3>3
    <3>. QED
      BY <1>2, <1>4, <1>11, <3>4, <3>5 DEF Enabled
  <2>3. \A i : Writes(e, from, i) = Writes(s, from, i) \cup {q \in {n} : p.op = "reg" /\ i \in mask}
    <3>1. n > from
      BY <1>1, <1>9
    <3>. HIDE DEF from, mask
    <3>2. \A i : /\ Writes(e, from, i) = {q \in P \cup {n} : q > from /\ e[q].aux.op = "reg" /\ Enabled(e, q, i)}
                 /\ Writes(s, from, i) = {q \in P : q > from /\ s[q].aux.op = "reg" /\ Enabled(s, q, i)}
      BY <1>11 DEF Writes, P
    <3>. SUFFICES ASSUME NEW i
                  PROVE  {q \in P \cup {n} : q > from /\ e[q].aux.op = "reg" /\ Enabled(e, q, i)}
                          = {q \in P : q > from /\ s[q].aux.op = "reg" /\ Enabled(s, q, i)}
                            \cup {q \in {n} : p.op = "reg" /\ i \in mask}
      BY <3>2
    <3>3. \A q \in P : /\ e[q].aux.op = "reg" <=> s[q].aux.op = "reg"
                       /\ Enabled(e, q, i) <=> Enabled(s, q, i)
      BY <1>11, <2>1
    <3>4. /\ e[n].aux.op = "reg" <=> p.op = "reg"
          /\ Enabled(e, n, i) <=> i \in mask
      BY <1>2, <2>2
    <3>. QED
      BY <3>1, <3>3, <3>4
  <2>4. LastWritten(s, from, reg)
    BY DEF History, s
  <2>5. \A i : \A q \in Writes(s, from, i) : q <= n
    BY <1>1, <1>11 DEF Writes, P
  <2>6. CASE p.op = "reg"
    <3>1. d.tracker.reg = [i \in Passes |-> IF i \in mask THEN n ELSE reg[i]]
      BY <1>3, <2>6 DEF TrackPacket, SetReg, History, MasksStacked, TrackerOk
    <3>. HIDE DEF from, mask, reg
    <3>. SUFFICES ASSUME NEW i \in Passes
                  PROVE  LET v == d.tracker.reg[i] IN
                         /\ v = NoNode \/ v \in Writes(e, from, i)
                         /\ \A q \in Writes(e, from, i) : q <= v
      BY <1>3 DEF LastWritten, from
    <3>2. CASE i \in mask
      <4>1. d.tracker.reg[i] = n /\ Writes(e, from, i) = Writes(s, from, i) \cup {n} /\ n <= n
        BY <1>10, <2>3, <2>6, <3>1, <3>2
      <4>. QED
        BY <2>5, <4>1
    <3>3. CASE i \notin mask
      <4>1. d.tracker.reg[i] = reg[i] /\ Writes(e, from, i) = Writes(s, from, i)
        BY <2>3, <3>1, <3>3
      <4>. QED
        BY <2>4, <4>1 DEF LastWritten
    <3>. QED
      BY <3>2, <3>3
  <2>7. CASE p.op # "reg"
    <3>1. d.tracker.reg = reg
      BY <1>3, <2>7 DEF TrackPacket, History, MasksStacked, TrackerOk
    <3>2. \A i : Writes(e, from, i) = Writes(s, from, i)
      BY <2>3, <2>7
    <3>. QED
      BY <1>3, <2>4, <3>1, <3>2 DEF LastWritten
  <2>. QED
    BY <2>6, <2>7
<1>. QED
  BY <1>12, <1>13, <1>14, <1>15, <1>16, <1>17, <1>19, <1>20 DEF History, e

-----------------------------------------------------------------------------
(* The steps of the emulator keep the record true. *)

HistoryInv ==
    /\ emu.pc \in {"submit", "end"} => Len(emu.stack) = 1
    /\ ~emu.chained => History(creator, emu.stack, emu.entered)

StartsAt(c, stack) ==
    Len(c.startStack["Submit"]) = IF c.newIb THEN Len(stack) - 2 ELSE Len(stack) - 1

LEMMA StartsCounted ==
    ASSUME HierarchyInv, NEW entered, History(creator, emu.stack, entered)
    PROVE  /\ Good(creator) /\ creator.newIb \in BOOLEAN
           /\ Len(emu.stack) \in Nat /\ Len(emu.stack) >= 1
           /\ Len(creator.startStack["Submit"]) <= Len(emu.stack) - 1
           /\ Len(emu.stack) >= 2 => StartsAt(creator, emu.stack)
<1>1. /\ EmuInv /\ Good(creator) /\ Ibs \in Nat /\ Starts \in Nat /\ creator.newIb \in BOOLEAN
      /\ Len(emu.stack) \in Nat /\ Len(emu.stack) >= 1
  BY Lengths, TopOfStack DEF HierarchyInv, Heights, EmuInv
<1>2. Ibs = Len(emu.stack) - 1
  BY DEF History, OpenIbs, Ibs
<1>3. /\ creator.newIb = FALSE => Starts = Ibs
      /\ creator.newIb = TRUE /\ Ibs = 0 => Starts = 0
      /\ creator.newIb = TRUE /\ Ibs > 0 => Starts = Ibs - 1
  BY DEF HierarchyInv, Heights
<1>. DEFINE L == Len(emu.stack)
<1>. HIDE DEF Ibs, Starts, L
<1>4. L \in Nat /\ L >= 1 /\ Ibs = L - 1 /\ Ibs \in Nat /\ Starts \in Nat
  BY <1>1, <1>2 DEF L
<1>5. CASE creator.newIb = TRUE
  <2>1. Starts <= L - 1 /\ (L >= 2 => Starts = L - 2)
    BY <1>3, <1>4, <1>5
  <2>. QED
    BY <1>1, <1>5, <2>1 DEF Starts, L, StartsAt
<1>6. CASE creator.newIb = FALSE
  <2>1. Starts <= L - 1 /\ (L >= 2 => Starts = L - 1)
    BY <1>3, <1>4, <1>6
  <2>. QED
    BY <1>1, <1>6, <2>1 DEF Starts, L, StartsAt
<1>. QED
  BY <1>1, <1>5, <1>6

LEMMA InitHistory == ASSUME Init PROVE HistoryInv
<1>. DEFINE c == creator
            stack == emu.stack
<1>1. emu.entered = 0 /\ stack = <<Ring>> /\ Len(stack) = 1 /\ stack[1] = Ring /\ c = NewCreator
  BY DEF Init, EmuInit
<1>. DEFINE r == Node("Root", [id |-> 0])
<1>2. r.type = "Root"
  BY DEF Node
<1>3. /\ c.nodes = <<r>> /\ c.tracker = NewTracker /\ c.ibStack = <<>>
      /\ c.startStack["Submit"] = <<>> /\ c.lastAdded = 1
  BY <1>1 DEF NewCreator, Topologies, kRootNodeIndex
<1>. HIDE DEF r
<1>4. Len(c.nodes) = 1 /\ c.nodes[1] = r
  BY <1>3
<1>5. \A n \in 1 .. 1 : n = 1
  OBVIOUS
<1>6. Of(c.nodes, "Packet") = {} /\ Of(c.nodes, "Ib") = {}
  BY <1>2, <1>4, <1>5 DEF Of
<1>7. Len(c.ibStack) = 0 /\ Len(c.startStack["Submit"]) = 0
  BY <1>3, EmptySequence
<1>8. /\ TrackerOk(c.tracker) /\ c.tracker.maskStack = <<>> /\ c.tracker.mask = AllMask
      /\ c.tracker.reg = [i \in Passes |-> NoNode]
  BY <1>3 DEF NewTracker, TrackerOk
<1>9. Ring.mask = AllMask
  BY DEF Ring
<1>. HIDE DEF c, stack
<1>10. OpenIbs(c, stack) /\ StartsExact(c, stack)
  BY <1>1, <1>3, <1>7 DEF OpenIbs, StartsExact
<1>11. MasksStacked(c.tracker, stack)
  <2>1. IsSeq(c.tracker.maskStack) /\ Len(c.tracker.maskStack) = 0
    BY <1>8, EmptySequence
  <2>. QED
    BY <1>1, <1>8, <1>9, <2>1 DEF MasksStacked, Top
<1>12. LastWritten(c.nodes, c.submitNode, c.tracker.reg)
  <2>1. \A i : Writes(c.nodes, c.submitNode, i) = {}
    BY <1>6 DEF Writes
  <2>. QED
    BY <1>8, <2>1 DEF LastWritten
<1>13. LastPacket(c) /\ IbNumbers(c.nodes, 0) /\ InstsKnown(c.nodes) /\ Ranges(c.nodes, stack)
  BY <1>3, <1>4, <1>6 DEF LastPacket, IbNumbers, InstsKnown, Ranges
<1>14. History(c, stack, 0)
  BY <1>10, <1>11, <1>12, <1>13 DEF History
<1>. QED
  BY <1>1, <1>14 DEF HistoryInv, c, stack

LEMMA StartSubmitHistory == ASSUME HierarchyInv, HistoryInv, StartSubmit PROVE HistoryInv'
<1>. DEFINE d == creator'
            r == emu'.stack
<1>1. emu.pc = "submit" /\ emu'.chained = emu.chained /\ emu'.entered = emu.entered
  BY DEF StartSubmit, SubmitStart, HierarchyInv, EmuInv, EmuFields
<1>2. Len(r) = 1 /\ r[1].mask = AllMask
  <2>1. \E ibs : r = << QueueIB(Ring, ibs) >> \/ r = <<Ring>>
    BY DEF StartSubmit, SubmitStart, HierarchyInv, EmuInv, EmuFields
  <2>2. Ring.mask = AllMask /\ \A ibs : QueueIB(Ring, ibs).mask = AllMask
    BY DEF Ring, QueueIB
  <2>3. PICK level : r = <<level>> /\ level.mask = AllMask
    BY <2>1, <2>2
  <2>. QED
    BY <2>3
<1>3. Len(emu.stack) = 1
  BY <1>1 DEF HistoryInv
<1>4. Good(creator) /\ d = OnSubmitStart(creator, emu.submit)
  BY DEF HierarchyInv, StartSubmit
<1>5. ASSUME ~emu'.chained PROVE History(d, r, emu'.entered)
  <2>1. History(creator, emu.stack, emu.entered)
    BY <1>1, <1>5 DEF HistoryInv
  <2>2. TrackerOk(creator.tracker)
    BY <2>1 DEF History, MasksStacked
  <2>. HIDE DEF d, r
  <2>3. SubmitBegun(creator, d, Len(d.nodes))
    BY <1>4, <2>2, OnSubmitStartBuilds
  <2>. QED
    BY <1>1, <1>2, <1>3, <1>4, <2>1, <2>3, SubmitStartHistory
<1>. QED
  BY <1>2, <1>5 DEF HistoryInv

LEMMA PacketMirrors ==
    ASSUME EmuInv, Packet
    PROVE  Mirrors(emu.stack, emu'.stack)
<1>. DEFINE level == QueueIB(Prepared(CurPacket, CurIb), Queued(CurPacket, CurIb))
            stack == emu.stack
            r     == emu'.stack
<1>1. r = [stack EXCEPT ![Len(stack)] = level]
  BY DEF Packet, EmuInv, EmuFields
<1>2. LevelOk(level)
  <2>1. CurPacket.op = "startBin" => EndBins(CurIb.ib, CurIb.va) # {}
    BY DEF Packet
  <2>. QED
    BY <2>1, PacketLevel DEF Packet
<1>3. level.inst = CurIb.inst /\ level.mask = CurIb.mask
  <2>. DEFINE Same(l) == DOMAIN l = LevelFields /\ l.inst = CurIb.inst /\ l.mask = CurIb.mask
              prepared == Prepared(CurPacket, CurIb)
  <2>1. DOMAIN CurIb = LevelFields
    BY TopOfStack DEF EmuInv, CurIb
  <2>2. Same(AdvancePacket(CurIb)) /\ Same(AdvancePacket(RestartQueue(CurIb)))
    BY <2>1 DEF AdvancePacket, RestartQueue, LevelFields
  <2>3. \A e : Same([CurIb EXCEPT !.va = e])
    BY <2>1 DEF LevelFields
  <2>4. Same(prepared)
    <3>1. \/ prepared = AdvancePacket(CurIb)
          \/ prepared = AdvancePacket(RestartQueue(CurIb))
          \/ prepared = [CurIb EXCEPT !.va = EndBin(CurIb.ib, CurIb.va)]
      BY DEF Prepared
    <3>. HIDE DEF Same, prepared
    <3>. QED
      BY <3>1, <2>2, <2>3
  <2>. HIDE DEF prepared
  <2>. QED
    BY <2>4 DEF QueueIB, LevelFields, prepared
<1>. HIDE DEF level
<1>4. Len(r) = Len(stack) /\ Top(r) = level
  <2>1. DOMAIN level = LevelFields /\ level.type # "Chain"
    BY <1>2 DEF LevelOk
  <2>. QED
    BY <1>1, <1>2, <2>1, ReplaceTop DEF EmuInv
<1>5. \A k \in 1 .. Len(stack) : k # Len(stack) => r[k] = stack[k]
  <2>1. DOMAIN stack = 1 .. Len(stack)
    BY SeqFacts DEF EmuInv, StackOk
  <2>. QED
    BY <1>1, <2>1
<1>. QED
  BY <1>3, <1>4, <1>5 DEF Mirrors, Top, CurIb

LEMMA EmulatePacketHistory == ASSUME HierarchyInv, HistoryInv, EmulatePacket PROVE HistoryInv'
<1>. DEFINE p == CurPacket
            c == creator
            d == creator'
            stack == emu.stack
            insts == Insts(stack)
            n == Len(c.nodes) + 1
<1>1. /\ emu.pc = "packet" /\ emu'.chained = emu.chained /\ emu'.entered = emu.entered
      /\ emu'.pc \notin {"submit", "end"}
  BY DEF EmulatePacket, Packet, HierarchyInv, EmuInv, EmuFields
<1>2. p.op = "drawState" => IsSeq(p.groups)
  BY <1>1, PacketInCapture DEF HierarchyInv
<1>3. d = OnPacket(c, p, insts)
  BY DEF EmulatePacket
<1>4. Mirrors(stack, emu'.stack)
  BY PacketMirrors DEF HierarchyInv, EmulatePacket
<1>5. Len(stack) # 1
  BY <1>1 DEF HierarchyInv, EmuInv, AtRing
<1>6. ASSUME ~emu'.chained PROVE History(d, emu'.stack, emu'.entered)
  <2>1. History(c, stack, emu.entered)
    BY <1>1, <1>6 DEF HistoryInv
  <2>2. /\ Good(c) /\ c.newIb \in BOOLEAN /\ Len(stack) \in Nat /\ Len(stack) >= 1
        /\ Len(c.startStack["Submit"]) <= Len(stack) - 1
        /\ Len(stack) >= 2 => StartsAt(c, stack)
    BY <2>1, StartsCounted
  <2>3. Len(stack) >= 2
    <3>. DEFINE L == Len(stack)
    <3>1. L \in Nat /\ L >= 1 /\ L # 1
      BY <1>5, <2>2
    <3>. HIDE DEF L
    <3>2. L >= 2
      BY <3>1
    <3>. QED
      BY <3>2 DEF L
  <2>. HIDE DEF p, c, d, stack, insts
  <2>4. CASE p.op = "type2"
    <3>1. d = c
      BY <1>3, <2>4 DEF OnPacket
    <3>. QED
      BY <1>1, <1>4, <2>1, <2>2, <3>1, MirrorHistory
  <2>5. CASE p.op # "type2"
    <3>1. PacketAdded(c, p, insts, d, n)
      BY <1>2, <1>3, <2>2, <2>5, OnPacketBuilds
    <3>. HIDE DEF n
    <3>2. History(d, stack, emu.entered)
      BY <2>1, <2>2, <2>3, <3>1, PacketHistory DEF insts, StartsAt
    <3>3. Good(d)
      BY <3>1 DEF PacketAdded
    <3>4. Len(d.startStack["Submit"]) <= Len(stack) - 1
      <4>. DEFINE S == c.startStack["Submit"]
                  V == d.startStack["Submit"]
      <4>1. V = IF c.newIb THEN Append(S, n) ELSE S
        BY <3>1 DEF PacketAdded, Pushed
      <4>2. IsSeq(S)
        BY <2>2 DEF Good
      <4>3. Len(Append(S, n)) = Len(S) + 1
        BY <4>2, AppendSeq
      <4>. DEFINE L == Len(stack)
      <4>4. Len(S) = (IF c.newIb THEN L - 2 ELSE L - 1) /\ L \in Nat /\ L >= 2
        BY <2>2, <2>3 DEF StartsAt
      <4>. HIDE DEF S, V, L
      <4>5. c.newIb => Len(V) <= L - 1
        <5>. SUFFICES ASSUME c.newIb PROVE Len(V) <= L - 1
          OBVIOUS
        <5>1. Len(V) = L - 2 + 1
          BY <4>1, <4>3, <4>4
        <5>. QED
          BY <4>4, <5>1
      <4>6. ~c.newIb => Len(V) <= L - 1
        <5>. SUFFICES ASSUME ~c.newIb PROVE Len(V) <= L - 1
          OBVIOUS
        <5>1. Len(V) = L - 1
          BY <4>1, <4>4
        <5>. QED
          BY <4>4, <5>1
      <4>7. Len(V) <= Len(stack) - 1
        BY <4>5, <4>6 DEF L
      <4>. QED
        BY <4>7 DEF V
    <3>. QED
      BY <1>1, <1>4, <2>2, <3>2, <3>3, <3>4, MirrorHistory
  <2>. QED
    BY <2>4, <2>5
<1>. QED
  BY <1>1, <1>6 DEF HistoryInv

LEMMA CallIbHistory == ASSUME HierarchyInv, HistoryInv, CallIb PROVE HistoryInv'
<1>. DEFINE c     == creator
            d     == creator'
            stack == emu.stack
            r     == emu'.stack
            cur   == Top(r)
            level == Len(stack)
            index == emu'.ibIndex
            enter == emu.entered
<1>1. /\ emu'.chained = emu.chained /\ emu'.entered = enter + 1
      /\ emu'.pc \notin {"submit", "end"}
  BY DEF CallIb, EnterIb, HierarchyInv, EmuInv, EmuFields
<1>2. LevelOk(cur) /\ Len(r) = Len(stack) + 1
  BY EnterIbEmu DEF HierarchyInv, CallIb
<1>3. Len(stack) \in Nat /\ Len(stack) >= 1 /\ DOMAIN CurIb = LevelFields /\ IsSeq(stack)
  BY TopOfStack DEF HierarchyInv, EmuInv, CurIb, StackOk
<1>4. Grown(stack, r, cur) /\ cur.inst = enter + 1
  <2>. DEFINE q    == CurIb.queue[CurIb.next]
              new  == Level(q, q.skip \/ ~IsValid(q.ib), emu.entered + 1)
              top  == [CurIb EXCEPT !.next = CurIb.next + 1]
              held == [stack EXCEPT ![Len(stack)] = top]
  <2>1. r = Append(held, new)
    BY Zenon DEF CallIb, EnterIb, HierarchyInv, EmuInv, EmuFields, CurIb, Top
  <2>2. new.inst = enter + 1
    BY DEF Level
  <2>3. top.inst = CurIb.inst /\ top.mask = CurIb.mask
    BY <1>3 DEF LevelFields
  <2>. HIDE DEF new, top
  <2>. DEFINE L == Len(stack)
  <2>4. DOMAIN stack = 1 .. L /\ L \in Nat /\ L >= 1 /\ CurIb = stack[L]
    BY <1>3, SeqFacts DEF CurIb, Top
  <2>5. IsSeq(held) /\ Len(held) = L
    <3>. HIDE DEF L
    <3>1. held = [i \in 1 .. L |-> held[i]]
      BY <2>4
    <3>. HIDE DEF held
    <3>. QED
      BY <2>4, <3>1, SeqIntro
  <2>6. \A k \in 1 .. L : held[k].inst = stack[k].inst /\ held[k].mask = stack[k].mask
    <3>. HIDE DEF L
    <3>1. \A k \in 1 .. L : held[k] = IF k = L THEN top ELSE stack[k]
      BY <2>4 DEF L
    <3>. HIDE DEF held
    <3>. QED
      BY <2>3, <2>4, <3>1
  <2>. HIDE DEF held
  <2>7. /\ Len(r) = L + 1 /\ r[L + 1] = new
        /\ \A k \in 1 .. L : r[k] = held[k]
    BY <2>1, <2>5, AppendSeq
  <2>8. cur = new
    BY <2>7 DEF Top
  <2>. QED
    BY <2>2, <2>6, <2>7, <2>8, SMTT(40) DEF Grown
<1>5. d = OnIbStart(c, level, cur, index)
  BY DEF CallIb
<1>6. cur.type # "Chain"
  BY <1>2 DEF LevelOk
<1>7. ASSUME ~emu'.chained PROVE History(d, r, emu'.entered)
  <2>1. History(c, stack, enter)
    BY <1>1, <1>7 DEF HistoryInv
  <2>2. Good(c) /\ Len(c.startStack["Submit"]) <= Len(stack) - 1
    BY <2>1, StartsCounted
  <2>. HIDE DEF c, d, stack, r, cur, level, index, enter
  <2>3. IbEntered(c, cur, d, Len(d.nodes))
    BY <1>5, <1>6, <2>2, OnIbStartBuilds
  <2>4. History(d, r, enter + 1)
    BY <1>3, <1>4, <2>1, <2>2, <2>3, EnterHistory
  <2>. QED
    BY <1>1, <2>4
<1>. QED
  BY <1>1, <1>7 DEF HistoryInv

LEMMA FollowChainHistory == ASSUME HierarchyInv, FollowChain PROVE HistoryInv'
BY DEF FollowChain, ChainIb, HierarchyInv, EmuInv, EmuFields, HistoryInv

LEMMA ReturnFromIbHistory == ASSUME HierarchyInv, HistoryInv, ReturnFromIb PROVE HistoryInv'
<1>. DEFINE c     == creator
            d     == creator'
            stack == emu.stack
            r     == emu'.stack
            level == Len(stack) - 2
<1>1. /\ emu'.chained = emu.chained /\ emu'.entered = emu.entered
      /\ emu'.pc \notin {"submit", "end"} /\ r = Front(stack) /\ Len(stack) # 1
  BY DEF ReturnFromIb, LeaveIb, HierarchyInv, EmuInv, EmuFields, AtRing
<1>2. Len(stack) \in Nat /\ Len(stack) >= 1 /\ IsSeq(stack)
  BY TopOfStack DEF HierarchyInv, EmuInv, StackOk
<1>3. d = OnIbEnd(c, level)
  BY DEF ReturnFromIb
<1>4. Len(c.ibStack) # 0 => c.ibStack # <<>>
  BY EmptySequence
<1>5. ~c.newIb => Len(c.startStack["Submit"]) = Len(c.ibStack)
  BY DEF HierarchyInv, Heights, Starts, Ibs
<1>. HIDE DEF stack, r
<1>6. Len(stack) >= 2 /\ Len(stack) # 0 /\ Len(stack) - 1 # 0
  <2>. DEFINE L == Len(stack)
  <2>1. L \in Nat /\ L >= 1 /\ L # 1
    BY <1>1, <1>2
  <2>. HIDE DEF L
  <2>2. L >= 2 /\ L # 0 /\ L - 1 # 0
    BY <2>1
  <2>. QED
    BY <2>2 DEF L
<1>7. Shrunk(stack, r)
  BY <1>1, <1>2, <1>6, FrontSeq DEF Shrunk
<1>8. ASSUME ~emu'.chained PROVE History(d, r, emu'.entered)
  <2>1. History(c, stack, emu.entered)
    BY <1>1, <1>8 DEF HistoryInv, stack
  <2>2. Good(c) /\ c.newIb \in BOOLEAN /\ StartsAt(c, stack)
    BY <1>6, <2>1, StartsCounted DEF stack
  <2>3. Len(c.ibStack) = Len(stack) - 1
    BY <2>1 DEF History, OpenIbs
  <2>. HIDE DEF c, d, level
  <2>4. IbClosed(c, d)
    BY <1>3, <1>4, <1>5, <1>6, <2>2, <2>3, OnIbEndBuilds
  <2>5. History(d, r, emu.entered)
    BY <1>2, <1>6, <1>7, <2>1, <2>2, <2>4, LeaveHistory DEF StartsAt
  <2>. QED
    BY <1>1, <2>5
<1>. QED
  BY <1>1, <1>8 DEF HistoryInv, r

LEMMA EndSubmitHistory == ASSUME HierarchyInv, HistoryInv, EndSubmit PROVE HistoryInv'
<1>. DEFINE c        == creator
            d        == creator'
            submit   == emu.submit
            presents == capture.presents
            T        == {"Present"}
<1>1. /\ emu'.chained = emu.chained /\ emu'.entered = emu.entered
      /\ emu.pc = "end" /\ emu'.stack = emu.stack
  BY DEF EndSubmit, SubmitEnd, HierarchyInv, EmuInv, EmuFields
<1>2. PICK ibs \in SortedIbs(creator) : d = OnSubmitEnd(c, submit, presents, ibs)
  BY DEF EndSubmit
<1>3. Good(c) /\ IsSeq(presents)
  BY CapturesAssumption DEF HierarchyInv, EmuInv
<1>. HIDE DEF d, submit, presents, T
<1>4. Builds(c, d, T, "Submit")
  BY <1>2, <1>3, OnSubmitEndBuilds DEF T
<1>5. "Packet" \notin T /\ "Ib" \notin T
  BY DEF T
<1>6. ASSUME ~emu'.chained PROVE History(d, emu'.stack, emu'.entered)
  BY <1>1, <1>3, <1>4, <1>5, <1>6, SubmitEndHistory DEF HistoryInv
<1>. QED
  BY <1>1, <1>6 DEF HistoryInv, d

LEMMA OtherHistory == ASSUME HierarchyInv, HistoryInv, Internal PROVE HistoryInv'
<1>1. /\ emu'.chained = emu.chained /\ emu'.entered = emu.entered
      /\ emu'.stack = emu.stack /\ creator' = creator
      /\ emu'.pc \in {"submit", "end"} => Len(emu.stack) = 1
  BY DEF Internal, BadPacket, NothingQueued, MisplacedChain, StayInIb, AllSubmitsDone, AtRing,
         HierarchyInv, EmuInv, EmuFields
<1>. QED
  BY <1>1 DEF HistoryInv

LEMMA StutterHistory == ASSUME HistoryInv, UNCHANGED vars PROVE HistoryInv'
BY DEF HistoryInv, vars, emuVars

(* Where no chain was followed, the trees record the emulation: every step keeps
   the numbers of the IBs, the packets inside them, the masks, the last write of
   each register and the ranges of the IBs that were left. *)
THEOREM HistoryInvariance == Spec => []HistoryInv
<1>1. Init => HistoryInv
  BY InitHistory
<1>2. HierarchyInv /\ HistoryInv /\ [Next]_vars => HistoryInv'
  <2>. SUFFICES ASSUME HierarchyInv, HistoryInv, [Next]_vars PROVE HistoryInv'
    OBVIOUS
  <2>1. CASE StartSubmit
    BY <2>1, StartSubmitHistory
  <2>2. CASE EmulatePacket
    BY <2>2, EmulatePacketHistory
  <2>3. CASE CallIb
    BY <2>3, CallIbHistory
  <2>4. CASE FollowChain
    BY <2>4, FollowChainHistory
  <2>5. CASE ReturnFromIb
    BY <2>5, ReturnFromIbHistory
  <2>6. CASE EndSubmit
    BY <2>6, EndSubmitHistory
  <2>7. CASE Internal
    BY <2>7, OtherHistory
  <2>8. CASE Returned
    BY <2>8, StutterHistory DEF Returned
  <2>9. CASE UNCHANGED vars
    BY <2>9, StutterHistory
  <2>. QED
    BY <2>1, <2>2, <2>3, <2>4, <2>5, <2>6, <2>7, <2>8, <2>9 DEF Next
<1>. QED
  BY <1>1, <1>2, Invariance, PTL DEF Spec

LEMMA NodesAre ==
    ASSUME Good(creator)
    PROVE  /\ \A type : NodesOf(type) = Of(creator.nodes, type)
           /\ \A i : InsideOf(i) = Inside(creator.nodes, i)
BY GoodNodes DEF NodesOf, Nodes, Of, InsideOf, Inside, Aux

LEMMA MaxIs ==
    ASSUME NEW S, S \subseteq Nat, NEW x \in S, \A y \in S : y <= x
    PROVE  Max(S) = x
<1>1. x \in S /\ \A y \in S : x >= y
  OBVIOUS
<1>2. Max(S) \in S /\ \A y \in S : Max(S) >= y
  BY <1>1 DEF Max
<1>. DEFINE m == Max(S)
<1>3. m \in Nat /\ x \in Nat /\ m >= x /\ x >= m
  BY <1>1, <1>2
<1>. HIDE DEF m
<1>4. m = x
  BY <1>3
<1>. QED
  BY <1>4 DEF m

(* A packet is enabled for a pass by the one node of its innermost IB. *)
LEMMA EnabledIs ==
    ASSUME Good(creator), NEW entered, IbNumbers(creator.nodes, entered),
           InstsKnown(creator.nodes), NEW q \in Of(creator.nodes, "Packet"), NEW i
    PROVE  EnabledFor(q, i) <=> Enabled(creator.nodes, q, i)
<1>. DEFINE s == creator.nodes
            u == s[q].aux.insts
            I == Of(s, "Ib")
<1>1. CASE u = <<>>
  BY <1>1 DEF EnabledFor, Enabled, Aux
<1>2. CASE u # <<>>
  <2>1. PICK m \in I : s[m].aux.inst = Last(u)
    BY <1>2, KnownInsts, ZenonT(60) DEF InstsKnown
  <2>2. \A n \in I : s[n].aux.inst = Last(u) => n = m
    BY <2>1 DEF IbNumbers
  <2>3. IbNode(Last(u)) = m
    <3>1. IbNode(Last(u)) = CHOOSE n \in I : s[n].aux.inst = Last(u)
      BY NodesAre DEF IbNode, Aux
    <3>. HIDE DEF I, s, u
    <3>. QED
      BY <2>1, <2>2, <3>1
  <2>4. EnabledFor(q, i) <=> i \in s[m].aux.mask
    BY <1>2, <2>3 DEF EnabledFor, Aux
  <2>5. Enabled(s, q, i) <=> \E n \in I : s[n].aux.inst = Last(u) /\ i \in s[n].aux.mask
    BY <1>2 DEF Enabled
  <2>. HIDE DEF I, s, u
  <2>6. Enabled(s, q, i) <=> i \in s[m].aux.mask
    BY <2>1, <2>2, <2>5
  <2>. QED
    BY <2>4, <2>6 DEF s
<1>. QED
  BY <1>1, <1>2

(* Whatever the command buffers hold, where no chain was followed the tracker has,
   for every register and pass, the last write of the submit whose innermost IB is
   enabled for that pass: OnIbEnd restores the mask of the caller on every path,
   also for an IB that was skipped. *)
THEOREM RegistersByPassHolds == Spec => []RegistersByPass
<1>1. HierarchyInv /\ HistoryInv => RegistersByPass
  <2>. SUFFICES ASSUME HierarchyInv, HistoryInv, ~emu.chained, NEW i \in Passes
                PROVE  creator.tracker.reg[i] =
                         Max({NoNode} \cup {n \in NodesOf("Packet") : /\ n > creator.submitNode
                                                                      /\ Aux(n).op = "reg"
                                                                      /\ EnabledFor(n, i)})
    BY DEF RegistersByPass
  <2>. DEFINE s == creator.nodes
              r == creator.tracker.reg[i]
              from == creator.submitNode
              W == Writes(s, from, i)
              V == {n \in NodesOf("Packet") : /\ n > from /\ Aux(n).op = "reg"
                                              /\ EnabledFor(n, i)}
  <2>1. Good(creator) /\ History(creator, emu.stack, emu.entered)
    BY DEF HierarchyInv, HistoryInv
  <2>2. /\ IbNumbers(s, emu.entered) /\ InstsKnown(s)
        /\ r = NoNode \/ r \in W
        /\ \A q \in W : q <= r
    BY <2>1 DEF History, LastWritten
  <2>3. V = W
    <3>1. NodesOf("Packet") = Of(s, "Packet")
      BY <2>1, NodesAre
    <3>2. \A q \in Of(s, "Packet") : EnabledFor(q, i) <=> Enabled(s, q, i)
      BY <2>1, <2>2, EnabledIs
    <3>. QED
      BY <3>1, <3>2 DEF Writes, Aux
  <2>4. W \subseteq Nat
    BY DEF Writes, Of
  <2>. HIDE DEF r, W, V
  <2>5. {NoNode} \cup W \subseteq Nat /\ r \in {NoNode} \cup W
    BY <2>2, <2>4 DEF NoNode
  <2>6. \A y \in {NoNode} \cup W : y <= r
    BY <2>2, <2>5 DEF NoNode
  <2>7. Max({NoNode} \cup W) = r
    BY <2>5, <2>6, MaxIs
  <2>. QED
    BY <2>3, <2>7 DEF V, r
<1>. QED
  BY <1>1, Invariance, HistoryInvariance, PTL

(* Whatever the command buffers hold, where no chain was followed OnIbEnd gives
   the node of an IB exactly the packets that were emulated inside it, those of
   the IBs it calls included; an IB without packets keeps an empty range. *)
THEOREM IbRangesExactHolds == Spec => []IbRangesExact
<1>1. HierarchyInv /\ HistoryInv => IbRangesExact
  <2>. SUFFICES ASSUME HierarchyInv, HistoryInv, ~emu.chained, NEW n \in NodesOf("Ib"),
                       Aux(n).inst \notin OpenInsts
                PROVE  IF InsideOf(Aux(n).inst) = {}
                       THEN creator.nodes[n].start["Submit"] = kRootNodeIndex
                       ELSE PacketsIn(n, "Submit") = InsideOf(Aux(n).inst)
    BY DEF IbRangesExact
  <2>. DEFINE s == creator.nodes
              x == s[n].aux.inst
  <2>1. Good(creator) /\ History(creator, emu.stack, emu.entered)
    BY DEF HierarchyInv, HistoryInv
  <2>2. /\ n \in Of(s, "Ib") /\ NodesOf("Packet") = Of(s, "Packet")
        /\ InsideOf(x) = Inside(s, x) /\ Aux(n).inst = x
    BY <2>1, NodesAre DEF Aux
  <2>3. ~OpenIn(emu.stack, x)
    BY <2>2 DEF OpenIn, OpenInsts
  <2>4. /\ Inside(s, x) = {} => s[n].start["Submit"] = kRootNodeIndex
        /\ Inside(s, x) = {} \/ RangeExact(s, n)
    BY <2>1, <2>2, <2>3 DEF History, Ranges
  <2>5. RangeExact(s, n) => PacketsIn(n, "Submit") = Inside(s, x)
    BY <2>2 DEF RangeExact, PacketsIn, SharedRange, Inside
  <2>. QED
    BY <2>2, <2>4, <2>5
<1>. QED
  BY <1>1, Invariance, HistoryInvariance, PTL

-----------------------------------------------------------------------------
(* The events and the passes divide the packets of a submit into sections; each
   has the packet it was made for. *)

Sections(s) == Of(s, "Event") \cup Of(s, "RenderMarker")

SectionsKnown(s) == \A m \in Sections(s) : s[m].aux.packet \in Of(s, "Packet")

SubmitLast(c) == \A x \in Of(c.nodes, "Submit") : x <= c.submitNode

(* An event goes from the section before it, or the start of its submit, to its packet. *)
EventBound(s, e, b) ==
    /\ \/ b = s[e].root["AllEvent"]
       \/ \E m \in Sections(s) : s[m].aux.packet = b /\ b < s[e].aux.packet
    /\ s[e].root["AllEvent"] <= b
    /\ \A m \in Sections(s) : s[m].aux.packet < s[e].aux.packet => s[m].aux.packet <= b

EventExact(s, e) ==
    /\ s[e].root["AllEvent"] \in 1 .. Len(s)
    /\ s[e].end["AllEvent"] = s[e].aux.packet
    /\ \E b \in 1 .. Len(s) :
          /\ EventBound(s, e, b)
          /\ \A q \in Of(s, "Packet") :
                q \in s[e].start["AllEvent"] .. s[e].end["AllEvent"]
                    <=> b < q /\ q <= s[e].aux.packet

(* A pass that the next one has closed; one that its submit has left open. *)
PassClosed(s, m) ==
    /\ s[m].end["AllEvent"] \in 1 .. Len(s)
    /\ \E k \in Of(s, "RenderMarker") :
          /\ k > m
          /\ \A j \in Of(s, "RenderMarker") : j > m => j >= k
          /\ \A q \in Of(s, "Packet") :
                q \in s[m].start["AllEvent"] .. s[m].end["AllEvent"]
                    <=> s[m].aux.packet <= q /\ q < s[k].aux.packet

PassLeft(s, from, m) ==
    /\ m < from
    /\ \A k \in Of(s, "RenderMarker") :
          k > m => \E x \in Of(s, "Submit") : m < x /\ x < k

SubmitBefore(s, m) ==
    \E x \in Of(s, "Submit") : x < m /\ \A y \in Of(s, "Submit") : y < m => y <= x

PassesSettled(s, from, pass) ==
    \A m \in Of(s, "RenderMarker") :
        SubmitBefore(s, m) /\ (m = pass \/ PassClosed(s, m) \/ PassLeft(s, from, m))

(* The events below a pass come after its marker and before the next one. *)
EventsBelow(s) ==
    \A m \in Of(s, "RenderMarker") : \A e \in Range(s[m].kids["AllEvent"]) :
        /\ e \in Of(s, "Event") /\ s[m].aux.packet < s[e].aux.packet
        /\ \A k \in Of(s, "RenderMarker") : k > m => s[e].aux.packet < s[k].aux.packet

(* The event to come begins after the last section: b is where that ended. *)
EventOpen(c) ==
    LET starts == c.startStack["AllEvent"]
        P      == Of(c.nodes, "Packet")
        S      == Sections(c.nodes)
    IN  /\ IsSeq(starts)
        /\ \E b \in 1 .. Len(c.nodes) :
              /\ b = c.submitNode \/ \E m \in S : c.nodes[m].aux.packet = b
              /\ c.submitNode <= b
              /\ \A m \in S : c.nodes[m].aux.packet <= b
              /\ c.newEvent => \A q \in P : q <= b
              /\ ~c.newEvent => /\ starts # <<>> /\ Last(starts) \in P
                                /\ \A q \in P : q > b <=> q >= Last(starts)

(* The start of the open pass lies below that of the open event. *)
PassOpen(c) ==
    LET R == Of(c.nodes, "RenderMarker")
        a == IF c.newEvent THEN c.startStack["AllEvent"] ELSE Front(c.startStack["AllEvent"])
    IN  /\ c.renderMarker = NoNode => \A k \in R : k < c.submitNode
        /\ c.renderMarker # NoNode =>
              /\ c.renderMarker \in R /\ c.renderMarker > c.submitNode
              /\ \A k \in R : k <= c.renderMarker
              /\ a # <<>> /\ Last(a) = c.nodes[c.renderMarker].aux.packet

Settled(c) ==
    /\ Anchored(c) /\ SubmitLast(c) /\ SectionsKnown(c.nodes)
    /\ \A e \in Of(c.nodes, "Event") : EventExact(c.nodes, e)
    /\ PassesSettled(c.nodes, c.submitNode, c.renderMarker)
    /\ EventsBelow(c.nodes)

Sectioned(c) == Settled(c) /\ EventOpen(c) /\ PassOpen(c)

(* What a step adds comes after what there is. *)
Later(s, d) ==
    /\ Len(s) \in Nat /\ Len(d) \in Nat /\ Len(s) <= Len(d)
    /\ \A m \in 1 .. Len(s) : d[m].type = s[m].type /\ d[m].aux = s[m].aux
    /\ \A m \in Sections(d) : m > Len(s) =>
          /\ d[m].aux.packet \in Of(d, "Packet")
          /\ \A k \in Sections(s) : s[k].aux.packet < d[m].aux.packet

LEMMA LaterNodes ==
    ASSUME NEW s, NEW d, Later(s, d), NEW type
    PROVE  /\ \A m \in Of(s, type) : m \in Of(d, type) /\ m \in 1 .. Len(s) /\ d[m].aux = s[m].aux
           /\ \A m \in Of(d, type) : m \in Nat /\ (m \in Of(s, type) \/ m > Len(s))
<1>. DEFINE n == Len(s)
            k == Len(d)
<1>1. n \in Nat /\ k \in Nat /\ n <= k
  BY DEF Later
<1>2. \A m \in 1 .. n : d[m].type = s[m].type /\ d[m].aux = s[m].aux
  BY DEF Later
<1>. HIDE DEF n, k
<1>3. /\ \A m \in 1 .. n : m \in 1 .. k
      /\ \A m \in 1 .. k : m \in Nat /\ (m \in 1 .. n \/ m > n)
  BY <1>1
<1>. QED
  BY <1>2, <1>3 DEF Of, n, k

LEMMA LaterSections ==
    ASSUME NEW s, NEW d, Later(s, d)
    PROVE  /\ \A m \in Sections(s) : m \in Sections(d) /\ m \in 1 .. Len(s) /\ d[m].aux = s[m].aux
           /\ \A m \in Sections(d) : m \in Nat /\ (m \in Sections(s) \/ m > Len(s))
           /\ SectionsKnown(s) => SectionsKnown(d)
<1>. DEFINE t == "Event"
            u == "RenderMarker"
            v == "Packet"
<1>. HIDE DEF t, u, v
<1>1. /\ \A m \in Of(s, t) : m \in Of(d, t) /\ m \in 1 .. Len(s) /\ d[m].aux = s[m].aux
      /\ \A m \in Of(d, t) : m \in Nat /\ (m \in Of(s, t) \/ m > Len(s))
  BY LaterNodes
<1>2. /\ \A m \in Of(s, u) : m \in Of(d, u) /\ m \in 1 .. Len(s) /\ d[m].aux = s[m].aux
      /\ \A m \in Of(d, u) : m \in Nat /\ (m \in Of(s, u) \/ m > Len(s))
  BY LaterNodes
<1>3. \A m \in Of(s, v) : m \in Of(d, v)
  BY LaterNodes
<1>4. /\ \A m \in Sections(s) : m \in Sections(d) /\ m \in 1 .. Len(s) /\ d[m].aux = s[m].aux
      /\ \A m \in Sections(d) : m \in Nat /\ (m \in Sections(s) \/ m > Len(s))
  BY <1>1, <1>2 DEF Sections, t, u
<1>5. SectionsKnown(s) => SectionsKnown(d)
  BY <1>3, <1>4 DEF SectionsKnown, Later, v
<1>. QED
  BY <1>4, <1>5

LEMMA LaterEvent ==
    ASSUME NEW s, NEW d, Later(s, d), SectionsKnown(s), NEW e \in Of(s, "Event"), EventExact(s, e),
           d[e].start["AllEvent"] = s[e].start["AllEvent"],
           d[e].end["AllEvent"] = s[e].end["AllEvent"], d[e].root["AllEvent"] = s[e].root["AllEvent"]
    PROVE  EventExact(d, e)
<1>. DEFINE S == Sections(s)
            D == Sections(d)
            P == Of(s, "Packet")
            Q == Of(d, "Packet")
            x == s[e].aux.packet
            r == s[e].root["AllEvent"]
            f == s[e].start["AllEvent"]
            N == Len(s)
<1>1. /\ \A m \in S : m \in D /\ d[m].aux = s[m].aux
      /\ \A m \in D : m \in S \/ (m > N /\ x < d[m].aux.packet /\ d[m].aux.packet \in Q)
      /\ e \in S
  <2>1. e \in S
    BY DEF Sections
  <2>. QED
    BY <2>1, LaterSections DEF Later
<1>2. /\ \A q \in P : q \in Q /\ q \in 1 .. N
      /\ \A q \in Q : q \in Nat /\ (q \in P \/ q > N)
  BY LaterNodes
<1>3. N \in Nat /\ Len(d) \in Nat /\ N <= Len(d)
  BY DEF Later
<1>4. x \in P /\ d[e].aux.packet = x
  BY <1>1 DEF SectionsKnown
<1>5. PICK b \in 1 .. N : /\ EventBound(s, e, b)
                          /\ \A q \in P : q \in f .. s[e].end["AllEvent"] <=> b < q /\ q <= x
  BY DEF EventExact
<1>6. s[e].end["AllEvent"] = x /\ r \in 1 .. N
  BY DEF EventExact
<1>7. /\ b = r \/ \E m \in S : s[m].aux.packet = b /\ b < x
      /\ r <= b
      /\ \A m \in S : s[m].aux.packet < x => s[m].aux.packet <= b
  BY <1>5 DEF EventBound
<1>. HIDE DEF N, S, D, P, Q, x, r, f
<1>8. b \in 1 .. Len(d) /\ r \in 1 .. Len(d) /\ x \in Nat
  BY <1>2, <1>3, <1>4, <1>5, <1>6
<1>9. \A m \in D : d[m].aux.packet < x => d[m].aux.packet <= b
  <2>. SUFFICES ASSUME NEW m \in D, d[m].aux.packet < x PROVE d[m].aux.packet <= b
    OBVIOUS
  <2>1. CASE m \in S
    BY <1>1, <1>7, <2>1
  <2>2. CASE x < d[m].aux.packet /\ d[m].aux.packet \in Q
    BY <1>2, <1>8, <2>2
  <2>. QED
    BY <1>1, <2>1, <2>2
<1>10. b = r \/ \E m \in D : d[m].aux.packet = b /\ b < x
  BY <1>1, <1>7
<1>11. \A q \in Q : q \in f .. x <=> b < q /\ q <= x
  <2>1. \A q \in Q : q \in P \/ (q > N /\ q \notin f .. x /\ ~(q <= x))
    BY <1>2, <1>3, <1>4, <1>8
  <2>. QED
    BY <1>5, <1>6, <2>1
<1>12. EventBound(d, e, b)
  BY <1>4, <1>7, <1>9, <1>10 DEF EventBound, D, r
<1>. QED
  BY <1>4, <1>6, <1>8, <1>11, <1>12 DEF EventExact, Q, f, x, r

LEMMA LaterPass ==
    ASSUME NEW s, NEW d, Later(s, d), SectionsKnown(s), NEW m \in Of(s, "RenderMarker"),
           PassClosed(s, m), d[m].start["AllEvent"] = s[m].start["AllEvent"],
           d[m].end["AllEvent"] = s[m].end["AllEvent"]
    PROVE  PassClosed(d, m)
<1>. DEFINE R == Of(s, "RenderMarker")
            D == Of(d, "RenderMarker")
            P == Of(s, "Packet")
            Q == Of(d, "Packet")
            f == s[m].start["AllEvent"]
            l == s[m].end["AllEvent"]
            N == Len(s)
            x == s[m].aux.packet
<1>1. /\ \A k \in R : k \in D /\ k \in 1 .. N /\ d[k].aux = s[k].aux
      /\ \A k \in D : k \in Nat /\ (k \in R \/ k > N)
  BY LaterNodes
<1>2. /\ \A q \in P : q \in Q /\ q \in 1 .. N
      /\ \A q \in Q : q \in Nat /\ (q \in P \/ q > N)
  BY LaterNodes
<1>3. N \in Nat /\ Len(d) \in Nat /\ N <= Len(d)
  BY DEF Later
<1>4. PICK k \in R : /\ k > m
                     /\ \A j \in R : j > m => j >= k
                     /\ \A q \in P : q \in f .. l <=> x <= q /\ q < s[k].aux.packet
  BY DEF PassClosed
<1>5. l \in 1 .. N
  BY DEF PassClosed
<1>6. s[k].aux.packet \in P
  BY <1>4 DEF SectionsKnown, Sections
<1>. HIDE DEF R, D, P, Q, f, l, N, x
<1>7. l \in 1 .. Len(d)
  BY <1>3, <1>5
<1>8. k \in 1 .. N /\ \A j \in D : j > m => j >= k
  BY <1>1, <1>3, <1>4
<1>. DEFINE y == s[k].aux.packet
<1>9. y \in 1 .. N /\ d[k].aux.packet = y
  BY <1>1, <1>2, <1>4, <1>6
<1>10. \A q \in Q : q \in f .. l <=> x <= q /\ q < y
  <2>. HIDE DEF y
  <2>1. \A q \in Q : q \in P \/ (q > N /\ q \notin f .. l /\ ~(q < y))
    BY <1>2, <1>3, <1>5, <1>9
  <2>2. \A q \in P : q \in f .. l <=> x <= q /\ q < y
    BY <1>4 DEF y
  <2>. QED
    BY <2>1, <2>2
<1>11. d[m].aux.packet = x /\ k \in D
  BY <1>1, <1>4 DEF x, R
<1>. QED
  BY <1>4, <1>7, <1>8, <1>9, <1>10, <1>11 DEF PassClosed, D, Q, f, l

(* The nodes of the topology of the events that a step leaves alone: all but the
   range of the pass that it ends. *)
RangesKept(s, d, pass) ==
    /\ \A e \in Of(s, "Event") : /\ d[e].start["AllEvent"] = s[e].start["AllEvent"]
                                 /\ d[e].end["AllEvent"] = s[e].end["AllEvent"]
                                 /\ d[e].root["AllEvent"] = s[e].root["AllEvent"]
    /\ \A m \in Of(s, "RenderMarker") : m # pass =>
          /\ d[m].start["AllEvent"] = s[m].start["AllEvent"]
          /\ d[m].end["AllEvent"] = s[m].end["AllEvent"]

LEMMA LaterSubmit ==
    ASSUME NEW s, NEW d, Later(s, d), NEW m \in Of(s, "RenderMarker"), SubmitBefore(s, m)
    PROVE  SubmitBefore(d, m)
<1>. DEFINE X == Of(s, "Submit")
            D == Of(d, "Submit")
            N == Len(s)
<1>1. /\ \A x \in X : x \in D /\ x \in 1 .. N
      /\ \A x \in D : x \in Nat /\ (x \in X \/ x > N)
  BY LaterNodes
<1>2. N \in Nat /\ m \in 1 .. N
  BY DEF Later, Of
<1>3. PICK x \in X : x < m /\ \A y \in X : y < m => y <= x
  BY DEF SubmitBefore
<1>. HIDE DEF X, D, N
<1>4. \A y \in D : y < m => y <= x
  BY <1>1, <1>2, <1>3
<1>. QED
  BY <1>1, <1>3, <1>4 DEF SubmitBefore, D

LEMMA LaterLeft ==
    ASSUME NEW s, NEW d, Later(s, d), NEW m \in Of(s, "RenderMarker"), NEW from \in 1 .. Len(s),
           PassLeft(s, from, m), NEW to \in 1 .. Len(d), from <= to,
           Of(d, "RenderMarker") = Of(s, "RenderMarker") \/ from \in Of(s, "Submit")
    PROVE  PassLeft(d, to, m)
<1>. DEFINE X == Of(s, "Submit")
            D == Of(d, "Submit")
            R == Of(s, "RenderMarker")
            Q == Of(d, "RenderMarker")
            N == Len(s)
<1>1. \A x \in X : x \in D /\ x \in 1 .. N
  BY LaterNodes
<1>2. \A k \in Q : k \in Nat /\ (k \in R \/ k > N)
  BY LaterNodes
<1>3. N \in Nat /\ m \in 1 .. N /\ from \in 1 .. N /\ to \in Nat /\ from <= to
  BY DEF Later, Of
<1>4. /\ m < from /\ (Q = R \/ from \in X)
      /\ \A k \in R : k > m => \E x \in X : m < x /\ x < k
  BY DEF PassLeft
<1>. HIDE DEF X, D, R, Q, N
<1>5. m < to
  BY <1>3, <1>4
<1>6. \A k \in Q : k > m => \E x \in D : m < x /\ x < k
  <2>. SUFFICES ASSUME NEW k \in Q, k > m PROVE \E x \in D : m < x /\ x < k
    OBVIOUS
  <2>1. CASE k \in R
    BY <1>1, <1>4, <2>1
  <2>2. CASE k > N /\ from \in X
    <3>1. from \in D /\ m < from /\ from < k
      BY <1>1, <1>2, <1>3, <1>4, <2>2
    <3>. QED
      BY <3>1
  <2>. QED
    BY <1>2, <1>4, <2>1, <2>2
<1>. QED
  BY <1>5, <1>6 DEF PassLeft, D, Q

LEMMA LaterBelow ==
    ASSUME NEW s, NEW d, Later(s, d), SectionsKnown(s), EventsBelow(s),
           NEW m \in Of(s, "RenderMarker"), NEW e \in Range(s[m].kids["AllEvent"])
    PROVE  /\ e \in Of(d, "Event") /\ d[m].aux.packet < d[e].aux.packet
           /\ \A k \in Of(d, "RenderMarker") : k > m => d[e].aux.packet < d[k].aux.packet
<1>. DEFINE R == Of(s, "RenderMarker")
            Q == Of(d, "RenderMarker")
<1>1. /\ e \in Of(s, "Event") /\ s[m].aux.packet < s[e].aux.packet
      /\ \A k \in R : k > m => s[e].aux.packet < s[k].aux.packet
  BY DEF EventsBelow
<1>2. /\ \A k \in R : d[k].aux = s[k].aux
      /\ \A k \in Q : k \in R \/ k > Len(s)
  BY LaterNodes
<1>3. e \in Of(d, "Event") /\ d[e].aux = s[e].aux
  BY <1>1, LaterNodes
<1>4. \A k \in Q : k > Len(s) => s[e].aux.packet < d[k].aux.packet
  BY <1>1 DEF Later, Sections
<1>. QED
  BY <1>1, <1>2, <1>3, <1>4

(* The step keeps what is settled, given what it says of a new section itself. *)
LEMMA LaterSettled ==
    ASSUME NEW c, Good(c), Settled(c), NEW d, Good(d), Later(c.nodes, d.nodes),
           RangesKept(c.nodes, d.nodes, c.renderMarker), Anchored(d), SubmitLast(d),
           c.submitNode <= d.submitNode,
           \/ Of(d.nodes, "RenderMarker") = Of(c.nodes, "RenderMarker")
           \/ c.submitNode \in Of(c.nodes, "Submit"),
           c.renderMarker \in Of(c.nodes, "RenderMarker") =>
              \/ /\ d.renderMarker = c.renderMarker
              \/ PassClosed(d.nodes, c.renderMarker)
              \/ PassLeft(d.nodes, d.submitNode, c.renderMarker),
           \A e \in Of(d.nodes, "Event") : e > Len(c.nodes) => EventExact(d.nodes, e),
           \A m \in Of(d.nodes, "RenderMarker") : m > Len(c.nodes) =>
              SubmitBefore(d.nodes, m) /\ m = d.renderMarker,
           EventsBelow(d.nodes)
    PROVE  Settled(d)
<1>. DEFINE s == c.nodes
            q == d.nodes
            N == Len(s)
            R == Of(s, "RenderMarker")
            from == c.submitNode
            to == d.submitNode
<1>1. Later(s, q) /\ SectionsKnown(s) /\ SectionsKnown(q)
  BY LaterSections DEF Settled
<1>2. \A e \in Of(q, "Event") : EventExact(q, e)
  <2>1. \A e \in Of(q, "Event") : e \in Of(s, "Event") \/ e > N
    BY LaterNodes
  <2>2. \A e \in Of(s, "Event") : EventExact(s, e)
    BY DEF Settled
  <2>3. \A e \in Of(s, "Event") : EventExact(q, e)
    BY <1>1, <2>2, LaterEvent DEF RangesKept
  <2>. QED
    BY <2>1, <2>3
<1>3. from \in 1 .. N /\ to \in 1 .. Len(q)
  BY DEF Good, NodesHeld
<1>4. PassesSettled(q, to, d.renderMarker)
  <2>. SUFFICES ASSUME NEW m \in Of(q, "RenderMarker")
                PROVE  /\ SubmitBefore(q, m)
                       /\ m = d.renderMarker \/ PassClosed(q, m) \/ PassLeft(q, to, m)
    BY DEF PassesSettled
  <2>1. m \in R \/ m > N
    BY LaterNodes
  <2>2. CASE m \in R
    <3>1. /\ SubmitBefore(s, m)
          /\ m = c.renderMarker \/ PassClosed(s, m) \/ PassLeft(s, from, m)
      BY <2>2 DEF Settled, PassesSettled
    <3>2. SubmitBefore(q, m)
      BY <1>1, <2>2, <3>1, LaterSubmit
    <3>3. CASE m = c.renderMarker
      BY <2>2, <3>2, <3>3
    <3>4. CASE PassClosed(s, m) /\ m # c.renderMarker
      <4>1. /\ q[m].start["AllEvent"] = s[m].start["AllEvent"]
            /\ q[m].end["AllEvent"] = s[m].end["AllEvent"]
        BY <2>2, <3>4 DEF RangesKept
      <4>2. PassClosed(q, m)
        BY <1>1, <2>2, <3>4, <4>1, LaterPass
      <4>. QED
        BY <3>2, <4>2
    <3>5. CASE PassLeft(s, from, m)
      <4>. HIDE DEF from, to, R
      <4>1. Of(q, "RenderMarker") = Of(s, "RenderMarker") \/ from \in Of(s, "Submit")
        BY DEF from
      <4>2. from <= to
        BY DEF from, to
      <4>3. PassLeft(q, to, m)
        BY <1>1, <1>3, <2>2, <3>5, <4>1, <4>2, LaterLeft DEF R
      <4>. QED
        BY <3>2, <4>3
    <3>. QED
      BY <3>1, <3>3, <3>4, <3>5
  <2>3. CASE m > N
    BY <2>3
  <2>. QED
    BY <2>1, <2>2, <2>3
<1>. QED
  BY <1>1, <1>2, <1>4 DEF Settled

SameSections(s, d) == \A type \in {"Event", "RenderMarker"} : Of(d, type) = Of(s, type)

LEMMA KeptLater ==
    ASSUME NEW s, NEW d, Len(s) \in Nat, Len(d) \in Nat, Kept(s, d, "AllEvent"), SameSections(s, d)
    PROVE  /\ Later(s, d) /\ Sections(d) = Sections(s) /\ (EventsBelow(s) /\ SectionsKnown(s) => EventsBelow(d))
           /\ \A pass : RangesKept(s, d, pass)
<1>. DEFINE N == Len(s)
<1>1. /\ N \in Nat /\ Len(d) \in Nat /\ N <= Len(d)
      /\ \A m \in 1 .. N : d[m].type = s[m].type /\ d[m].aux = s[m].aux
  BY DEF Kept, Extends
<1>2. Sections(d) = Sections(s)
  BY DEF Sections, SameSections
<1>3. \A m \in Sections(s) : m \in 1 .. N
  BY DEF Sections, Of
<1>4. \A m \in Sections(s) : ~(m > N)
  <2>. HIDE DEF N
  <2>. QED
    BY <1>1, <1>3
<1>5. Later(s, d)
  BY <1>1, <1>2, <1>4 DEF Later
<1>6. EventsBelow(s) /\ SectionsKnown(s) => EventsBelow(d)
  <2>. SUFFICES ASSUME EventsBelow(s), SectionsKnown(s) PROVE EventsBelow(d)
    OBVIOUS
  <2>1. \A m \in Of(s, "RenderMarker") : d[m].kids["AllEvent"] = s[m].kids["AllEvent"]
    BY DEF Kept, SameIn, Of
  <2>2. Of(d, "RenderMarker") = Of(s, "RenderMarker")
    BY DEF SameSections
  <2>. SUFFICES ASSUME NEW m \in Of(s, "RenderMarker"), NEW e \in Range(s[m].kids["AllEvent"])
                PROVE  /\ e \in Of(d, "Event") /\ d[m].aux.packet < d[e].aux.packet
                       /\ \A k \in Of(d, "RenderMarker") : k > m => d[e].aux.packet < d[k].aux.packet
    BY <2>1, <2>2 DEF EventsBelow
  <2>. QED
    BY <1>5, LaterBelow
<1>7. \A pass : RangesKept(s, d, pass)
  BY DEF RangesKept, Kept, SameIn, Of
<1>. QED
  BY <1>2, <1>5, <1>6, <1>7

LEMMA KeptSettled ==
    ASSUME NEW c, Good(c), Settled(c), NEW d, Good(d), Kept(c.nodes, d.nodes, "AllEvent"),
           SameSections(c.nodes, d.nodes), Anchored(d), SubmitLast(d),
           c.submitNode <= d.submitNode,
           c.renderMarker \in Of(c.nodes, "RenderMarker") =>
              \/ d.renderMarker = c.renderMarker
              \/ PassLeft(d.nodes, d.submitNode, c.renderMarker)
    PROVE  Settled(d)
<1>. DEFINE s == c.nodes
            q == d.nodes
            N == Len(s)
<1>1. N \in Nat /\ Len(q) \in Nat
  BY GoodNodes
<1>2. /\ Later(s, q) /\ EventsBelow(q) /\ RangesKept(s, q, c.renderMarker)
  BY <1>1, KeptLater DEF Settled
<1>3. Of(q, "RenderMarker") = Of(s, "RenderMarker") /\ Of(q, "Event") = Of(s, "Event")
  BY DEF SameSections
<1>4. \A type : \A m \in Of(s, type) : ~(m > N)
  <2>1. \A type : \A m \in Of(s, type) : m \in 1 .. N
    BY DEF Of
  <2>. HIDE DEF N
  <2>. QED
    BY <1>1, <2>1
<1>5. /\ \A e \in Of(q, "Event") : e > N => EventExact(q, e)
      /\ \A m \in Of(q, "RenderMarker") : m > N => SubmitBefore(q, m) /\ m = d.renderMarker
  BY <1>3, <1>4
<1>. QED
  BY <1>2, <1>3, <1>5, LaterSettled

LEMMA KeptOf ==
    ASSUME NEW s, NEW d, Len(s) \in Nat, Len(d) \in Nat, Extends(s, d),
           NEW T, AddsOnly(s, d, T), NEW type, type \notin T
    PROVE  Of(d, type) = Of(s, type)
<1>. DEFINE n == Len(s)
            m == Len(d)
<1>1. n \in Nat /\ m \in Nat /\ n <= m
  BY DEF Extends
<1>2. /\ \A i \in 1 .. n : d[i].type = s[i].type
      /\ \A i \in 1 .. m : i > n => d[i].type # type
  BY DEF Extends, AddsOnly
<1>. HIDE DEF n, m
<1>3. /\ \A i \in 1 .. n : i \in 1 .. m
      /\ \A i \in 1 .. m : i \in 1 .. n \/ i > n
  BY <1>1
<1>. QED
  BY <1>2, <1>3 DEF Of, n, m

LEMMA AnchoredKept ==
    ASSUME NEW c, Good(c), Anchored(c), NEW d, Extends(c.nodes, d.nodes),
           d.submitNode = c.submitNode, d.startBin = c.startBin, d.drawTable = c.drawTable
    PROVE  Anchored(d)
<1>. DEFINE N == Len(c.nodes)
            R == {"Root", "Submit"}
            p == "Packet"
<1>1. /\ N \in Nat /\ c.submitNode \in 1 .. N /\ c.startBin \in 0 .. N /\ c.drawTable \in 0 .. N
  BY GoodNodes DEF Good, NodesHeld
<1>2. \A m \in 1 .. N : d.nodes[m].type = c.nodes[m].type
  BY DEF Extends
<1>3. /\ c.nodes[1].type = "Root" /\ c.nodes[c.submitNode].type \in R
      /\ c.startBin # NoNode => c.nodes[c.startBin].type = p
      /\ c.drawTable # NoNode => c.nodes[c.drawTable].type = p
  BY DEF Anchored
<1>. HIDE DEF N, R, p
<1>4. /\ 1 \in 1 .. N
      /\ c.startBin # NoNode => c.startBin \in 1 .. N
      /\ c.drawTable # NoNode => c.drawTable \in 1 .. N
  BY <1>1 DEF NoNode
<1>5. /\ d.nodes[1].type = "Root" /\ d.nodes[c.submitNode].type \in R
      /\ c.startBin # NoNode => d.nodes[c.startBin].type = p
      /\ c.drawTable # NoNode => d.nodes[c.drawTable].type = p
  BY <1>1, <1>2, <1>3, <1>4
<1>. QED
  BY <1>5 DEF Anchored, R, p

(* A step that adds neither packets nor sections. *)
QuietTypes == {"Field", "Ib", "Present"}

LEMMA QuietSectioned ==
    ASSUME NEW c, Good(c), NEW d, NEW T, T \subseteq QuietTypes, Builds(c, d, T, "AllEvent"),
           Sectioned(c), LastPacket(c)
    PROVE  Sectioned(d) /\ LastPacket(d)
<1>. DEFINE s == c.nodes
            q == d.nodes
            N == Len(s)
            D == Len(q)
<1>1. /\ Good(d) /\ Kept(s, q, "AllEvent") /\ Extends(s, q) /\ AddsOnly(s, q, T)
      /\ d.submitNode = c.submitNode /\ d.lastAdded = c.lastAdded /\ d.newEvent = c.newEvent
      /\ d.renderMarker = c.renderMarker /\ d.startBin = c.startBin /\ d.drawTable = c.drawTable
      /\ d.startStack["AllEvent"] = c.startStack["AllEvent"]
  BY DEF Builds, SameFields, RangeFields, Kept
<1>2. N \in Nat /\ D \in Nat /\ N <= D
  BY <1>1, GoodNodes DEF Extends
<1>3. \A type : type \notin QuietTypes => Of(q, type) = Of(s, type)
  BY <1>1, <1>2, KeptOf
<1>4. /\ Of(q, "Packet") = Of(s, "Packet") /\ Of(q, "Submit") = Of(s, "Submit")
      /\ Of(q, "Event") = Of(s, "Event") /\ Of(q, "RenderMarker") = Of(s, "RenderMarker")
  BY <1>3 DEF QuietTypes
<1>5. SameSections(s, q) /\ Sections(q) = Sections(s)
  BY <1>4 DEF SameSections, Sections
<1>6. Settled(d)
  <2>1. Settled(c) /\ Anchored(c) /\ SubmitLast(c)
    BY DEF Sectioned, Settled
  <2>2. Anchored(d)
    BY <1>1, <2>1, AnchoredKept
  <2>3. SubmitLast(d)
    BY <1>1, <1>4, <2>1 DEF SubmitLast
  <2>4. c.submitNode <= d.submitNode
    BY <1>1 DEF Good, NodesHeld
  <2>. QED
    BY <1>1, <1>5, <2>1, <2>2, <2>3, <2>4, KeptSettled
<1>7. \A m \in 1 .. N : m \in 1 .. D /\ q[m].aux = s[m].aux
  <2>1. \A m \in 1 .. N : q[m].aux = s[m].aux
    BY <1>1 DEF Extends
  <2>. HIDE DEF N, D
  <2>2. \A m \in 1 .. N : m \in 1 .. D
    BY <1>2
  <2>. QED
    BY <2>1, <2>2
<1>8. \A m \in Sections(s) : q[m].aux = s[m].aux
  BY <1>7 DEF Sections, Of
<1>9. EventOpen(d)
  BY <1>1, <1>4, <1>5, <1>7, <1>8 DEF Sectioned, EventOpen
<1>10. PassOpen(d)
  <2>1. c.renderMarker \in Of(s, "RenderMarker") => q[c.renderMarker].aux = s[c.renderMarker].aux
    BY <1>7 DEF Of
  <2>. QED
    BY <1>1, <1>4, <2>1 DEF Sectioned, PassOpen
<1>11. LastPacket(d)
  BY <1>1, <1>4, <1>7 DEF LastPacket
<1>. QED
  BY <1>6, <1>9, <1>10, <1>11 DEF Sectioned

LEMMA BeginSectioned ==
    ASSUME NEW c, Good(c), NEW d, SubmitBegun(c, d, Len(d.nodes)), Sectioned(c), LastPacket(c)
    PROVE  Sectioned(d) /\ LastPacket(d) /\ d.nodes[d.submitNode].type = "Submit"
<1>. DEFINE s == c.nodes
            q == d.nodes
            N == Len(s)
            n == Len(q)
            T == {"Submit"}
            R == Of(s, "RenderMarker")
<1>0. Settled(c) /\ Anchored(c) /\ SubmitLast(c) /\ PassOpen(c) /\ EventOpen(c)
  BY DEF Sectioned, Settled
<1>1. /\ Good(d) /\ Kept(s, q, "AllEvent") /\ Extends(s, q) /\ q[n].type = "Submit"
      /\ N \in Nat /\ n = N + 1 /\ d.submitNode = n /\ d.renderMarker = NoNode
      /\ d.newEvent = TRUE /\ d.startStack["AllEvent"] = <<>> /\ d.lastAdded = c.lastAdded
      /\ d.startBin = c.startBin /\ d.drawTable = c.drawTable
  BY <1>0 DEF SubmitBegun, Kept, Topologies
<1>2. /\ n \in Nat /\ N < n /\ n \in 1 .. n /\ \A m \in 1 .. n : m > N => m = n
      /\ \A m \in 1 .. N : m \in 1 .. n /\ m < n
  <2>. HIDE DEF n, N
  <2>. QED
    BY <1>1
<1>3. AddsOnly(s, q, T)
  BY <1>1, <1>2 DEF AddsOnly
<1>. HIDE DEF T
<1>4. \A type : type \notin T => Of(q, type) = Of(s, type)
  BY <1>1, <1>2, <1>3, KeptOf
<1>5. /\ Of(q, "Packet") = Of(s, "Packet") /\ Of(q, "Event") = Of(s, "Event")
      /\ Of(q, "RenderMarker") = R
  BY <1>4 DEF T
<1>6. SameSections(s, q) /\ Sections(q) = Sections(s)
  BY <1>5 DEF SameSections, Sections
<1>7. \A m \in 1 .. N : q[m].type = s[m].type /\ q[m].aux = s[m].aux
  BY <1>1 DEF Extends
<1>8. SubmitLast(d)
  <2>1. \A x \in Of(q, "Submit") : x \in 1 .. n
    BY DEF Of
  <2>. HIDE DEF n
  <2>2. \A x \in 1 .. n : x <= n
    BY <1>2
  <2>. QED
    BY <1>1, <2>1, <2>2 DEF SubmitLast
<1>9. Anchored(d)
  <2>1. /\ c.startBin \in 0 .. N /\ c.drawTable \in 0 .. N /\ c.submitNode \in 1 .. N
    BY DEF Good, NodesHeld
  <2>. HIDE DEF N, n
  <2>2. /\ 1 \in 1 .. N
        /\ c.startBin # NoNode => c.startBin \in 1 .. N
        /\ c.drawTable # NoNode => c.drawTable \in 1 .. N
    BY <1>1, <2>1 DEF NoNode
  <2>3. q[d.submitNode].type = "Submit"
    BY <1>1
  <2>. QED
    BY <1>0, <1>1, <1>7, <2>2, <2>3 DEF Anchored
<1>10. c.submitNode \in 1 .. N /\ c.submitNode <= d.submitNode
  <2>1. c.submitNode \in 1 .. N /\ d.submitNode = n
    BY <1>1 DEF Good, NodesHeld
  <2>. HIDE DEF N, n
  <2>. QED
    BY <1>1, <2>1
<1>11. \A m \in R : m \in 1 .. N /\ m < n
  BY <1>2 DEF Of
<1>12. c.renderMarker \in R => PassLeft(q, d.submitNode, c.renderMarker)
  <2>. SUFFICES ASSUME c.renderMarker \in R PROVE PassLeft(q, d.submitNode, c.renderMarker)
    OBVIOUS
  <2>1. c.renderMarker # NoNode
    BY <1>11 DEF NoNode
  <2>2. \A k \in R : k <= c.renderMarker
    BY <1>0, <2>1 DEF PassOpen
  <2>. HIDE DEF N, R
  <2>3. \A k \in R : ~(k > c.renderMarker)
    BY <1>11, <2>2
  <2>. QED
    BY <1>1, <1>5, <1>11, <2>3 DEF PassLeft
<1>13. Settled(d)
  BY <1>0, <1>1, <1>6, <1>8, <1>9, <1>10, <1>12, KeptSettled
<1>14. \A m \in Sections(s) : q[m].aux.packet \in Of(s, "Packet")
  <2>1. \A m \in Sections(s) : m \in 1 .. N
    BY DEF Sections, Of
  <2>. QED
    BY <1>0, <1>7, <2>1 DEF Settled, SectionsKnown
<1>15. \A m \in Of(s, "Packet") : m <= n
  <2>1. \A m \in Of(s, "Packet") : m \in 1 .. N
    BY DEF Of
  <2>. HIDE DEF N, n
  <2>. QED
    BY <1>1, <2>1
<1>16. EventOpen(d)
  <2>1. IsSeq(d.startStack["AllEvent"]) /\ n <= n
    BY <1>1, <1>2, EmptySequence
  <2>. HIDE DEF n
  <2>2. \A m \in Sections(s) : q[m].aux.packet <= n
    BY <1>14, <1>15
  <2>. QED
    BY <1>1, <1>2, <1>5, <1>6, <1>15, <2>1, <2>2 DEF EventOpen, n
<1>17. PassOpen(d)
  BY <1>1, <1>5, <1>11 DEF PassOpen
<1>18. LastPacket(d)
  BY <1>1, <1>2, <1>5 DEF LastPacket
<1>. QED
  BY <1>1, <1>13, <1>16, <1>17, <1>18 DEF Sectioned

(* The packet has its node and its start, and nothing else has been done with it. *)
Fresh(c, n) ==
    /\ n \in Of(c.nodes, "Packet") /\ c.lastAdded \in 1 .. Len(c.nodes) /\ c.lastAdded < n
    /\ c.submitNode < n /\ c.newEvent = FALSE
    /\ \A q \in Of(c.nodes, "Packet") : q = n \/ q <= c.lastAdded
    /\ \A m \in Sections(c.nodes) : c.nodes[m].aux.packet < n

LEMMA AppendFront ==
    ASSUME NEW s, IsSeq(s), NEW e
    PROVE  /\ Front(Append(s, e)) = s /\ Last(Append(s, e)) = e /\ Append(s, e) # <<>>
           /\ IsSeq(Append(s, e))
<1>. DEFINE d == Append(s, e)
            n == Len(s)
            f == Front(d)
<1>1. n \in Nat /\ s = [i \in 1 .. n |-> s[i]]
  BY SeqFacts
<1>2. IsSeq(d) /\ Len(d) = n + 1 /\ (\A i \in 1 .. n : d[i] = s[i]) /\ d[n + 1] = e
  BY AppendSeq
<1>. HIDE DEF d
<1>3. Len(d) # 0 /\ Len(d) - 1 = n
  <2>. HIDE DEF n
  <2>. QED
    BY <1>1, <1>2
<1>4. d # <<>>
  BY <1>3, EmptySequence
<1>5. IsSeq(f) /\ Len(f) = n /\ (\A i \in 1 .. n : f[i] = d[i]) /\ Last(d) = d[Len(d)]
  BY <1>2, <1>3, FrontSeq
<1>. HIDE DEF f
<1>6. f = [i \in 1 .. n |-> f[i]]
  BY <1>5, SeqFacts
<1>. HIDE DEF n
<1>7. f = s
  BY <1>1, <1>2, <1>5, <1>6
<1>8. Last(d) = e
  BY <1>2, <1>5
<1>. QED
  BY <1>2, <1>4, <1>7, <1>8 DEF d, f

LEMMA ReadySectioned ==
    ASSUME NEW c, Good(c), NEW p, NEW insts, NEW d, NEW n, PacketReady(c, p, insts, d, n),
           Sectioned(c), LastPacket(c)
    PROVE  Sectioned(d) /\ Fresh(d, n)
<1>. DEFINE s == c.nodes
            q == d.nodes
            N == Len(s)
            D == Len(q)
            P == Of(s, "Packet")
            A == c.startStack["AllEvent"]
            V == d.startStack["AllEvent"]
<1>0. Settled(c) /\ Anchored(c) /\ SubmitLast(c) /\ SectionsKnown(s) /\ PassOpen(c) /\ EventOpen(c)
  BY DEF Sectioned, Settled
<1>1. /\ Good(d) /\ NewPacket(s, q, n, p.op, insts, {"Field"}, "AllEvent")
      /\ V = IF c.newEvent THEN Append(A, n) ELSE A
      /\ d.newEvent = FALSE /\ d.submitNode = c.submitNode /\ d.lastAdded = c.lastAdded
      /\ d.renderMarker = c.renderMarker /\ d.startBin = c.startBin /\ d.drawTable = c.drawTable
  BY DEF PacketReady, Topologies, Pushed
<1>2. /\ Kept(s, q, "AllEvent") /\ Extends(s, q) /\ n = N + 1 /\ n \in 1 .. D
      /\ q[n].type = "Packet" /\ \A m \in 1 .. D : m > n => q[m].type = "Field"
  BY <1>1 DEF NewPacket, Kept
<1>3. N \in Nat /\ D \in Nat /\ N <= D
  BY <1>1, <1>2, GoodNodes DEF Extends
<1>4. c.submitNode \in 1 .. N /\ c.lastAdded \in 1 .. N /\ \A m \in P : m <= c.lastAdded
  BY DEF Good, NodesHeld, Sectioned, LastPacket
<1>5. \A m \in 1 .. N : q[m].type = s[m].type /\ q[m].aux = s[m].aux
  BY <1>2 DEF Extends
<1>. HIDE DEF N, D
<1>6. /\ \A m \in 1 .. N : m \in 1 .. D /\ m < n /\ ~(m > n) /\ m # n
      /\ \A m \in 1 .. D : m \in 1 .. N \/ m = n \/ m > n
      /\ n \in Nat /\ n >= n
  BY <1>2, <1>3
<1>7. \A type : type # "Packet" /\ type # "Field" => Of(q, type) = Of(s, type)
  BY <1>2, <1>5, <1>6 DEF Of, N, D
<1>8. Of(q, "Packet") = P \cup {n}
  BY <1>2, <1>5, <1>6 DEF Of, N, D
<1>9. /\ Of(q, "Submit") = Of(s, "Submit") /\ Of(q, "RenderMarker") = Of(s, "RenderMarker")
      /\ Of(q, "Event") = Of(s, "Event")
  BY <1>7
<1>10. SameSections(s, q) /\ Sections(q) = Sections(s)
  BY <1>9 DEF SameSections, Sections
<1>11. \A type : \A m \in Of(s, type) : m \in 1 .. N
  BY DEF Of, N
<1>12. \A m \in Sections(s) : q[m].aux = s[m].aux /\ s[m].aux.packet \in P
  BY <1>0, <1>5, <1>11 DEF Sections, SectionsKnown
<1>13. Settled(d)
  <2>1. Anchored(d)
    BY <1>0, <1>1, <1>2, AnchoredKept
  <2>2. SubmitLast(d)
    BY <1>0, <1>1, <1>9 DEF SubmitLast
  <2>3. c.submitNode <= d.submitNode
    BY <1>1, <1>4
  <2>. QED
    BY <1>0, <1>1, <1>2, <1>10, <2>1, <2>2, <2>3, KeptSettled
<1>14. Fresh(d, n)
  <2>1. c.lastAdded \in 1 .. D /\ c.lastAdded < n /\ c.submitNode < n
    BY <1>4, <1>6
  <2>2. \A m \in P : m < n
    BY <1>6, <1>11
  <2>3. \A m \in P \cup {n} : m = n \/ m <= c.lastAdded
    BY <1>4
  <2>. QED
    BY <1>1, <1>8, <1>10, <1>12, <2>1, <2>2, <2>3 DEF Fresh, D
<1>15. IsSeq(A) /\ IsSeq(V)
  BY <1>0, <1>1, AppendFront DEF EventOpen
<1>16. EventOpen(d)
  <2>1. PICK b \in 1 .. N :
          /\ b = c.submitNode \/ \E m \in Sections(s) : s[m].aux.packet = b
          /\ c.submitNode <= b
          /\ \A m \in Sections(s) : s[m].aux.packet <= b
          /\ c.newEvent => \A m \in P : m <= b
          /\ ~c.newEvent => /\ A # <<>> /\ Last(A) \in P
                            /\ \A m \in P : m > b <=> m >= Last(A)
    BY <1>0 DEF EventOpen, N
  <2>2. b \in 1 .. D /\ n > b
    BY <1>6, <2>1
  <2>3. CASE c.newEvent
    <3>1. V # <<>> /\ Last(V) = n
      BY <1>1, <1>15, <2>3, AppendFront
    <3>. HIDE DEF V
    <3>2. \A m \in P \cup {n} : m > b <=> m >= n
      <4>1. \A m \in P : ~(m > b) /\ ~(m >= n)
        BY <1>6, <1>11, <2>1, <2>3
      <4>. QED
        BY <1>6, <2>2, <4>1
    <3>3. V # <<>> /\ Last(V) \in P \cup {n} /\ \A m \in P \cup {n} : m > b <=> m >= Last(V)
      BY <3>1, <3>2
    <3>. QED
      BY <1>1, <1>8, <1>10, <1>12, <1>15, <2>1, <2>2, <3>3 DEF EventOpen, V, D
  <2>4. CASE ~c.newEvent
    <3>1. V = A /\ A # <<>> /\ Last(A) \in P
      BY <1>1, <2>1, <2>4
    <3>2. n >= Last(A)
      <4>1. Last(A) \in 1 .. N
        BY <1>11, <3>1
      <4>. QED
        BY <1>2, <1>3, <4>1
    <3>3. \A m \in P \cup {n} : m > b <=> m >= Last(A)
      BY <2>1, <2>2, <2>4, <3>2
    <3>. QED
      BY <1>1, <1>8, <1>10, <1>12, <1>15, <2>1, <2>2, <3>1, <3>3 DEF EventOpen, D
  <2>. QED
    BY <2>3, <2>4
<1>17. PassOpen(d)
  <2>. DEFINE R == Of(s, "RenderMarker")
              a == IF c.newEvent THEN A ELSE Front(A)
              m == c.renderMarker
  <2>1. Front(V) = a
    BY <1>1, <1>15, AppendFront
  <2>2. /\ m = NoNode => \A k \in R : k < c.submitNode
        /\ m # NoNode => /\ m \in R /\ m > c.submitNode
                         /\ \A k \in R : k <= m
                         /\ a # <<>> /\ Last(a) = s[m].aux.packet
    BY <1>0 DEF PassOpen
  <2>3. m \in R => q[m].aux = s[m].aux
    BY <1>5, <1>11
  <2>. HIDE DEF a, R
  <2>. QED
    BY <1>1, <1>9, <2>1, <2>2, <2>3 DEF PassOpen, R
<1>. QED
  BY <1>13, <1>14, <1>16, <1>17 DEF Sectioned

LEMMA NotedSectioned ==
    ASSUME NEW c, Good(c), NEW n, Fresh(c, n), NEW d, Good(d), OnlyNoted(c, n, d), Sectioned(c)
    PROVE  Sectioned(d) /\ d.lastAdded = c.lastAdded /\ d.submitNode = c.submitNode
<1>1. /\ d.nodes = c.nodes /\ d.startStack = c.startStack /\ d.submitNode = c.submitNode
      /\ d.lastAdded = c.lastAdded /\ d.newEvent = c.newEvent /\ d.renderMarker = c.renderMarker
      /\ d.startBin \in {c.startBin, n, NoNode} /\ d.drawTable \in {c.drawTable, n}
  BY DEF OnlyNoted
<1>2. c.nodes[n].type = "Packet"
  BY DEF Fresh, Of
<1>3. Anchored(d)
  BY <1>1, <1>2 DEF Anchored, Sectioned, Settled
<1>. QED
  BY <1>1, <1>3 DEF Sectioned, Settled, SubmitLast, EventOpen, PassOpen

LEMMA AttachedSectioned ==
    ASSUME NEW c, Good(c), Sectioned(c), NEW n \in Of(c.nodes, "Packet"),
           \A q \in Of(c.nodes, "Packet") : q <= n, NEW d, PacketAttached(c, n, d)
    PROVE  Sectioned(d) /\ LastPacket(d) /\ d.submitNode = c.submitNode
<1>. DEFINE s == c.nodes
            q == d.nodes
            N == Len(s)
<1>1. /\ Good(d) /\ Len(q) = N /\ Kept(s, q, "AllEvent") /\ Extends(s, q) /\ d.lastAdded = n
      /\ d.submitNode = c.submitNode /\ d.newEvent = c.newEvent
      /\ d.renderMarker = c.renderMarker /\ d.startBin = c.startBin /\ d.drawTable = c.drawTable
      /\ d.startStack["AllEvent"] = c.startStack["AllEvent"]
  BY DEF PacketAttached, Kept
<1>2. \A m \in 1 .. N : q[m].type = s[m].type /\ q[m].aux = s[m].aux
  BY <1>1 DEF Extends
<1>3. \A type : Of(q, type) = Of(s, type)
  BY <1>1, <1>2 DEF Of
<1>4. SameSections(s, q) /\ Sections(q) = Sections(s)
  BY <1>3 DEF SameSections, Sections
<1>5. Settled(d)
  <2>1. Settled(c) /\ Anchored(c) /\ SubmitLast(c)
    BY DEF Sectioned, Settled
  <2>2. Anchored(d)
    BY <1>1, <2>1, AnchoredKept
  <2>3. SubmitLast(d)
    BY <1>1, <1>3, <2>1 DEF SubmitLast
  <2>4. c.submitNode <= d.submitNode
    BY <1>1 DEF Good, NodesHeld
  <2>. QED
    BY <1>1, <1>4, <2>1, <2>2, <2>3, <2>4, KeptSettled
<1>6. \A m \in Sections(s) : q[m].aux = s[m].aux
  BY <1>2 DEF Sections, Of
<1>7. EventOpen(d)
  BY <1>1, <1>3, <1>4, <1>6 DEF Sectioned, EventOpen
<1>8. PassOpen(d)
  <2>1. c.renderMarker \in Of(s, "RenderMarker") => q[c.renderMarker].aux = s[c.renderMarker].aux
    BY <1>2 DEF Of
  <2>. QED
    BY <1>1, <1>3, <2>1 DEF Sectioned, PassOpen
<1>9. LastPacket(d)
  BY <1>1, <1>3 DEF LastPacket, Of
<1>. QED
  BY <1>1, <1>5, <1>7, <1>8, <1>9 DEF Sectioned

(* One section is added, for the last packet. *)
NewSection(c, d, e, type, n) ==
    /\ e = Len(d.nodes) /\ e = Len(c.nodes) + 1 /\ Extends(c.nodes, d.nodes)
    /\ d.nodes[e].type = type /\ d.nodes[e].aux.packet = n

SectionAdded(c, d, e, type) ==
    /\ Later(c.nodes, d.nodes)
    /\ Of(d.nodes, type) = Of(c.nodes, type) \cup {e}
    /\ \A u : u # type => Of(d.nodes, u) = Of(c.nodes, u)
    /\ Of(d.nodes, "Packet") = Of(c.nodes, "Packet")
    /\ Of(d.nodes, "Submit") = Of(c.nodes, "Submit")
    /\ Sections(d.nodes) = Sections(c.nodes) \cup {e}
    /\ \A u : \A m \in Of(c.nodes, u) : m \in 1 .. Len(c.nodes)
    /\ \A m \in Sections(c.nodes) : m \in 1 .. Len(c.nodes) /\ d.nodes[m].aux = c.nodes[m].aux
    /\ \A m \in 1 .. Len(c.nodes) : m < e /\ m # e /\ m \in 1 .. e /\ ~(m > Len(c.nodes))
                                    /\ d.nodes[m].aux = c.nodes[m].aux
    /\ e \in Nat /\ e > Len(c.nodes) /\ e \in 1 .. e

LEMMA OneSection ==
    ASSUME NEW c, Good(c), NEW n, Fresh(c, n), NEW d, NEW e,
           NEW type \in {"Event", "RenderMarker"}, NewSection(c, d, e, type, n)
    PROVE  SectionAdded(c, d, e, type)
<1>. DEFINE s == c.nodes
            q == d.nodes
            N == Len(s)
<1>1. N \in Nat /\ e = N + 1 /\ e = Len(q)
  BY GoodNodes DEF NewSection
<1>2. /\ \A m \in 1 .. N : q[m].type = s[m].type /\ q[m].aux = s[m].aux
      /\ q[e].type = type /\ q[e].aux.packet = n
  BY DEF NewSection, Extends
<1>3. \A u, m : /\ m \in Of(s, u) <=> m \in 1 .. N /\ s[m].type = u
                /\ m \in Of(q, u) <=> m \in 1 .. e /\ q[m].type = u
  BY <1>1 DEF Of
<1>7. \A u : \A m \in Of(s, u) : m \in 1 .. N
  BY DEF Of
<1>. HIDE DEF N, s, q
<1>4. /\ \A m \in 1 .. N : m < e /\ m # e /\ m \in 1 .. e /\ ~(m > N)
      /\ \A m \in 1 .. e : m \in 1 .. N \/ m = e
      /\ e \in Nat /\ e > N /\ e \in 1 .. e /\ N <= e
  BY <1>1
<1>5. /\ Of(q, type) = Of(s, type) \cup {e}
      /\ \A u : u # type => Of(q, u) = Of(s, u)
  <2>1. ASSUME NEW u, NEW m PROVE m \in Of(q, u) <=> m \in Of(s, u) \/ (m = e /\ u = type)
    <3>1. CASE m \in 1 .. N
      BY <1>2, <1>3, <1>4, <3>1
    <3>2. CASE m = e
      BY <1>2, <1>3, <1>4, <3>2
    <3>3. CASE m \notin 1 .. e
      BY <1>3, <1>4, <3>3
    <3>. QED
      BY <1>4, <3>1, <3>2, <3>3
  <2>. QED
    BY <2>1
<1>6. Sections(q) = Sections(s) \cup {e}
  <2>1. CASE type = "Event"
    BY <1>5, <2>1 DEF Sections
  <2>2. CASE type = "RenderMarker"
    BY <1>5, <2>2 DEF Sections
  <2>. QED
    BY <2>1, <2>2
<1>65. Of(q, "Packet") = Of(s, "Packet") /\ Of(q, "Submit") = Of(s, "Submit")
  <2>1. "Packet" # type /\ "Submit" # type
    OBVIOUS
  <2>. QED
    BY <1>5, <2>1
<1>8. n \in Of(q, "Packet") /\ \A m \in Sections(s) : s[m].aux.packet < n
  BY <1>65 DEF Fresh, s
<1>9. Later(s, q)
  <2>1. \A m \in Sections(q) : m > N => m = e
    BY <1>4, <1>6, <1>7 DEF Sections
  <2>. QED
    BY <1>1, <1>2, <1>4, <1>8, <2>1 DEF Later, N
<1>. QED
  <2>1. \A m \in Sections(s) : m \in 1 .. N /\ q[m].aux = s[m].aux
    BY <1>2, <1>7 DEF Sections
  <2>. QED
    BY <1>2, <1>4, <1>5, <1>6, <1>65, <1>7, <1>9, <2>1 DEF SectionAdded, s, q, N

(* What the section itself has to say for the next one to be open. *)
LEMMA NextOpen ==
    ASSUME NEW c, Good(c), NEW n, Fresh(c, n), NEW d, NEW e,
           NEW type \in {"Event", "RenderMarker"}, NewSection(c, d, e, type, n),
           SectionsKnown(c.nodes), d.submitNode = c.submitNode, d.newEvent = TRUE,
           IsSeq(d.startStack["AllEvent"])
    PROVE  EventOpen(d)
<1>. DEFINE s == c.nodes
            q == d.nodes
            P == Of(s, "Packet")
<1>1. /\ Of(q, "Packet") = P /\ Sections(q) = Sections(s) \cup {e}
      /\ \A m \in Sections(s) : q[m].aux = s[m].aux
      /\ n \in 1 .. Len(q)
  <2>0. SectionAdded(c, d, e, type)
    BY OneSection
  <2>1. Of(q, "Packet") = P /\ Sections(q) = Sections(s) \cup {e}
    BY <2>0 DEF SectionAdded
  <2>2. \A m \in Sections(s) : q[m].aux = s[m].aux
    BY <2>0 DEF SectionAdded
  <2>3. n \in Of(q, "Packet")
    BY <2>1 DEF Fresh
  <2>. QED
    BY <2>1, <2>2, <2>3 DEF Of
<1>2. q[e].aux.packet = n /\ \A m \in Sections(s) : s[m].aux.packet < n
  BY DEF NewSection, Fresh
<1>3. \A m \in P : m \in Nat /\ m <= n
  <2>1. n \in P /\ c.lastAdded < n /\ c.lastAdded \in 1 .. Len(s)
        /\ \A m \in P : m = n \/ m <= c.lastAdded
    BY DEF Fresh
  <2>2. \A m \in P : m \in Nat
    BY DEF Of
  <2>. HIDE DEF P
  <2>. QED
    BY <2>1, <2>2
<1>4. c.submitNode <= n /\ n <= n /\ c.submitNode \in Nat /\ n \in Nat
  <2>1. c.submitNode < n /\ c.submitNode \in 1 .. Len(s) /\ n \in P
    BY DEF Fresh, Good, NodesHeld
  <2>2. n \in Nat
    BY <1>3, <2>1
  <2>. QED
    BY <2>1, <2>2
<1>5. \A m \in Sections(s) : s[m].aux.packet <= n
  BY <1>3 DEF SectionsKnown
<1>. HIDE DEF P
<1>6. \A m \in Sections(q) : q[m].aux.packet <= n
  BY <1>1, <1>2, <1>4, <1>5
<1>7. \E m \in Sections(q) : q[m].aux.packet = n
  BY <1>1, <1>2
<1>8. Of(q, "Packet") = P
  BY <1>1
<1>. QED
  <2>1. \E b \in 1 .. Len(q) :
          /\ b = d.submitNode \/ \E m \in Sections(q) : q[m].aux.packet = b
          /\ d.submitNode <= b
          /\ \A m \in Sections(q) : q[m].aux.packet <= b
          /\ \A m \in P : m <= b
    BY <1>1, <1>3, <1>4, <1>6, <1>7
  <2>2. IsSeq(d.startStack["AllEvent"]) /\ d.newEvent
    OBVIOUS
  <2>. QED
    BY <1>8, <2>1, <2>2 DEF EventOpen

LEMMA EventSectioned ==
    ASSUME NEW c, Good(c), NEW n, Fresh(c, n), NEW d, Good(d), EventAdded(c, n, d, Len(d.nodes)),
           Sectioned(c)
    PROVE  /\ Sectioned(d) /\ d.submitNode = c.submitNode
           /\ Of(d.nodes, "Packet") = Of(c.nodes, "Packet")
<1>. DEFINE s == c.nodes
            q == d.nodes
            N == Len(s)
            e == Len(q)
            A == c.startStack["AllEvent"]
            P == Of(s, "Packet")
            R == Of(s, "RenderMarker")
            t == "Event"
            par == EventParent(c)
            from == c.submitNode
            pass == c.renderMarker
<1>0. /\ Settled(c) /\ Anchored(c) /\ SubmitLast(c) /\ SectionsKnown(s) /\ PassOpen(c) /\ EventOpen(c)
      /\ EventsBelow(s)
  BY SMTT(40) DEF Sectioned, Settled
<1>1. /\ \A m \in 1 .. N : /\ q[m].start = s[m].start /\ q[m].end = s[m].end
                           /\ q[m].root = s[m].root
                           /\ m # par => q[m].kids["AllEvent"] = s[m].kids["AllEvent"]
      /\ q[par].kids["AllEvent"] = Append(s[par].kids["AllEvent"], e)
      /\ q[e].start["AllEvent"] = Last(A) /\ q[e].end["AllEvent"] = n
      /\ q[e].root["AllEvent"] = from
      /\ d.newEvent = TRUE /\ d.startStack["AllEvent"] = Front(A)
      /\ d.submitNode = from /\ d.renderMarker = pass
      /\ d.startBin = c.startBin /\ d.drawTable = c.drawTable
  BY ZenonT(60) DEF EventAdded
<1>2. NewSection(c, d, e, t, n)
  BY DEF EventAdded, NewSection
<1>. HIDE DEF t, e
<1>3. /\ Later(s, q) /\ Of(q, t) = Of(s, t) \cup {e}
      /\ \A u : u # t => Of(q, u) = Of(s, u)
      /\ Sections(q) = Sections(s) \cup {e}
      /\ \A u : \A m \in Of(s, u) : m \in 1 .. N
      /\ \A m \in 1 .. N : m < e /\ m # e /\ m \in 1 .. e /\ ~(m > N) /\ q[m].aux = s[m].aux
      /\ e \in Nat /\ e > N /\ e \in 1 .. e
  <2>1. t \in {"Event", "RenderMarker"}
    BY DEF t
  <2>2. SectionAdded(c, d, e, t)
    BY <1>2, <2>1, OneSection
  <2>. QED
    BY <2>2 DEF SectionAdded
<1>4. /\ Of(q, "Event") = Of(s, "Event") \cup {e} /\ Of(q, "RenderMarker") = R
      /\ Of(q, "Packet") = P /\ Of(q, "Submit") = Of(s, "Submit")
  BY <1>3 DEF t
<1>5. /\ n \in P /\ from < n /\ c.newEvent = FALSE /\ n \in 1 .. N /\ from \in 1 .. N
      /\ \A m \in Sections(s) : s[m].aux.packet < n
      /\ q[e].aux.packet = n
  BY <1>2, <1>3 DEF Fresh, Good, NodesHeld, NewSection
<1>6. N \in Nat /\ Len(q) = e /\ Extends(s, q)
  BY <1>2, GoodNodes DEF NewSection
<1>7. IsSeq(A) /\ A # <<>> /\ Last(A) \in P
  BY <1>0, <1>5 DEF EventOpen
<1>8. RangesKept(s, q, pass)
  BY <1>1, <1>3 DEF RangesKept
<1>9. Anchored(d)
  BY <1>0, <1>1, <1>6, AnchoredKept
<1>10. SubmitLast(d) /\ from <= d.submitNode
  <2>1. from <= from
    BY <1>5
  <2>. QED
    BY <1>0, <1>1, <1>4, <2>1 DEF SubmitLast
<1>11. EventExact(q, e)
  <2>1. PICK b \in 1 .. N :
          /\ b = from \/ \E m \in Sections(s) : s[m].aux.packet = b
          /\ from <= b
          /\ \A m \in Sections(s) : s[m].aux.packet <= b
          /\ \A m \in P : m > b <=> m >= Last(A)
    BY <1>0, <1>5 DEF EventOpen
  <2>2. Last(A) \in Nat /\ n \in Nat /\ b \in Nat /\ \A m \in P : m \in Nat
    BY <1>3, <1>5, <1>7, <2>1
  <2>3. \A m \in P : m \in Last(A) .. n <=> b < m /\ m <= n
    BY <2>1, <2>2
  <2>4. \A m \in Sections(s) : q[m].aux = s[m].aux
    BY <1>3 DEF Sections
  <2>5. EventBound(q, e, b)
    <3>1. b = from \/ \E m \in Sections(q) : q[m].aux.packet = b /\ b < n
      BY <1>3, <1>5, <2>1, <2>4
    <3>2. ~(n < n)
      BY <2>2
    <3>3. \A m \in Sections(q) : q[m].aux.packet < n => q[m].aux.packet <= b
      BY <1>3, <1>5, <2>1, <2>4, <3>2
    <3>. QED
      BY <1>1, <1>5, <2>1, <3>1, <3>3 DEF EventBound
  <2>6. b \in 1 .. e /\ from \in 1 .. e
    BY <1>3, <1>5, <2>1
  <2>. QED
    BY <1>1, <1>4, <1>5, <1>6, <2>3, <2>5, <2>6 DEF EventExact
<1>12. /\ \A m \in Of(q, "Event") : m > N => EventExact(q, m)
       /\ \A m \in Of(q, "RenderMarker") : m > N => SubmitBefore(q, m) /\ m = d.renderMarker
  BY <1>3, <1>4, <1>11
<1>13. pass # NoNode => /\ pass \in R /\ pass > from /\ (\A k \in R : k <= pass)
                        /\ Front(A) # <<>> /\ Last(Front(A)) = s[pass].aux.packet
  BY <1>0, <1>5 DEF PassOpen
<1>14. EventsBelow(q)
  <2>. SUFFICES ASSUME NEW m \in R, NEW k \in Range(q[m].kids["AllEvent"])
                PROVE  /\ k \in Of(q, "Event") /\ q[m].aux.packet < q[k].aux.packet
                       /\ \A j \in R : j > m => q[k].aux.packet < q[j].aux.packet
    BY <1>4 DEF EventsBelow
  <2>1. k \in Range(s[m].kids["AllEvent"]) \/ (k = e /\ m = pass)
    <3>1. CASE m # par
      BY <1>1, <1>3, <3>1, SMTT(40)
    <3>2. CASE m = par
      <4>1. m = pass
        <5>1. s[from].type # "RenderMarker" /\ s[m].type = "RenderMarker"
          BY <1>0 DEF Anchored, Of
        <5>. QED
          BY <3>2, <5>1 DEF EventParent
      <4>2. IsSeq(s[m].kids["AllEvent"])
        BY <1>3 DEF Good, Forest, NodeOk, Topologies
      <4>. DEFINE K == s[m].kids["AllEvent"]
      <4>3. k \in Range(Append(K, e)) /\ IsSeq(K)
        BY <1>1, <3>2, <4>2
      <4>. HIDE DEF K
      <4>4. k \in Range(K) \/ k = e
        BY <4>3, AppendRange
      <4>. QED
        BY <4>1, <4>4 DEF K
    <3>. QED
      BY <3>1, <3>2
  <2>2. CASE k \in Range(s[m].kids["AllEvent"])
    BY <1>0, <1>3, <1>4, <2>2, LaterBelow
  <2>3. CASE k = e /\ m = pass
    <3>1. q[m].aux.packet < n
      BY <1>3, <1>5 DEF Sections
    <3>2. pass # NoNode
      BY <1>3, <2>3 DEF NoNode
    <3>3. \A j \in R : ~(j > m)
      BY <1>3, <1>13, <2>3, <3>2
    <3>. QED
      BY <1>4, <1>5, <2>3, <3>1, <3>3
  <2>. QED
    BY <2>1, <2>2, <2>3
<1>15. Settled(d)
  BY <1>0, <1>1, <1>3, <1>4, <1>8, <1>9, <1>10, <1>12, <1>14, LaterSettled
<1>16. IsSeq(Front(A))
  BY <1>7, NonEmptySeq, FrontSeq
<1>17. EventOpen(d)
  <2>1. t \in {"Event", "RenderMarker"}
    BY DEF t
  <2>. QED
    BY <1>0, <1>1, <1>2, <1>16, <2>1, NextOpen
<1>18. PassOpen(d)
  <2>1. pass \in R => q[pass].aux = s[pass].aux
    BY <1>3
  <2>2. pass = NoNode => \A k \in R : k < from
    BY <1>0 DEF PassOpen
  <2>. QED
    BY <1>1, <1>4, <1>13, <2>1, <2>2 DEF PassOpen
<1>. QED
  BY <1>1, <1>4, <1>15, <1>17, <1>18 DEF Sectioned

LEMMA MarkerSectioned ==
    ASSUME NEW c, Good(c), NEW n, Fresh(c, n), NEW d, Good(d), MarkerAdded(c, n, d, Len(d.nodes)),
           Sectioned(c), c.submitNode \in Of(c.nodes, "Submit")
    PROVE  /\ Sectioned(d) /\ d.submitNode = c.submitNode
           /\ Of(d.nodes, "Packet") = Of(c.nodes, "Packet")
<1>. DEFINE s == c.nodes
            q == d.nodes
            N == Len(s)
            e == Len(q)
            A == c.startStack["AllEvent"]
            B == d.startStack["AllEvent"]
            P == Of(s, "Packet")
            R == Of(s, "RenderMarker")
            t == "RenderMarker"
            from == c.submitNode
            pass == c.renderMarker
            last == c.lastAdded
<1>0. /\ Settled(c) /\ Anchored(c) /\ SubmitLast(c) /\ SectionsKnown(s) /\ PassOpen(c) /\ EventOpen(c)
      /\ EventsBelow(s)
  BY DEF Sectioned, Settled
<1>1. /\ \A m \in 1 .. N : /\ m # pass => /\ q[m].start = s[m].start /\ q[m].end = s[m].end
                                          /\ q[m].root = s[m].root
                           /\ m # from => q[m].kids = s[m].kids
      /\ q[e].kids["AllEvent"] = <<>>
      /\ d.newEvent = TRUE /\ d.renderMarker = e
      /\ pass = NoNode => B = Append(A, n)
      /\ pass # NoNode => B = Append(Front(Front(A)), n)
      /\ pass # NoNode /\ pass # from => /\ q[pass].start["AllEvent"] = Last(Front(A))
                                         /\ q[pass].end["AllEvent"] = last
      /\ d.submitNode = from /\ d.startBin = c.startBin /\ d.drawTable = c.drawTable
  BY DEF MarkerAdded
<1>2. NewSection(c, d, e, t, n)
  BY DEF MarkerAdded, NewSection
<1>. HIDE DEF t, e
<1>25. t \in {"Event", "RenderMarker"}
  BY DEF t
<1>3. /\ Later(s, q) /\ Of(q, t) = Of(s, t) \cup {e}
      /\ \A u : u # t => Of(q, u) = Of(s, u)
      /\ Of(q, "Packet") = P /\ Of(q, "Submit") = Of(s, "Submit")
      /\ Sections(q) = Sections(s) \cup {e}
      /\ \A u : \A m \in Of(s, u) : m \in 1 .. N
      /\ \A m \in Sections(s) : m \in 1 .. N
      /\ \A m \in 1 .. N : m < e /\ m # e /\ m \in 1 .. e /\ ~(m > N) /\ q[m].aux = s[m].aux
      /\ e \in Nat /\ e > N /\ e \in 1 .. e
  <2>2. SectionAdded(c, d, e, t)
    BY <1>2, <1>25, OneSection
  <2>. QED
    BY <2>2 DEF SectionAdded
<1>4. Of(q, "Event") = Of(s, "Event") /\ Of(q, "RenderMarker") = R \cup {e}
  <2>1. "Event" # t
    BY DEF t
  <2>. QED
    BY <1>3, <2>1 DEF t
<1>5. /\ n \in P /\ from < n /\ c.newEvent = FALSE /\ n \in 1 .. N /\ from \in 1 .. N
      /\ last \in 1 .. N /\ last < n /\ \A m \in P : m = n \/ m <= last
      /\ q[e].aux.packet = n
  BY <1>2, <1>3 DEF Fresh, Good, NodesHeld, NewSection
<1>6. N \in Nat /\ Len(q) = e /\ Extends(s, q)
  BY <1>2, GoodNodes DEF NewSection, e
<1>7. IsSeq(A) /\ A # <<>>
  BY <1>0, <1>5 DEF EventOpen
<1>8. /\ pass = NoNode => \A k \in R : k < from
      /\ pass # NoNode => /\ pass \in R /\ pass > from /\ (\A k \in R : k <= pass)
                          /\ Front(A) # <<>> /\ Last(Front(A)) = s[pass].aux.packet
  BY <1>0, <1>5 DEF PassOpen
<1>85. /\ \A m \in R : m \notin Of(s, "Event") /\ m # from /\ m \in 1 .. N
       /\ \A m \in Of(s, "Event") : m \in 1 .. N
  BY <1>3 DEF Of
<1>9. RangesKept(s, q, pass)
  <2>1. \A m \in Of(s, "Event") : m # pass
    BY <1>3, <1>8, <1>85 DEF NoNode
  <2>. QED
    BY <1>1, <1>85, <2>1 DEF RangesKept
<1>10. Anchored(d)
  BY <1>0, <1>1, <1>6, AnchoredKept
<1>11. SubmitLast(d) /\ from <= d.submitNode /\ from < e
  <2>1. from <= from /\ from < e
    BY <1>3, <1>5
  <2>. QED
    BY <1>0, <1>1, <1>3, <2>1 DEF SubmitLast
<1>12. SubmitBefore(q, e)
  BY <1>0, <1>3, <1>11 DEF SubmitBefore, SubmitLast
<1>13. ASSUME pass # NoNode PROVE PassClosed(q, pass)
  <2>1. /\ pass \in R /\ (\A k \in R : k <= pass) /\ pass # from /\ pass \in 1 .. N
        /\ q[pass].aux = s[pass].aux /\ s[pass].aux.packet \in P
    BY <1>0, <1>3, <1>8, <1>13, <1>85 DEF SectionsKnown, Sections
  <2>2. q[pass].start["AllEvent"] = s[pass].aux.packet /\ q[pass].end["AllEvent"] = last
    BY <1>1, <1>8, <1>13, <2>1
  <2>. DEFINE y == s[pass].aux.packet
  <2>. HIDE DEF y
  <2>3. y \in P /\ \A m \in P : m \in Nat
    BY <1>3, <2>1 DEF y
  <2>4. \A m \in P : m \in y .. last <=> y <= m /\ m < n
    BY <1>5, <2>3
  <2>5. e > pass /\ (\A j \in R : ~(j > pass)) /\ last \in 1 .. e /\ e >= e
    BY <1>3, <1>5, <1>85, <2>1
  <2>6. \A j \in Of(q, "RenderMarker") : j > pass => j >= e
    BY <1>4, <2>5
  <2>7. \A m \in Of(q, "Packet") :
            m \in q[pass].start["AllEvent"] .. q[pass].end["AllEvent"]
                <=> q[pass].aux.packet <= m /\ m < q[e].aux.packet
    BY <1>3, <1>5, <2>1, <2>2, <2>4 DEF y
  <2>8. e \in Of(q, "RenderMarker") /\ q[pass].end["AllEvent"] \in 1 .. Len(q)
    BY <1>4, <1>6, <2>2, <2>5
  <2>. QED
    BY <2>5, <2>6, <2>7, <2>8 DEF PassClosed
<1>14. /\ \A m \in Of(q, "Event") : m > N => EventExact(q, m)
       /\ \A m \in Of(q, "RenderMarker") : m > N => SubmitBefore(q, m) /\ m = d.renderMarker
  BY <1>1, <1>3, <1>4, <1>12
<1>15. EventsBelow(q)
  <2>. SUFFICES ASSUME NEW m \in R \cup {e}, NEW k \in Range(q[m].kids["AllEvent"])
                PROVE  /\ k \in Of(q, "Event") /\ q[m].aux.packet < q[k].aux.packet
                       /\ \A j \in Of(q, "RenderMarker") : j > m => q[k].aux.packet < q[j].aux.packet
    BY <1>4 DEF EventsBelow
  <2>1. m # e
    BY <1>1 DEF Range
  <2>2. m \in R /\ q[m].kids = s[m].kids
    BY <1>1, <1>85, <2>1
  <2>. QED
    BY <1>0, <1>3, <2>2, LaterBelow
<1>16. Settled(d)
  <2>1. pass \in R => PassClosed(q, pass)
    BY <1>13, <1>85 DEF NoNode
  <2>. QED
    BY <1>0, <1>1, <1>3, <1>4, <1>9, <1>10, <1>11, <1>14, <1>15, <2>1, LaterSettled
<1>17. IsSeq(B) /\ B # <<>> /\ Last(B) = n
  <2>1. CASE pass = NoNode
    <3>. HIDE DEF A
    <3>1. B = Append(A, n) /\ IsSeq(A)
      BY <1>1, <1>7, <2>1
    <3>. QED
      BY <3>1, AppendFront
  <2>2. CASE pass # NoNode
    <3>1. IsSeq(Front(A)) /\ Front(A) # <<>>
      BY <1>7, <1>8, <2>2, NonEmptySeq, FrontSeq
    <3>2. IsSeq(Front(Front(A)))
      BY <3>1, NonEmptySeq, FrontSeq
    <3>. DEFINE F == Front(Front(A))
    <3>. HIDE DEF F
    <3>3. B = Append(F, n) /\ IsSeq(F)
      BY <1>1, <2>2, <3>2 DEF F
    <3>. QED
      BY <3>3, AppendFront
  <2>. QED
    BY <2>1, <2>2
<1>18. EventOpen(d)
  BY <1>0, <1>1, <1>2, <1>17, <1>25, NextOpen
<1>19. PassOpen(d)
  <2>1. e # NoNode /\ e \in Of(q, "RenderMarker") /\ e > from
    BY <1>3, <1>4, <1>5 DEF NoNode
  <2>2. \A k \in Of(q, "RenderMarker") : k <= e
    BY <1>3, <1>4, <1>85
  <2>. QED
    BY <1>1, <1>5, <1>17, <2>1, <2>2 DEF PassOpen
<1>. QED
  BY <1>1, <1>3, <1>16, <1>18, <1>19 DEF Sectioned

-----------------------------------------------------------------------------
(* Every step keeps the sections.  That a submit is open is needed for a marker:
   a pass that an earlier submit left open is told by the submit after it. *)

SubmitOpen(c) == c.submitNode \in Of(c.nodes, "Submit")

SectionState(c) == Sectioned(c) /\ LastPacket(c) /\ TrackerOk(c.tracker)

SectionInv ==
    SectionState(creator) /\ (SubmitOpen(creator) \/ emu.pc \in {"submit", "done"})

LEMMA SubmitOpenKept ==
    ASSUME NEW c, Good(c), SubmitOpen(c), NEW d, Good(d), Extends(c.nodes, d.nodes),
           d.submitNode = c.submitNode
    PROVE  SubmitOpen(d)
<1>. DEFINE N == Len(c.nodes)
            D == Len(d.nodes)
            x == c.submitNode
<1>1. N \in Nat /\ D \in Nat /\ N <= D /\ x \in 1 .. N
  BY GoodNodes DEF Extends, SubmitOpen, Of
<1>2. d.nodes[x].type = c.nodes[x].type /\ c.nodes[x].type = "Submit"
  BY <1>1 DEF Extends, SubmitOpen, Of
<1>. HIDE DEF N, D
<1>3. x \in 1 .. D
  BY <1>1
<1>. QED
  BY <1>2, <1>3 DEF SubmitOpen, Of, D

LEMMA HandledSectioned ==
    ASSUME NEW c, Good(c), NEW p, NEW n, Fresh(c, n), NEW d, Handled(c, p, n, d),
           Sectioned(c), SubmitOpen(c)
    PROVE  /\ Good(d) /\ Sectioned(d) /\ SubmitOpen(d)
           /\ Of(d.nodes, "Packet") = Of(c.nodes, "Packet")
<1>0. Good(d) /\ c.submitNode \in Of(c.nodes, "Submit")
  BY DEF Handled, SubmitOpen
<1>1. CASE EventAdded(c, n, d, Len(d.nodes))
  <2>1. /\ Sectioned(d) /\ d.submitNode = c.submitNode
        /\ Of(d.nodes, "Packet") = Of(c.nodes, "Packet")
    BY <1>0, <1>1, EventSectioned
  <2>2. Extends(c.nodes, d.nodes)
    BY <1>1 DEF EventAdded
  <2>. QED
    BY <1>0, <2>1, <2>2, SubmitOpenKept
<1>2. CASE MarkerAdded(c, n, d, Len(d.nodes))
  <2>1. /\ Sectioned(d) /\ d.submitNode = c.submitNode
        /\ Of(d.nodes, "Packet") = Of(c.nodes, "Packet")
    BY <1>0, <1>2, MarkerSectioned
  <2>2. Extends(c.nodes, d.nodes)
    BY <1>2 DEF MarkerAdded
  <2>. QED
    BY <1>0, <2>1, <2>2, SubmitOpenKept
<1>3. CASE OnlyNoted(c, n, d)
  <2>1. Sectioned(d) /\ d.submitNode = c.submitNode
    BY <1>0, <1>3, NotedSectioned
  <2>2. d.nodes = c.nodes
    BY <1>3 DEF OnlyNoted
  <2>. QED
    BY <1>0, <2>1, <2>2 DEF SubmitOpen
<1>. QED
  BY <1>1, <1>2, <1>3 DEF Handled

LEMMA PacketSectioned ==
    ASSUME NEW c, Good(c), NEW p, NEW insts, NEW d, NEW n, PacketSteps(c, p, insts, d, n),
           Sectioned(c), LastPacket(c), SubmitOpen(c)
    PROVE  Sectioned(d) /\ LastPacket(d) /\ SubmitOpen(d)
<1>1. PICK b, h : /\ PacketReady(c, p, insts, b, n) /\ Handled(b, p, n, h)
                  /\ PacketAttached(h, n, d)
  BY DEF PacketSteps
<1>2. Good(b) /\ Sectioned(b) /\ Fresh(b, n)
  BY <1>1, ReadySectioned, ZenonT(60) DEF PacketReady
<1>3. SubmitOpen(b)
  <2>1. "Submit" \in Topologies
    BY DEF Topologies
  <2>2. Extends(c.nodes, b.nodes) /\ b.submitNode = c.submitNode
    BY <1>1, <2>1 DEF PacketReady, NewPacket, Kept
  <2>. QED
    BY <1>2, <2>2, SubmitOpenKept
<1>4. /\ Good(h) /\ Sectioned(h) /\ SubmitOpen(h)
      /\ Of(h.nodes, "Packet") = Of(b.nodes, "Packet")
  BY <1>1, <1>2, <1>3, HandledSectioned
<1>5. n \in Of(h.nodes, "Packet") /\ \A q \in Of(h.nodes, "Packet") : q <= n
  <2>. DEFINE P == Of(b.nodes, "Packet")
              l == b.lastAdded
  <2>1. n \in P /\ l \in 1 .. Len(b.nodes) /\ l < n /\ \A q \in P : q = n \/ q <= l
    BY <1>2 DEF Fresh
  <2>2. \A q \in P : q \in Nat
    BY DEF Of
  <2>. HIDE DEF P, l
  <2>3. \A q \in P : q <= n
    BY <2>1, <2>2
  <2>. QED
    BY <1>4, <2>1, <2>3 DEF P
<1>6. Sectioned(d) /\ LastPacket(d) /\ d.submitNode = h.submitNode
  BY <1>1, <1>4, <1>5, AttachedSectioned
<1>7. Good(d) /\ Extends(h.nodes, d.nodes)
  BY <1>1 DEF PacketAttached, Kept
<1>. QED
  BY <1>4, <1>6, <1>7, SubmitOpenKept

LEMMA TrackerKept ==
    ASSUME NEW tr, TrackerOk(tr)
    PROVE  /\ \A mask : TrackerOk(PushEnableMask(tr, mask))
           /\ TrackerOk(PopEnableMask(tr))
           /\ \A p, n : TrackerOk(TrackPacket(tr, p, n))
BY DEF TrackerOk, PushEnableMask, PopEnableMask, TrackPacket, SetReg

LEMMA QuietState ==
    ASSUME NEW c, Good(c), NEW d, NEW T, T \subseteq QuietTypes, Builds(c, d, T, "AllEvent"),
           SectionState(c), TrackerOk(d.tracker)
    PROVE  SectionState(d) /\ (SubmitOpen(c) => SubmitOpen(d))
<1>1. Sectioned(d) /\ LastPacket(d)
  BY QuietSectioned DEF SectionState
<1>2. Good(d) /\ Extends(c.nodes, d.nodes) /\ d.submitNode = c.submitNode
  BY DEF Builds, Kept, SameFields, RangeFields
<1>. QED
  BY <1>1, <1>2, SubmitOpenKept DEF SectionState

LEMMA InitSection == ASSUME Init PROVE SectionInv
<1>. DEFINE c == creator
            r == Node("Root", [id |-> 0])
<1>1. emu.pc = "submit" /\ c = NewCreator
  BY DEF Init, EmuInit
<1>2. r.type = "Root"
  BY DEF Node
<1>3. /\ c.nodes = <<r>> /\ c.tracker = NewTracker /\ c.newEvent = TRUE
      /\ c.startStack["AllEvent"] = <<>> /\ c.lastAdded = 1 /\ c.submitNode = 1
      /\ c.renderMarker = NoNode /\ c.startBin = NoNode /\ c.drawTable = NoNode
  BY <1>1 DEF NewCreator, Topologies, kRootNodeIndex
<1>. HIDE DEF r, c
<1>4. Len(c.nodes) = 1 /\ c.nodes[1] = r
  BY <1>3
<1>5. \A n \in 1 .. 1 : n = 1
  OBVIOUS
<1>6. /\ Of(c.nodes, "Packet") = {} /\ Of(c.nodes, "Event") = {}
      /\ Of(c.nodes, "RenderMarker") = {} /\ Of(c.nodes, "Submit") = {}
  BY <1>2, <1>4, <1>5 DEF Of
<1>7. Sections(c.nodes) = {}
  BY <1>6 DEF Sections
<1>8. Settled(c)
  BY <1>2, <1>3, <1>4, <1>6, <1>7
     DEF Settled, Anchored, SubmitLast, SectionsKnown, PassesSettled, EventsBelow
<1>9. EventOpen(c)
  <2>1. IsSeq(c.startStack["AllEvent"])
    BY <1>3, EmptySequence
  <2>2. 1 \in 1 .. 1 /\ 1 <= 1
    OBVIOUS
  <2>. QED
    BY <1>3, <1>4, <1>6, <1>7, <2>1, <2>2 DEF EventOpen
<1>10. PassOpen(c)
  BY <1>3, <1>6 DEF PassOpen
<1>11. LastPacket(c) /\ TrackerOk(c.tracker)
  BY <1>3, <1>4, <1>6 DEF LastPacket, TrackerOk, NewTracker
<1>. QED
  BY <1>1, <1>8, <1>9, <1>10, <1>11 DEF SectionInv, SectionState, Sectioned, c

LEMMA StartSubmitSection == ASSUME HierarchyInv, SectionInv, StartSubmit PROVE SectionInv'
<1>. DEFINE c == creator
            d == creator'
            submit == emu.submit
<1>1. Good(c) /\ d = OnSubmitStart(c, submit)
  BY DEF HierarchyInv, StartSubmit
<1>2. SectionState(c)
  BY DEF SectionInv
<1>. HIDE DEF c, d, submit
<1>3. SubmitBegun(c, d, Len(d.nodes))
  BY <1>1, <1>2, OnSubmitStartBuilds DEF SectionState
<1>4. Sectioned(d) /\ LastPacket(d) /\ TrackerOk(d.tracker)
  BY <1>1, <1>2, <1>3, BeginSectioned DEF SectionState, SubmitBegun
<1>5. SubmitOpen(d)
  <2>. DEFINE n == Len(d.nodes)
              N == Len(c.nodes)
  <2>1. n = N + 1 /\ N \in Nat /\ d.submitNode = n /\ d.nodes[n].type = "Submit"
    BY <1>3 DEF SubmitBegun
  <2>. HIDE DEF n, N
  <2>2. n \in 1 .. n
    BY <2>1
  <2>. QED
    BY <2>1, <2>2 DEF SubmitOpen, Of, n
<1>. QED
  BY <1>4, <1>5 DEF SectionInv, SectionState, d

LEMMA EmulatePacketSection == ASSUME HierarchyInv, SectionInv, EmulatePacket PROVE SectionInv'
<1>. DEFINE p == CurPacket
            c == creator
            d == creator'
            insts == Insts(emu.stack)
            n == Len(c.nodes) + 1
<1>1. emu.pc = "packet"
  BY DEF EmulatePacket, Packet
<1>2. p.op = "drawState" => IsSeq(p.groups)
  BY <1>1, PacketInCapture DEF HierarchyInv
<1>3. Good(c) /\ d = OnPacket(c, p, insts)
  BY DEF EmulatePacket, HierarchyInv
<1>4. SectionState(c) /\ SubmitOpen(c)
  BY <1>1 DEF SectionInv
<1>. HIDE DEF p, c, d, insts
<1>5. SectionState(d) /\ SubmitOpen(d)
  <2>1. CASE p.op = "type2"
    BY <1>3, <1>4, <2>1 DEF OnPacket
  <2>2. CASE p.op # "type2"
    <3>1. PacketAdded(c, p, insts, d, n) /\ PacketSteps(c, p, insts, d, n)
      BY <1>2, <1>3, <2>2, OnPacketBuilds
    <3>. HIDE DEF n
    <3>2. Sectioned(d) /\ LastPacket(d) /\ SubmitOpen(d)
      BY <1>3, <1>4, <3>1, PacketSectioned DEF SectionState
    <3>3. TrackerOk(d.tracker)
      BY <1>4, <3>1, TrackerKept DEF SectionState, PacketAdded
    <3>. QED
      BY <3>2, <3>3 DEF SectionState
  <2>. QED
    BY <2>1, <2>2
<1>. QED
  BY <1>5 DEF SectionInv, d

LEMMA IbStartState ==
    ASSUME NEW c, Good(c), SectionState(c), NEW level, NEW cur, cur.type # "Chain", NEW ibIndex,
           NEW d, d = OnIbStart(c, level, cur, ibIndex)
    PROVE  SectionState(d) /\ (SubmitOpen(c) => SubmitOpen(d))
<1>. DEFINE T == {"Field", "Ib"}
<1>1. T \subseteq QuietTypes
  BY DEF QuietTypes
<1>2. Anchored(c)
  BY DEF SectionState, Sectioned, Settled
<1>3. IbEntered(c, cur, d, Len(d.nodes)) /\ Builds(c, d, T, "AllEvent")
  BY <1>2, OnIbStartBuilds
<1>4. TrackerOk(d.tracker)
  BY <1>3, TrackerKept, ZenonT(60) DEF SectionState, IbEntered
<1>. HIDE DEF T
<1>. QED
  BY <1>1, <1>3, <1>4, QuietState

LEMMA CallIbSection == ASSUME HierarchyInv, SectionInv, CallIb PROVE SectionInv'
<1>. DEFINE cur   == Top(emu'.stack)
            index == emu'.ibIndex
            level == Len(emu.stack)
            c     == creator
            d     == creator'
<1>1. LevelOk(cur)
  BY EnterIbEmu DEF HierarchyInv, CallIb
<1>2. emu.pc = "enter" /\ Good(c) /\ d = OnIbStart(c, level, cur, index)
  BY DEF CallIb, EnterIb, HierarchyInv
<1>3. cur.type # "Chain"
  BY <1>1 DEF LevelOk
<1>4. SectionState(c) /\ SubmitOpen(c)
  BY <1>2 DEF SectionInv
<1>. HIDE DEF c, d, cur, index, level
<1>5. SectionState(d) /\ SubmitOpen(d)
  BY <1>2, <1>3, <1>4, IbStartState
<1>. QED
  BY <1>5 DEF SectionInv, d

LEMMA FollowChainSection == ASSUME HierarchyInv, SectionInv, FollowChain PROVE SectionInv'
<1>. DEFINE cur   == Top(emu'.stack)
            index == emu.ibIndex
            level == Len(emu.stack) - 1
            c     == creator
            d     == creator'
<1>1. cur.type # "Chain"
  BY ChainIbEmu DEF HierarchyInv, FollowChain
<1>2. emu.pc = "enter" /\ Good(c) /\ d = OnIbStart(c, level, cur, index)
  BY DEF FollowChain, ChainIb, HierarchyInv
<1>3. SectionState(c) /\ SubmitOpen(c)
  BY <1>2 DEF SectionInv
<1>. HIDE DEF c, d, cur, index, level
<1>4. SectionState(d) /\ SubmitOpen(d)
  BY <1>1, <1>2, <1>3, IbStartState
<1>. QED
  BY <1>4 DEF SectionInv, d

LEMMA ReturnFromIbSection == ASSUME HierarchyInv, SectionInv, ReturnFromIb PROVE SectionInv'
<1>. DEFINE level == Len(emu.stack) - 2
            c     == creator
            d     == creator'
            T     == {}
<1>1. emu.pc \notin {"submit", "done"} /\ d = OnIbEnd(c, level)
  BY DEF ReturnFromIb, LeaveIb
<1>2. Len(emu.stack) # 1 /\ Len(emu.stack) \in Nat
  BY LeaveIbEmu, TopOfStack DEF HierarchyInv, ReturnFromIb, EmuInv
<1>3. /\ Ibs \in Nat /\ Levels \in Nat /\ (AtRing <=> Levels = 0)
      /\ Ibs # 0 => creator.ibStack # <<>>
      /\ Levels <= Ibs
  BY Lengths DEF HierarchyInv, Heights
<1>4. Ibs # 0
  <2>1. Levels # 0
    BY <1>2, <1>3 DEF AtRing
  <2>. HIDE DEF Ibs, Levels
  <2>. QED
    BY <1>3, <2>1
<1>5. /\ Good(c) /\ c.ibStack # <<>> /\ c.newIb \in BOOLEAN
      /\ c.newIb = FALSE => Len(c.startStack["Submit"]) = Len(c.ibStack)
  BY <1>3, <1>4 DEF HierarchyInv, Heights, Ibs, Starts
<1>6. SectionState(c) /\ SubmitOpen(c)
  BY <1>1 DEF SectionInv
<1>. HIDE DEF c, d, level
<1>7. IbClosed(c, d) /\ Builds(c, d, T, "AllEvent")
  BY <1>1, <1>5, OnIbEndBuilds
<1>8. TrackerOk(d.tracker)
  BY <1>6, <1>7, TrackerKept DEF SectionState, IbClosed
<1>9. T \subseteq QuietTypes
  OBVIOUS
<1>. HIDE DEF T
<1>10. SectionState(d) /\ SubmitOpen(d)
  BY <1>5, <1>6, <1>7, <1>8, <1>9, QuietState
<1>. QED
  BY <1>10 DEF SectionInv, d

LEMMA EndSubmitSection == ASSUME HierarchyInv, SectionInv, EndSubmit PROVE SectionInv'
<1>. DEFINE c        == creator
            d        == creator'
            submit   == emu.submit
            presents == capture.presents
            T        == {"Present"}
<1>1. emu.pc = "end"
  BY DEF EndSubmit, SubmitEnd
<1>2. PICK ibs \in SortedIbs(creator) : d = OnSubmitEnd(c, submit, presents, ibs)
  BY DEF EndSubmit
<1>3. Good(c) /\ IsSeq(presents)
  BY CapturesAssumption DEF HierarchyInv, EmuInv
<1>4. SectionState(c) /\ SubmitOpen(c)
  BY <1>1 DEF SectionInv
<1>5. Anchored(c)
  BY <1>4 DEF SectionState, Sectioned, Settled
<1>. HIDE DEF d, submit, presents
<1>6. Builds(c, d, T, "Submit") /\ Builds(c, d, T, "AllEvent")
  BY <1>2, <1>3, <1>5, OnSubmitEndBuilds
<1>7. T \subseteq QuietTypes
  BY DEF QuietTypes
<1>. HIDE DEF c, T
<1>8. TrackerOk(d.tracker)
  BY <1>4, <1>6 DEF SectionState, Builds, SameFields, RangeFields
<1>9. SectionState(d) /\ SubmitOpen(d)
  BY <1>3, <1>4, <1>6, <1>7, <1>8, QuietState
<1>. QED
  BY <1>9 DEF SectionInv, d

LEMMA OtherSection == ASSUME HierarchyInv, SectionInv, Internal PROVE SectionInv'
<1>1. /\ creator' = creator
      /\ emu.pc \in {"submit", "done"} => emu'.pc \in {"submit", "done"}
  BY DEF Internal, BadPacket, NothingQueued, MisplacedChain, StayInIb, AllSubmitsDone,
         HierarchyInv, EmuInv, EmuFields
<1>. QED
  BY <1>1 DEF SectionInv

LEMMA StutterSection == ASSUME SectionInv, UNCHANGED vars PROVE SectionInv'
BY DEF SectionInv, vars, emuVars

(* Every step of the emulator keeps the ranges of the events and the passes: in
   OnPacket a draw or a dispatch closes the event that its packet ends, a render
   marker the pass before it, OnSubmitStart gives up the pass that is open, and
   the other callbacks leave the starts and the ends of both alone. *)
THEOREM SectionInvariance == Spec => []SectionInv
<1>1. Init => SectionInv
  BY InitSection
<1>2. HierarchyInv /\ SectionInv /\ [Next]_vars => SectionInv'
  <2>. SUFFICES ASSUME HierarchyInv, SectionInv, [Next]_vars PROVE SectionInv'
    OBVIOUS
  <2>1. CASE StartSubmit
    BY <2>1, StartSubmitSection
  <2>2. CASE EmulatePacket
    BY <2>2, EmulatePacketSection
  <2>3. CASE CallIb
    BY <2>3, CallIbSection
  <2>4. CASE FollowChain
    BY <2>4, FollowChainSection
  <2>5. CASE ReturnFromIb
    BY <2>5, ReturnFromIbSection
  <2>6. CASE EndSubmit
    BY <2>6, EndSubmitSection
  <2>7. CASE Internal
    BY <2>7, OtherSection
  <2>8. CASE Returned
    BY <2>8, StutterSection DEF Returned
  <2>9. CASE UNCHANGED vars
    BY <2>9, StutterSection
  <2>. QED
    BY <2>1, <2>2, <2>3, <2>4, <2>5, <2>6, <2>7, <2>8, <2>9 DEF Next
<1>. QED
  BY <1>1, <1>2, Invariance, PTL DEF Spec

LEMMA MinIs ==
    ASSUME NEW S, S \subseteq Nat, NEW x \in S, \A y \in S : x <= y
    PROVE  Min(S) = x
<1>1. Min(S) \in S /\ \A y \in S : Min(S) <= y
  BY DEF Min
<1>. DEFINE m == Min(S)
<1>2. m \in Nat /\ x \in Nat /\ m <= x /\ x <= m
  BY <1>1
<1>. HIDE DEF m
<1>3. m = x
  BY <1>2
<1>. QED
  BY <1>3 DEF m

(* The packets of the range of an event, and where it begins. *)
LEMMA EventIs ==
    ASSUME Good(creator), Settled(creator), NEW e \in NodesOf("Event")
    PROVE  /\ PacketsIn(e, "AllEvent") =
                  {n \in NodesOf("Packet") : Boundary(e) < n /\ n <= Aux(e).packet}
           /\ Boundary(e) \in Nat
           /\ \A m \in Sections(creator.nodes) :
                  Aux(m).packet < Aux(e).packet => Aux(m).packet <= Boundary(e)
<1>. DEFINE s == creator.nodes
            P == Of(s, "Packet")
            S == Sections(s)
            x == s[e].aux.packet
            r == s[e].root["AllEvent"]
            before == {Aux(m).packet : m \in NodesOf("Event") \cup NodesOf("RenderMarker")}
            B == {m \in before : m < x} \cup {r}
<1>1. /\ NodesOf("Packet") = P /\ NodesOf("Event") \cup NodesOf("RenderMarker") = S
      /\ e \in Of(s, "Event")
  BY NodesAre DEF Sections
<1>2. EventExact(s, e) /\ SectionsKnown(s)
  BY <1>1 DEF Settled
<1>3. PICK b \in 1 .. Len(s) :
          /\ EventBound(s, e, b)
          /\ \A q \in P : q \in s[e].start["AllEvent"] .. s[e].end["AllEvent"] <=> b < q /\ q <= x
  BY <1>2 DEF EventExact
<1>4. /\ b = r \/ \E m \in S : s[m].aux.packet = b /\ b < x
      /\ r <= b
      /\ \A m \in S : s[m].aux.packet < x => s[m].aux.packet <= b
  BY <1>3 DEF EventBound
<1>5. r \in Nat /\ b \in Nat /\ \A q \in P : q \in Nat
  BY <1>2, <1>3 DEF EventExact, Of
<1>6. before = {s[m].aux.packet : m \in S} /\ \A m \in S : s[m].aux.packet \in P
  BY <1>1, <1>2 DEF SectionsKnown, Aux
<1>. HIDE DEF before, S, P, x, r
<1>7. B \subseteq Nat
  BY <1>5, <1>6
<1>8. b \in B
  BY <1>4, <1>6
<1>9. \A y \in B : y <= b
  BY <1>4, <1>6
<1>10. Boundary(e) = Max(B)
  BY DEF Boundary, before, x, r, Aux
<1>. HIDE DEF B
<1>11. Boundary(e) = b
  BY <1>7, <1>8, <1>9, <1>10, MaxIs
<1>12. PacketsIn(e, "AllEvent") = {n \in P : b < n /\ n <= x}
  BY <1>1, <1>3 DEF PacketsIn, SharedRange
<1>. QED
  BY <1>1, <1>4, <1>5, <1>11, <1>12 DEF Aux, x, S

(* A pass that has been closed in the submit it was opened in. *)
LEMMA ClosedIs ==
    ASSUME Good(creator), Sectioned(creator), NEW m \in ClosedPasses
    PROVE  m \in Of(creator.nodes, "RenderMarker") /\ PassClosed(creator.nodes, m)
<1>. DEFINE s == creator.nodes
            R == Of(s, "RenderMarker")
            X == Of(s, "Submit")
<1>1. PICK k \in R : k > m /\ Max({y \in X : y < k}) < m
  BY NodesAre DEF ClosedPasses
<1>2. m \in R /\ (\A j \in R : j \in Nat) /\ (\A y \in X : y \in Nat)
  BY NodesAre DEF ClosedPasses, Of
<1>3. /\ SubmitBefore(s, k)
      /\ m = creator.renderMarker \/ PassClosed(s, m) \/ PassLeft(s, creator.submitNode, m)
  BY <1>1, <1>2 DEF Sectioned, Settled, PassesSettled
<1>4. m # creator.renderMarker
  <2>1. m # NoNode
    BY <1>2 DEF NoNode, Of
  <2>2. m = creator.renderMarker => \A j \in R : j <= m
    BY <2>1 DEF Sectioned, PassOpen
  <2>. HIDE DEF R
  <2>. QED
    BY <1>1, <1>2, <2>2
<1>5. ~PassLeft(s, creator.submitNode, m)
  <2>. SUFFICES ASSUME PassLeft(s, creator.submitNode, m) PROVE FALSE
    OBVIOUS
  <2>1. PICK y \in X : m < y /\ y < k
    BY <1>1 DEF PassLeft
  <2>2. PICK z \in X : z < k /\ \A v \in X : v < k => v <= z
    BY <1>3 DEF SubmitBefore
  <2>. HIDE DEF X, R
  <2>. DEFINE V == {v \in X : v < k}
  <2>3. V \subseteq Nat /\ z \in V /\ \A v \in V : v <= z
    BY <1>2, <2>2
  <2>4. Max(V) < m
    BY <1>1
  <2>. HIDE DEF V
  <2>5. Max(V) = z
    BY <2>3, MaxIs
  <2>6. y <= z /\ z < m /\ m < y
    BY <2>1, <2>2, <2>4, <2>5
  <2>. QED
    BY <1>2, <2>1, <2>2, <2>6
<1>. QED
  BY <1>2, <1>3, <1>4, <1>5

LEMMA PassIs ==
    ASSUME Good(creator), Sectioned(creator), NEW m \in ClosedPasses, NEW next,
           next = Min({k \in NodesOf("RenderMarker") : k > m})
    PROVE  /\ PacketsIn(m, "AllEvent") =
                  {n \in NodesOf("Packet") : Aux(m).packet <= n /\ n < Aux(next).packet}
           /\ \A e \in Range(creator.nodes[m].kids["AllEvent"]) :
                  PacketsIn(e, "AllEvent") \subseteq PacketsIn(m, "AllEvent")
<1>. DEFINE s == creator.nodes
            R == Of(s, "RenderMarker")
            P == Of(s, "Packet")
            x == s[m].aux.packet
<1>1. m \in R /\ PassClosed(s, m)
  BY ClosedIs
<1>2. PICK k \in R :
          /\ k > m
          /\ \A j \in R : j > m => j >= k
          /\ \A q \in P : q \in s[m].start["AllEvent"] .. s[m].end["AllEvent"]
                              <=> x <= q /\ q < s[k].aux.packet
  BY <1>1 DEF PassClosed
<1>3. NodesOf("RenderMarker") = R /\ NodesOf("Packet") = P
  BY NodesAre
<1>4. (\A j \in R : j \in Nat) /\ (\A q \in P : q \in Nat)
  BY DEF Of
<1>5. next = k
  <2>. DEFINE K == {j \in R : j > m}
  <2>. HIDE DEF R
  <2>1. K \subseteq Nat /\ k \in K /\ \A j \in K : k <= j
    BY <1>2, <1>4
  <2>2. next = Min(K)
    BY <1>3
  <2>. HIDE DEF K
  <2>. QED
    BY <2>1, <2>2, MinIs
<1>. DEFINE y == s[k].aux.packet
<1>6. PacketsIn(m, "AllEvent") = {n \in P : x <= n /\ n < y}
  <2>. HIDE DEF P, x
  <2>. QED
    BY <1>2, <1>3 DEF PacketsIn, SharedRange
<1>7. x \in P /\ y \in P /\ m \in Sections(s)
  BY <1>1, <1>2 DEF Sectioned, Settled, SectionsKnown, Sections
<1>8. ASSUME NEW e \in Range(s[m].kids["AllEvent"])
      PROVE  PacketsIn(e, "AllEvent") \subseteq PacketsIn(m, "AllEvent")
  <2>. DEFINE z == s[e].aux.packet
              b == Boundary(e)
  <2>1. e \in Of(s, "Event") /\ x < z /\ z < y
    BY <1>1, <1>2 DEF Sectioned, Settled, EventsBelow
  <2>2. e \in NodesOf("Event") /\ z \in P
    BY <2>1, NodesAre DEF Sectioned, Settled, SectionsKnown, Sections
  <2>3. /\ PacketsIn(e, "AllEvent") = {n \in P : b < n /\ n <= z}
        /\ b \in Nat /\ x <= b
    BY <1>3, <1>7, <2>1, <2>2, EventIs DEF Sectioned, Aux
  <2>. HIDE DEF P, x, y, z, b
  <2>4. \A n \in P : b < n /\ n <= z => x <= n /\ n < y
    BY <1>4, <1>7, <2>1, <2>2, <2>3
  <2>. QED
    BY <1>6, <2>3, <2>4
<1>. QED
  BY <1>3, <1>5, <1>6, <1>8 DEF Aux

(* EventRangesExact of every behaviour: the range that AddEvent gives an event in the
   topology of all events holds what was emulated in its submit since the event or the
   pass before it and nothing else, and the range that CloseRenderMarker gives a pass
   ends before the next one's marker and holds every event below the pass. *)
THEOREM EventRangesExactHolds == Spec => []EventRangesExact
<1>1. HierarchyInv /\ SectionInv => EventRangesExact
  <2>. SUFFICES ASSUME HierarchyInv, SectionInv PROVE EventRangesExact
    OBVIOUS
  <2>1. Good(creator) /\ Sectioned(creator) /\ Settled(creator)
    BY DEF HierarchyInv, SectionInv, SectionState, Sectioned
  <2>2. \A e \in NodesOf("Event") :
            PacketsIn(e, "AllEvent") =
                {n \in NodesOf("Packet") : Boundary(e) < n /\ n <= Aux(e).packet}
    BY <2>1, EventIs
  <2>3. \A m \in ClosedPasses : \A next :
            next = Min({k \in NodesOf("RenderMarker") : k > m}) =>
              /\ PacketsIn(m, "AllEvent") =
                    {n \in NodesOf("Packet") : Aux(m).packet <= n /\ n < Aux(next).packet}
              /\ \A e \in Range(creator.nodes[m].kids["AllEvent"]) :
                    PacketsIn(e, "AllEvent") \subseteq PacketsIn(m, "AllEvent")
    BY <2>1, PassIs
  <2>. QED
    BY <2>2, <2>3 DEF EventRangesExact
<1>. QED
  BY <1>1, Invariance, SectionInvariance, PTL
=============================================================================
