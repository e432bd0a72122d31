----------------------------- MODULE EmulatePM4 -----------------------------
(***************************************************************************)
(* The emulator of dive_core/common/emulate_pm4.cpp: it walks the command  *)
(* buffers of every submit of a capture in the order in which the GPU      *)
(* would, following calls, chains, draw-state groups, bins and draw        *)
(* tables, and reports each packet and each entry to and exit from an      *)
(* indirect buffer (IB) to its callbacks.                                  *)
(*                                                                         *)
(* An address is a place [buf, at] and a packet occupies one place; an IB  *)
(* is a segment [buf, at, size].  A buffer is a contiguous range of the    *)
(* memory in the capture.  The code is sequential: a step of the model     *)
(* ends where the code calls one of its callbacks, and emu.pc says where   *)
(* it is between two of them.  It does not go on where the code asserts.   *)
(***************************************************************************)
EXTENDS Integers, Sequences, FiniteSets, SequencesExt

CONSTANTS Captures,         \* the captures an emulation may be given
          kTotalIbLevels,   \* the primary ring, IB1 ... IB4
          kMaxPendingIbs    \* the length of a level's queue

ASSUME LevelsAssumption == kTotalIbLevels \in Nat \ {0, 1}
ASSUME PendingAssumption == kMaxPendingIbs \in Nat \ {0}

IsSeq(s) == s \in Seq(Range(s))

(* A submit has a sequence of IBs, a buffer is one of packets; a draw state has a
   sequence of groups, and bins and the entries of a draw table are counted. *)
PacketOk(p) ==
    /\ p.op = "drawState" => IsSeq(p.groups)
    /\ p.op \in {"startBin", "drawTable"} => p.count \in Nat

ASSUME CapturesAssumption ==
    \A c \in Captures :
        /\ IsSeq(c.presents) /\ IsSeq(c.submits)
        /\ \A i \in DOMAIN c.submits : IsSeq(c.submits[i].ibs)
        /\ \A b \in DOMAIN c.mem :
              IsSeq(c.mem[b]) /\ \A i \in DOMAIN c.mem[b] : PacketOk(c.mem[b][i])

VARIABLES capture,   \* the capture: memory, what of it is lost, submits, presents
          emu,       \* EmulateState, and the loop of ProcessSubmits around it
          trace      \* history: the packets emulated so far, by address

emuVars == <<capture, emu, trace>>

(* The passes a draw-state group is enabled for, and the default mask. *)
Passes  == {"BINNING", "GMEM", "SYSMEM"}
AllMask == Passes

IbTypes == {"Normal", "Call", "Chain", "ContextSwitch", "DrawState",
            "BinPrefix", "BinCommon", "FixedStrideDrawTable"}

(* An entry of a level's queue of pending IBs. *)
Pending(ib, skip, type, mask) == [ib |-> ib, skip |-> skip, type |-> type, mask |-> mask]

(* A level that has just been entered; inst numbers the entries (history). *)
Level(p, skip, inst) ==
    [va |-> p.ib.at, ib |-> p.ib, skip |-> skip, mask |-> p.mask, type |-> p.type,
     queue |-> <<>>, next |-> 1, inst |-> inst]

(* The primary ring never executes packets: only its queue matters. *)
NoIb   == [buf |-> 0, at |-> 0, size |-> 0]
Ring   == [va |-> -1, ib |-> NoIb, skip |-> FALSE, mask |-> AllMask, type |-> "Normal",
           queue |-> <<>>, next |-> 1, inst |-> 0]

Top(stack)   == stack[Len(stack)]
AtRing       == Len(emu.stack) = 1
CurIb        == Top(emu.stack)
PacketAt(ib, va) == capture.mem[ib.buf][va]
CurPacket    == PacketAt(CurIb.ib, CurIb.va)

(* EmulateState::IbStack::EndOfCurIb *)
EndOfCurIb(level) == level.skip \/ level.va >= level.ib.at + level.ib.size

(* QueueIB, for a list of IBs: only the non-empty ones are queued, and the
   emulation fails when the queue of the level is full. *)
NonEmpty(pending) ==
    FoldLeft(LAMBDA queue, p : IF p.ib.size = 0 THEN queue ELSE Append(queue, p), <<>>, pending)
QueueHasRoom(queue, add) == Len(queue) + Len(NonEmpty(add)) <= kMaxPendingIbs
QueueIB(level, add)      == [level EXCEPT !.queue = @ \o NonEmpty(add)]

(* m_ib_queue_index = m_ib_queue_size = 0, then QueueIB. *)
RestartQueue(level) == [level EXCEPT !.queue = <<>>, !.next = 1]

AdvancePacket(level) == [level EXCEPT !.va = @ + 1]

(* Mutant: only the first packet of the IB is looked up. *)
IsValid_FirstPacket(ib) ==
    /\ ib.buf \in DOMAIN capture.mem \ capture.lost
    /\ ib.at \in DOMAIN capture.mem[ib.buf]

(* mem_manager.IsValid: an IB that was reset, or that runs on past what was
   captured, is not. *)
IsValid(ib) ==
    /\ ib.buf \in DOMAIN capture.mem \ capture.lost
    /\ ib.at \in DOMAIN capture.mem[ib.buf]
    /\ ib.size \in 1 .. Len(capture.mem[ib.buf]) - ib.at + 1

-----------------------------------------------------------------------------
(* AdvanceCb, up to its call of AdvanceToQueuedIB: what a packet queues.   *)

IsIbPacket(p) == p.op \in {"call", "chain"}

PendingOfIb(p) ==
    << Pending(p.ib, FALSE, IF p.op = "chain" THEN "Chain" ELSE "Call", AllMask) >>

PendingOfAmble(p) == << Pending(p.ib, FALSE, "ContextSwitch", AllMask) >>

(* The groups up to the first that disables all, without the disabled ones. *)
LiveGroups(groups) ==
    LET last == IF \E i \in DOMAIN groups : groups[i].disableAll
                THEN (CHOOSE i \in DOMAIN groups :
                        /\ groups[i].disableAll
                        /\ \A j \in 1 .. i - 1 : ~groups[j].disableAll) - 1
                ELSE Len(groups)
    IN  FoldLeft(LAMBDA live, g : IF g.disable THEN live ELSE Append(live, g), <<>>,
                 SubSeq(groups, 1, last))

PendingOfDrawState(p) ==
    LET live == LiveGroups(p.groups)
    IN  [i \in DOMAIN live |-> Pending(live[i].ib, FALSE, "DrawState", live[i].mask)]

(* The place of the CP_END_BIN that closes the CP_START_BIN at va, in the same
   IB: the code asserts that there is one. *)
EndBins(ib, va) ==
    {e \in va + 1 .. ib.at + ib.size - 1 :
        /\ PacketAt(ib, e).op = "endBin"
        /\ \A k \in va + 1 .. e - 1 : PacketAt(ib, k).op # "endBin"}
EndBin(ib, va) == CHOOSE e \in EndBins(ib, va) : TRUE

(* Prefix and common block alternate, once per bin. *)
PendingOfBins(p, level) ==
    LET common == [buf |-> level.ib.buf, at |-> level.va + 1,
                   size |-> EndBin(level.ib, level.va) - level.va - 1]
        Prefix(bin) == [p.prefix EXCEPT !.at = @ + bin * p.prefix.size]
    IN  [i \in 1 .. 2 * p.count |->
            IF i % 2 = 1 THEN Pending(Prefix((i - 1) \div 2), FALSE, "BinPrefix", AllMask)
                         ELSE Pending(common, FALSE, "BinCommon", AllMask)]

PendingOfDrawTable(p) ==
    [i \in 1 .. p.count |->
        Pending([p.ib EXCEPT !.at = @ + (i - 1) * p.ib.size], FALSE,
                "FixedStrideDrawTable", AllMask)]

(* Mutant: the common block of the bins is not skipped at its own level. *)
Prepared_KeepsCommonBlock(p, level) ==
    CASE p.op \in {"call", "chain", "drawState"} -> AdvancePacket(RestartQueue(level))
      [] p.op = "amble" /\ p.ib.size # 0         -> AdvancePacket(RestartQueue(level))
      [] OTHER                                   -> AdvancePacket(level)

(* The level after the packet, before the pending IBs are queued.  A
   CP_START_BIN and a draw table keep the entries of earlier packets. *)
Prepared(p, level) ==
    CASE p.op \in {"call", "chain", "drawState"} -> AdvancePacket(RestartQueue(level))
      [] p.op = "amble" /\ p.ib.size # 0         -> AdvancePacket(RestartQueue(level))
      [] p.op = "startBin" -> [level EXCEPT !.va = EndBin(level.ib, level.va)]
      [] OTHER             -> AdvancePacket(level)

Queued(p, level) ==
    CASE IsIbPacket(p)        -> PendingOfIb(p)
      [] p.op = "amble"       -> PendingOfAmble(p)
      [] p.op = "drawState"   -> PendingOfDrawState(p)
      [] p.op = "startBin"    -> PendingOfBins(p, level)
      [] p.op = "drawTable"   -> PendingOfDrawTable(p)
      [] OTHER                -> <<>>

(* Whether AdvanceCb goes on to AdvanceToQueuedIB. *)
Enters(p) ==
    \/ IsIbPacket(p) \/ p.op \in {"startBin", "drawTable"}
    \/ p.op = "amble" /\ p.ib.size # 0
    \/ p.op = "drawState" /\ LiveGroups(p.groups) # <<>>

-----------------------------------------------------------------------------
EmuInit ==
    /\ capture \in Captures
    /\ emu = [pc |-> "submit", submit |-> 1, stack |-> <<Ring>>, ibIndex |-> 0,
              entered |-> 0, chained |-> FALSE]
    /\ trace = <<>>

Submit == capture.submits[emu.submit]

(* Dummy submits, and engines other than gfx and compute, are not parsed. *)
Parsed(submit) == ~submit.dummy /\ submit.engine \in {"Universal", "Compute"}

(* ProcessSubmits: OnSubmitStart, then the head of ExecuteSubmit, which queues
   the submit's IBs on the primary ring. *)
SubmitStart ==
    /\ emu.pc = "submit"
    /\ emu.submit <= Len(capture.submits)
    /\ LET ibs == [i \in DOMAIN Submit.ibs |->
                      Pending(Submit.ibs[i].ib, Submit.ibs[i].skip, "Normal", AllMask)]
       IN  emu' = [emu EXCEPT !.pc = IF ~Parsed(Submit) THEN "end"
                                     ELSE IF QueueHasRoom(<<>>, ibs) THEN "enter"
                                     ELSE "failed",
                              !.stack = << IF Parsed(Submit) THEN QueueIB(Ring, ibs) ELSE Ring >>]
    /\ UNCHANGED <<capture, trace>>

(* ExecuteSubmit refuses a packet whose parity is wrong. *)
BadPacket ==
    /\ emu.pc = "packet"
    /\ CurPacket.op = "bad"
    /\ emu' = [emu EXCEPT !.pc = "failed"]
    /\ UNCHANGED <<capture, trace>>

(* The body of ExecuteSubmit's loop: OnPacket, then AdvanceCb. *)
Packet ==
    /\ emu.pc = "packet"
    /\ CurPacket.op # "bad"
    /\ CurPacket.op = "startBin" => EndBins(CurIb.ib, CurIb.va) # {}
    /\ LET p     == CurPacket
           level == Prepared(p, CurIb)
           add   == Queued(p, CurIb)
       IN  emu' = [emu EXCEPT !.pc = IF ~QueueHasRoom(level.queue, add) THEN "failed"
                                     ELSE IF Enters(p) THEN "enter" ELSE "check",
                              !.stack[Len(emu.stack)] = QueueIB(level, add)]
    /\ trace' = Append(trace, [buf |-> CurIb.ib.buf, at |-> CurIb.va])
    /\ UNCHANGED capture

(* AdvanceToQueuedIB with nothing queued. *)
NothingQueued ==
    /\ emu.pc = "enter"
    /\ CurIb.next > Len(CurIb.queue)
    /\ emu' = [emu EXCEPT !.pc = "check"]
    /\ UNCHANGED <<capture, trace>>

(* AdvanceToQueuedIB, CALL: the IB gets a level of its own. *)
EnterIb ==
    /\ emu.pc = "enter"
    /\ CurIb.next <= Len(CurIb.queue)
    /\ Len(emu.stack) < kTotalIbLevels
    /\ LET p     == CurIb.queue[CurIb.next]
           level == Level(p, p.skip \/ ~IsValid(p.ib), emu.entered + 1)
       IN  /\ p.type # "Chain"
           /\ emu' = [emu EXCEPT
                        !.pc = "check",
                        !.entered = @ + 1,
                        !.ibIndex = IF p.type = "Normal" THEN CurIb.next ELSE @,
                        !.stack = Append([@ EXCEPT ![Len(@)].next = CurIb.next + 1], level)]
    /\ UNCHANGED <<capture, trace>>

(* AdvanceToQueuedIB, CHAIN: the IB takes over the level, which keeps the type
   of the IB that chained.  The CHAIN packet must be the last of its IB. *)
ChainAtEnd == CurIb.va = CurIb.ib.at + CurIb.ib.size

ChainIb ==
    /\ emu.pc = "enter"
    /\ CurIb.next <= Len(CurIb.queue)
    /\ CurIb.queue[CurIb.next].type = "Chain"
    /\ ChainAtEnd
    /\ LET p == CurIb.queue[1]
       IN  emu' = [emu EXCEPT
                     !.pc = "check",
                     !.entered = @ + 1,
                     !.chained = TRUE,
                     !.stack[Len(emu.stack)] =
                        [@ EXCEPT !.va = p.ib.at, !.ib = p.ib, !.mask = p.mask,
                                  !.skip = p.skip \/ ~IsValid(p.ib),
                                  !.next = CurIb.next + 1, !.inst = emu.entered + 1]]
    /\ UNCHANGED <<capture, trace>>

MisplacedChain ==
    /\ emu.pc = "enter"
    /\ CurIb.next <= Len(CurIb.queue)
    /\ CurIb.queue[CurIb.next].type = "Chain"
    /\ ~ChainAtEnd
    /\ emu' = [emu EXCEPT !.pc = "failed"]
    /\ UNCHANGED <<capture, trace>>

(* CheckAndAdvanceIB: AdvanceOutOfIB at the end of an IB, or of a skipped one,
   and the caller's next pending IB after it ... *)
LeaveIb ==
    /\ emu.pc = "check"
    /\ ~AtRing
    /\ EndOfCurIb(CurIb)
    /\ emu' = [emu EXCEPT !.pc = "enter", !.stack = Front(@)]
    /\ UNCHANGED <<capture, trace>>

(* ... until there is a packet to emulate, or the submit is through. *)
StayInIb ==
    /\ emu.pc = "check"
    /\ AtRing \/ ~EndOfCurIb(CurIb)
    /\ emu' = [emu EXCEPT !.pc = IF AtRing THEN "end" ELSE "packet"]
    /\ UNCHANGED <<capture, trace>>

(* ProcessSubmits: OnSubmitEnd. *)
SubmitEnd ==
    /\ emu.pc = "end"
    /\ emu' = [emu EXCEPT !.pc = "submit", !.submit = @ + 1, !.ibIndex = 0]
    /\ UNCHANGED <<capture, trace>>

(* ProcessSubmits has returned true. *)
AllSubmitsDone ==
    /\ emu.pc = "submit"
    /\ emu.submit > Len(capture.submits)
    /\ emu' = [emu EXCEPT !.pc = "done"]
    /\ UNCHANGED <<capture, trace>>

Stopped == emu.pc \in {"done", "failed"}

-----------------------------------------------------------------------------
(* Whatever a packet calls, chains to, or queues as a group, a bin or an entry
   of a draw table, the emulator reads its packets from memory that is in the
   capture: DIVE_VERIFY(RetrieveMemoryData) in ExecuteSubmit never fails. *)
ReadsCaptured ==
    emu.pc = "packet" =>
        /\ CurIb.ib.buf \in DOMAIN capture.mem \ capture.lost
        /\ CurIb.va \in DOMAIN capture.mem[CurIb.ib.buf]
=============================================================================
