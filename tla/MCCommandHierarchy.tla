------------------------- MODULE MCCommandHierarchy -------------------------
(***************************************************************************)
(* TLC instances of CommandHierarchy: small captures, and the order of     *)
(* execution that the emulator is checked against, written as a recursive  *)
(* expansion of the command buffers.                                       *)
(***************************************************************************)
EXTENDS CommandHierarchy

(* Packets.  Buffer 4 is <<reg, draw>>: state, draw-table entries, prefixes. *)
Seg(b, at, size) == [buf |-> b, at |-> at, size |-> size]
Draw     == [op |-> "draw"]
Reg      == [op |-> "reg"]
Marker(k) == [op |-> "marker", kind |-> k]
Jump(op, ib) == [op |-> op, ib |-> ib]
Group(ib, mask, off, all) == [ib |-> ib, mask |-> mask, disable |-> off, disableAll |-> all]
DrawState(groups) == [op |-> "drawState", groups |-> groups]
EndBinPacket      == [op |-> "endBin"]
StartBin(count)   == [op |-> "startBin", count |-> count, prefix |-> Seg(4, 1, 1)]
Table(count)      == [op |-> "drawTable", count |-> count, ib |-> Seg(4, 1, 1)]

SeqsUpTo(S, n) == UNION {[1 .. k -> S] : k \in 1 .. n}

(* The buffers that are called, chained to or used as a draw-state group. *)
CallState == DrawState(<<Group(Seg(4, 1, 1), {"GMEM"}, FALSE, FALSE)>>)
CallLeaf  == Jump("call", Seg(4, 1, 2))
ChainLeaf == Jump("chain", Seg(4, 1, 2))
CallPast  == Jump("call", Seg(4, 2, 2))
Callees ==
    {<<Draw>>, <<Reg>>, <<CallLeaf, Reg>>, <<CallState, Draw>>, <<Draw, CallState>>,
     <<Draw, ChainLeaf>>, <<ChainLeaf, Draw>>, <<CallPast, Reg>>, <<Table(2), Table(2)>>}

(* What an IB of the ring may do with a buffer of n packets. *)
Body(n) ==
    {Draw, Reg, Marker("BIN_VISIBILITY"), Jump("call", Seg(3, 1, n)), Jump("amble", Seg(4, 1, 1)),
     Jump("chain", Seg(3, 1, n)),
     DrawState(<<Group(Seg(3, 1, n), AllMask, FALSE, FALSE),
                 Group(Seg(4, 1, 1), {"GMEM"}, FALSE, FALSE)>>),
     DrawState(<<Group(Seg(4, 1, 1), {"BINNING"}, FALSE, FALSE),
                 Group(Seg(3, 1, n), {"GMEM", "SYSMEM"}, FALSE, FALSE)>>),
     DrawState(<<Group(Seg(4, 1, 1), {"BINNING"}, TRUE, FALSE),
                 Group(Seg(4, 2, 1), {"SYSMEM"}, FALSE, FALSE),
                 Group(Seg(4, 1, 1), {"BINNING"}, FALSE, TRUE)>>)}

Nested(n) ==
    SeqsUpTo(Body(n), 2)
    \cup {<<StartBin(2), p, EndBinPacket, Reg>> : p \in Body(n) \cup {Table(2)}}
    \cup {<<Table(2), p>> : p \in {Reg, Table(2), Jump("amble", NoIb)}}
    \cup {<<Table(2), Table(2), Table(2)>>, <<[Table(2) EXCEPT !.ib = Seg(3, 1, 1)], Reg>>}
    \cup {<<p, [op |-> "bad"]>> : p \in {Draw, [op |-> "type2"]}}

Flat == SeqsUpTo({Draw, Reg, Marker("BIN_VISIBILITY"), Marker("BIN_RENDER_START"),
                  Marker("BIN_RESOLVE")}, 4)

SubmitOf(ibs) == [dummy |-> FALSE, engine |-> "Universal", ibs |-> ibs]
Ib(b, n)      == [ib |-> Seg(b, 1, n), skip |-> FALSE]
Second        == <<Reg, Jump("call", Seg(4, 1, 2))>>

Memory(b1, b3) == (1 :> b1) @@ (2 :> Second) @@ (3 :> b3) @@ (4 :> <<Reg, Draw>>)

Capture(b1, b3, lost, submits) ==
    [mem |-> Memory(b1, b3), lost |-> lost, submits |-> submits, presents |-> <<1>>]

(* Two IBs of one submit, or one each of two with a dummy submit between. *)
OneSubmit(n)   == << SubmitOf(<<Ib(1, n), Ib(2, 2)>>) >>
TwoSubmits(n)  ==
    << SubmitOf(<<Ib(1, n)>>), [SubmitOf(<<>>) EXCEPT !.dummy = TRUE], SubmitOf(<<Ib(2, 2)>>) >>

NestedCaptures(b1, b3) ==
    { Capture(b1, b3, {}, OneSubmit(Len(b1))), Capture(b1, b3, {3}, OneSubmit(Len(b1))),
      Capture(b1, b3, {4}, TwoSubmits(Len(b1))) }

MCCaptures ==
    UNION { UNION { NestedCaptures(b1, b3) : b1 \in Nested(Len(b3)) } : b3 \in Callees }
    \cup { Capture(b1, <<Draw>>, {}, << SubmitOf(<<Ib(1, Len(b1))>>) >>) : b1 \in Flat }

-----------------------------------------------------------------------------
(* The reference: what the GPU executes, by expansion. *)
RECURSIVE Execute(_, _), ExecuteAll(_, _)

(* The packets of the IB from va on, each followed by what it jumps to. *)
Execute(ib, va) ==
    IF ~IsValid(ib) \/ va >= ib.at + ib.size THEN <<>>
    ELSE LET p    == capture.mem[ib.buf][va]
             here == <<[buf |-> ib.buf, at |-> va]>>
             end  == EndBin(ib, va)
             bins == [b \in 1 .. p.count |->
                         << [p.prefix EXCEPT !.at = @ + (b - 1) * p.prefix.size],
                            [ib EXCEPT !.at = va + 1, !.size = end - va - 1] >>]
         IN  CASE p.op \in {"call", "amble"} -> here \o Execute(p.ib, p.ib.at) \o Execute(ib, va + 1)
               [] p.op = "chain"     -> here \o Execute(p.ib, p.ib.at)
               [] p.op = "drawState" ->
                    here \o ExecuteAll([g \in DOMAIN LiveGroups(p.groups) |->
                                            LiveGroups(p.groups)[g].ib], 1)
                         \o Execute(ib, va + 1)
               [] p.op = "startBin"  -> here \o ExecuteAll(FlattenSeq(bins), 1) \o Execute(ib, end)
               [] p.op = "drawTable" ->
                    here \o ExecuteAll([d \in 1 .. p.count |->
                                            [p.ib EXCEPT !.at = @ + (d - 1) * p.ib.size]], 1)
                         \o Execute(ib, va + 1)
               [] OTHER -> here \o Execute(ib, va + 1)

ExecuteAll(ibs, i) ==
    IF i > Len(ibs) THEN <<>> ELSE Execute(ibs[i], ibs[i].at) \o ExecuteAll(ibs, i + 1)

GpuOrder ==
    FlattenSeq([s \in DOMAIN capture.submits |->
        ExecuteAll([i \in DOMAIN capture.submits[s].ibs |-> capture.submits[s].ibs[i].ib], 1)])

(* The emulator, with its stack of levels and their queues, reports exactly the
   packets the GPU executes, in that order: all of them when it succeeds, a
   beginning of them when it gives up. *)
ExecutionOrder ==
    /\ emu.pc = "done" => trace = GpuOrder
    /\ emu.pc = "failed" => IsPrefix(trace, GpuOrder)
=============================================================================
