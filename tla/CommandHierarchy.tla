-------------------------- MODULE CommandHierarchy --------------------------
(***************************************************************************)
(* CommandHierarchyCreator (dive_core/command_hierarchy.cpp): the callbacks*)
(* of the emulator that build the trees Dive shows.  Every callback is a   *)
(* function from the creator's state to its next state; the actions at the *)
(* end let the emulator call them.                                         *)
(*                                                                         *)
(* Nodes are numbered from 1 in the order of AddNode; node 1 is the root   *)
(* and 0 stands for UINT64_MAX.  The field and register nodes below a      *)
(* packet are left out, except the groups of a CP_SET_DRAW_STATE, to which *)
(* packets are attached.                                                   *)
(***************************************************************************)
EXTENDS EmulatePM4, FiniteSetsExt

VARIABLE creator     \* the CommandHierarchyCreator and the CommandHierarchy

vars == <<emuVars, creator>>

kRootNodeIndex == 1
NoNode         == 0
Topologies     == {"Submit", "AllEvent"}
FilterTypes    == {"BinningPassOnly", "FirstTilePassOnly", "BinningAndFirstTilePass"}

(* The markers that open a render pass node; the others only end one. *)
PassMarkers == {"DIRECT_RENDER", "BIN_VISIBILITY", "BIN_DIRECT", "BIN_RENDER_START",
                "BIN_RESOLVE", "COMPUTE"}

Node(type, aux) ==
    [type |-> type, aux |-> aux,
     kids   |-> [t \in Topologies |-> <<>>], shared |-> [t \in Topologies |-> <<>>],
     start  |-> [t \in Topologies |-> kRootNodeIndex],
     end    |-> [t \in Topologies |-> kRootNodeIndex],
     root   |-> [t \in Topologies |-> kRootNodeIndex]]

(* EmulateStateTracker: the masks, and one register as each pass sees it. *)
NewTracker == [mask |-> AllMask, maskStack |-> <<>>,
               reg |-> [i \in Passes |-> NoNode], pass |-> "none"]

NewCreator ==
    [nodes |-> << Node("Root", [id |-> 0]) >>,
     events |-> <<>>,
     exclude |-> [f \in FilterTypes |-> {}],
     tracker |-> NewTracker,
     ibStack |-> <<>>,
     startStack |-> [t \in Topologies |-> <<>>],
     ibParents |-> [l \in 0 .. kTotalIbLevels - 1 |-> kRootNodeIndex],
     groupInfo |-> <<>>,
     startBin |-> NoNode, drawTable |-> NoNode, renderMarker |-> NoNode,
     newEvent |-> TRUE, newIb |-> TRUE, firstTile |-> FALSE,
     lastAdded |-> kRootNodeIndex, submitNode |-> kRootNodeIndex,
     ibPacket |-> kRootNodeIndex, ibLevel |-> 0]

-----------------------------------------------------------------------------
(* Helpers on the nodes. *)

LastNode(c)             == Len(c.nodes)
AddNode(c, type, aux)   == [c EXCEPT !.nodes = Append(@, Node(type, aux))]
AddChild(c, t, n, child) == [c EXCEPT !.nodes[n].kids[t] = Append(@, child)]
AddSharedChild(c, t, n, child) == [c EXCEPT !.nodes[n].shared[t] = Append(@, child)]

(* AddNode, then AddChild in both topologies. *)
AddNodeUnder(c, n, type, aux) ==
    LET d == AddNode(c, type, aux)
    IN  AddChild(AddChild(d, "Submit", n, LastNode(d)), "AllEvent", n, LastNode(d))

(* SetStart/EndSharedChildrenNodeIndex and SetSharedChildRootNodeIndex. *)
SetRange(c, t, n, first, last) ==
    [c EXCEPT !.nodes[n].start[t] = first, !.nodes[n].end[t] = last,
              !.nodes[n].root[t] = c.submitNode]

PushEnableMask(tr, mask) == [tr EXCEPT !.maskStack = Append(@, tr.mask), !.mask = mask]
PopEnableMask(tr)        == [tr EXCEPT !.mask = Last(tr.maskStack), !.maskStack = Front(@)]

(* EmulateStateTracker::SetReg: the packet that wrote the register last, for
   every pass of the current mask. *)
SetReg(tr, n) == [tr EXCEPT !.reg = [i \in Passes |-> IF i \in tr.mask THEN n ELSE @[i]]]

(* EmulateStateTracker::OnPacket *)
PassOfMarker(tr, kind) ==
    CASE kind = "DIRECT_RENDER"                         -> "SYSMEM"
      [] kind \in {"BIN_VISIBILITY", "BIN_DIRECT"}      -> "BINNING"
      [] kind \in {"BIN_RENDER_START", "BIN_RESOLVE"}   -> "GMEM"
      [] kind \in {"BIN_END_OF_DRAWS", "BIN_RENDER_END"} -> "none"
      [] OTHER                                          -> tr.pass

TrackPacket(tr, p, n) ==
    CASE p.op = "marker" -> [tr EXCEPT !.pass = PassOfMarker(tr, p.kind)]
      [] p.op = "reg"    -> SetReg(tr, n)
      [] OTHER           -> tr

-----------------------------------------------------------------------------
(* OnIbStart *)

(* The node that the packets of the IB are attached to, as shared children:
   the packet that called it, or the draw-state group of that address. *)
GroupAt(c, ib) ==
    LET match == {i \in DOMAIN c.groupInfo : c.groupInfo[i].addr = <<ib.buf, ib.at>>}
    IN  IF match = {} THEN NoNode ELSE c.groupInfo[Min(match)].node

IbPacketParent(c, level) ==
    IF c.ibPacket = NoNode THEN c
    ELSE [c EXCEPT !.ibParents[level] = c.ibPacket]

(* Bins and draw tables get a field node below the packet that started them. *)
FieldNodeParent(c, level, n) ==
    LET d == AddNodeUnder(c, n, "Field", [addr |-> <<>>])
    IN  [d EXCEPT !.ibParents[level] = LastNode(d)]

SharedParent(c, level, ib, type) ==
    CASE type = "DrawState" -> [c EXCEPT !.ibParents[level] = GroupAt(c, ib)]
      [] type \in {"BinPrefix", "BinCommon"} -> FieldNodeParent(c, level, c.startBin)
      [] type = "FixedStrideDrawTable"       -> FieldNodeParent(c, level, c.drawTable)
      [] OTHER -> c

(* The parent of the IB node in the submit topology.  (m_flatten_chain_nodes
   looks for another one for IBs of type Chain, but the emulator keeps the type
   of the IB that chained and never reports that one.) *)
IbParent(c) == IF c.ibStack = <<>> THEN c.submitNode ELSE Last(c.ibStack)

OnIbStart(c, level, cur, ibIndex) ==
    LET tracked == [c EXCEPT !.tracker = PushEnableMask(@, cur.mask), !.ibLevel = level]
        placed  == SharedParent(IbPacketParent(tracked, level), level, cur.ib, cur.type)
        added   == AddNode(placed, "Ib", [type |-> cur.type, index |-> ibIndex,
                                          captured |-> ~cur.skip, inst |-> cur.inst,
                                          mask |-> cur.mask,
                                          addr |-> <<cur.ib.buf, cur.ib.at>>])
        child   == AddChild(added, "Submit", IbParent(added), LastNode(added))
    IN  [child EXCEPT !.ibStack = Append(@, LastNode(added)), !.newIb = TRUE]

(* OnIbEnd.  The code pops "all consecutive CHAIN IBs" first. *)
NonChainIb(c, i) == c.nodes[c.ibStack[i]].aux.type # "Chain"
PopIb(c) ==
    LET keep == {0} \cup {i \in DOMAIN c.ibStack : NonChainIb(c, i)}
        gone == Len(c.ibStack) - Max(keep)
    IN  [c EXCEPT !.ibStack = SubSeq(@, 1, Max(keep) - 1),
                  !.startStack["Submit"] = SubSeq(@, 1, Len(@) - gone)]

(* Mutant: m_new_ib_start is not reset for an IB without packets. *)
CloseIb_NoReset(c) ==
    LET starts == c.startStack["Submit"]
    IN  IF c.newIb THEN c
        ELSE [SetRange(c, "Submit", Last(c.ibStack), Last(starts), c.lastAdded)
                EXCEPT !.startStack["Submit"] = Front(starts)]

CloseIb(c) ==
    LET starts == c.startStack["Submit"]
    IN  IF c.newIb THEN [c EXCEPT !.newIb = FALSE]
        ELSE [SetRange(c, "Submit", Last(c.ibStack), Last(starts), c.lastAdded)
                EXCEPT !.startStack["Submit"] = Front(starts)]

(* Mutant: the mask of an IB without packets is not popped. *)
OnIbEnd_SkippedKeepsMask(c, level) ==
    LET popped == IF c.newIb THEN c ELSE [c EXCEPT !.tracker = PopEnableMask(@)]
    IN  [PopIb(CloseIb(popped)) EXCEPT !.ibLevel = level]

OnIbEnd(c, level) ==
    LET popped == [c EXCEPT !.tracker = PopEnableMask(@)]
    IN  [PopIb(CloseIb(popped)) EXCEPT !.ibLevel = level]

-----------------------------------------------------------------------------
(* OnPacket *)

(* AddPacketNode, with the field nodes of a draw state's groups.  insts is
   history: the IBs, by their number, that the emulator is in. *)
AddGroupNodes(c, n, groups) ==
    LET fields == [i \in DOMAIN groups |->
                      Node("Field", [addr |-> <<groups[i].ib.buf, groups[i].ib.at>>])]
        kids   == [i \in DOMAIN groups |-> n + i]
    IN  [c EXCEPT !.nodes = [@ EXCEPT ![n].kids = [t \in Topologies |-> kids]] \o fields]

AddPacketNode(c, p, insts) ==
    LET d == AddNode(c, "Packet", [op |-> p.op, level |-> c.ibLevel, insts |-> insts])
    IN  IF p.op = "drawState" THEN AddGroupNodes(d, LastNode(d), p.groups) ELSE d

CacheSetDrawStateGroupInfo(c, p, n) ==
    LET kids == c.nodes[n].kids["Submit"]
    IN  [c EXCEPT !.groupInfo =
            [i \in DOMAIN p.groups |-> [node |-> kids[i],
                                        addr |-> <<p.groups[i].ib.buf, p.groups[i].ib.at>>]]]

(* The packet that begins an event, or an IB, is remembered on a stack. *)
PushStarts(c, n) ==
    [c EXCEPT !.newEvent = FALSE, !.newIb = FALSE,
              !.startStack = [t \in Topologies |->
                                IF IF t = "Submit" THEN c.newIb ELSE c.newEvent
                                THEN Append(@[t], n) ELSE @[t]]]

AttachPacket(c, n) ==
    LET parent == c.ibParents[c.ibLevel]
    IN  AddSharedChild(AddSharedChild(c, "Submit", parent, n), "AllEvent", parent, n)

(* Mutant: an event of a pass is also added to its submit. *)
AddEvent_UnderBoth(c, n) ==
    LET added  == AddNode(c, "Event", [id |-> Len(c.events), packet |-> n])
        e      == LastNode(added)
        starts == c.startStack["AllEvent"]
        ranged == SetRange(added, "AllEvent", e, Last(starts), n)
        below  == AddChild(ranged, "AllEvent", c.submitNode, e)
    IN  [IF c.renderMarker = NoNode THEN below
         ELSE AddChild(below, "AllEvent", c.renderMarker, e)
            EXCEPT !.events = Append(@, e), !.newEvent = TRUE,
                   !.startStack["AllEvent"] = Front(starts)]

AddEvent(c, n) ==
    LET parent == IF c.renderMarker # NoNode THEN c.renderMarker ELSE c.submitNode
        added  == AddNode(c, "Event", [id |-> Len(c.events), packet |-> n])
        e      == LastNode(added)
        starts == c.startStack["AllEvent"]
        ranged == SetRange(added, "AllEvent", e, Last(starts), n)
    IN  [AddChild(ranged, "AllEvent", parent, e)
            EXCEPT !.events = Append(@, e), !.newEvent = TRUE,
                   !.startStack["AllEvent"] = Front(starts)]

(* Mutant: the start of an unfinished event stays on the stack. *)
CloseRenderMarker_KeepsEventStart(c) ==
    LET starts == c.startStack["AllEvent"]
    IN  IF c.renderMarker = NoNode THEN c
        ELSE [SetRange(c, "AllEvent", c.renderMarker, Last(starts), c.lastAdded)
                EXCEPT !.startStack["AllEvent"] = Front(starts)]

(* The previous pass ends: the start of an unfinished event is dropped. *)
CloseRenderMarker(c) ==
    LET starts == Front(c.startStack["AllEvent"])
    IN  IF c.renderMarker = NoNode THEN c
        ELSE [SetRange(c, "AllEvent", c.renderMarker, Last(starts), c.lastAdded)
                EXCEPT !.startStack["AllEvent"] = Front(starts)]

(* The passes that the filters hide. *)
FilterPass(c, kind) ==
    LET n      == c.renderMarker
        tile   == kind \in {"BIN_RENDER_START", "BIN_RESOLVE"}
        Hide(f) == \/ f = "FirstTilePassOnly" /\ kind = "BIN_VISIBILITY"
                   \/ f = "BinningPassOnly" /\ tile
                   \/ f # "BinningPassOnly" /\ tile /\ ~c.firstTile
    IN  [c EXCEPT !.exclude = [f \in FilterTypes |-> IF Hide(f) THEN @[f] \cup {n} ELSE @[f]],
                  !.firstTile = \/ kind = "BIN_VISIBILITY"
                                \/ @ /\ kind # "BIN_RESOLVE"]

AddRenderMarker(c, kind, n) ==
    LET added  == AddNode(CloseRenderMarker(c), "RenderMarker", [kind |-> kind, packet |-> n])
        opened == FilterPass([added EXCEPT !.renderMarker = LastNode(added)], kind)
    IN  [AddChild(opened, "AllEvent", c.submitNode, LastNode(added))
            EXCEPT !.startStack["AllEvent"] = Append(@, n), !.newEvent = TRUE]

(* Mutant: CP_SET_AMBLE is not remembered as the packet that calls. *)
HandlePacket_AmbleForgotten(c, p, n) ==
    CASE p.op = "draw"                     -> AddEvent(c, n)
      [] p.op \in {"call", "chain"}        -> [c EXCEPT !.ibPacket = n]
      [] p.op = "startBin"                 -> [c EXCEPT !.startBin = n]
      [] p.op = "endBin"                   -> [c EXCEPT !.startBin = NoNode]
      [] p.op = "drawTable"                -> [c EXCEPT !.drawTable = n]
      [] p.op = "marker" /\ p.kind \in PassMarkers -> AddRenderMarker(c, p.kind, n)
      [] OTHER                             -> c

HandlePacket(c, p, n) ==
    CASE p.op = "draw"                     -> AddEvent(c, n)
      [] p.op \in {"call", "chain", "amble"} -> [c EXCEPT !.ibPacket = n]
      [] p.op = "startBin"                 -> [c EXCEPT !.startBin = n]
      [] p.op = "endBin"                   -> [c EXCEPT !.startBin = NoNode]
      [] p.op = "drawTable"                -> [c EXCEPT !.drawTable = n]
      [] p.op = "marker" /\ p.kind \in PassMarkers -> AddRenderMarker(c, p.kind, n)
      [] OTHER                             -> c

AttachToPass(c, n) ==
    IF c.renderMarker = NoNode THEN c ELSE AddSharedChild(c, "AllEvent", c.renderMarker, n)

OnPacket(c, p, insts) ==
    LET n       == LastNode(c) + 1
        tracked == [c EXCEPT !.tracker = TrackPacket(@, p, n)]
        added   == AttachPacket(PushStarts(AddPacketNode(tracked, p, insts), n), n)
        cached  == IF p.op = "drawState" THEN CacheSetDrawStateGroupInfo(added, p, n) ELSE added
        handled == AttachToPass(HandlePacket(cached, p, n), n)
    IN  IF p.op = "type2" THEN c
        ELSE [handled EXCEPT !.lastAdded = n]

-----------------------------------------------------------------------------
(* OnSubmitStart and OnSubmitEnd *)

OnSubmitStart(c, submit) ==
    LET added == AddNodeUnder(c, kRootNodeIndex, "Submit", [index |-> submit])
        n     == LastNode(added)
    IN  [added EXCEPT !.nodes[n].root = [t \in Topologies |-> n],
                      !.submitNode = n, !.ibLevel = 1, !.ibParents[1] = n,
                      !.ibPacket = NoNode, !.ibStack = <<>>,
                      !.startStack = [t \in Topologies |-> <<>>],
                      !.renderMarker = NoNode,
                      !.tracker.reg = [i \in Passes |-> NoNode], !.tracker.pass = "none",
                      !.newEvent = TRUE, !.newIb = TRUE, !.firstTile = FALSE]

(* The IBs of the submit are sorted by their index; std::sort is not stable. *)
SortedIbs(c) ==
    LET ibs      == c.nodes[c.submitNode].kids["Submit"]
        Index(n) == c.nodes[n].aux.index
    IN  {s \in [DOMAIN ibs -> Range(ibs)] :
            /\ Range(s) = Range(ibs)
            /\ \A i, j \in DOMAIN ibs : i < j => Index(s[i]) <= Index(s[j])}

SetIbs(c, ibs) == [c EXCEPT !.nodes[c.submitNode].kids["Submit"] = ibs]

(* One node, under the root, for every present that follows the submit. *)
AddPresents(c, number) ==
    LET new   == [i \in 1 .. number |-> Node("Present", [id |-> 0])]
        kids  == [i \in 1 .. number |-> LastNode(c) + i]
        nodes == [c.nodes EXCEPT ![kRootNodeIndex].kids["AllEvent"] = @ \o kids]
    IN  [c EXCEPT !.nodes = nodes \o new]

OnSubmitEnd(c, submit, presents, ibs) ==
    AddPresents(SetIbs(c, ibs), Cardinality({i \in DOMAIN presents : presents[i] = submit}))

-----------------------------------------------------------------------------
(* The emulator calls the creator. *)

Insts(stack) == [i \in 1 .. Len(stack) - 1 |-> stack[i + 1].inst]

Init == EmuInit /\ creator = NewCreator

StartSubmit == SubmitStart /\ creator' = OnSubmitStart(creator, emu.submit)
EmulatePacket ==
    Packet /\ creator' = OnPacket(creator, CurPacket, Insts(emu.stack))
CallIb ==
    EnterIb /\ creator' = OnIbStart(creator, Len(emu.stack), Top(emu'.stack), emu'.ibIndex)
FollowChain ==
    ChainIb /\ creator' = OnIbStart(creator, Len(emu.stack) - 1, Top(emu'.stack), emu.ibIndex)
ReturnFromIb == LeaveIb /\ creator' = OnIbEnd(creator, Len(emu.stack) - 2)
EndSubmit ==
    /\ SubmitEnd
    /\ \E ibs \in SortedIbs(creator) :
          creator' = OnSubmitEnd(creator, emu.submit, capture.presents, ibs)
Internal ==
    /\ BadPacket \/ NothingQueued \/ MisplacedChain \/ StayInIb \/ AllSubmitsDone
    /\ UNCHANGED creator

(* CreateTrees has returned. *)
Returned == Stopped /\ UNCHANGED vars

Next ==
    \/ StartSubmit \/ EmulatePacket \/ CallIb \/ FollowChain \/ ReturnFromIb
    \/ EndSubmit \/ Internal \/ Returned

Spec == Init /\ [][Next]_vars
-----------------------------------------------------------------------------
(* Properties. *)

Nodes          == DOMAIN creator.nodes
NodesOf(type)  == {n \in Nodes : creator.nodes[n].type = type}
Aux(n)         == creator.nodes[n].aux
SharedRange(n, t) == creator.nodes[n].start[t] .. creator.nodes[n].end[t]
PacketsIn(n, t) == NodesOf("Packet") \cap SharedRange(n, t)
SharedParentOf(n, t) ==
    {m \in Nodes \ NodesOf("RenderMarker") : n \in Range(creator.nodes[m].shared[t])}

(* The IBs by number that have been left again: a node of each is in the tree. *)
OpenInsts   == {emu.stack[i].inst : i \in 2 .. Len(emu.stack)}
IbNode(i)   == CHOOSE n \in NodesOf("Ib") : Aux(n).inst = i
InsideOf(i) == {n \in NodesOf("Packet") : i \in Range(Aux(n).insts)}

(* What Topology::AddChildren asserts when CreateTopologies turns the lists of
   children into trees: whatever the command buffers hold, no node has two
   parents in one topology, a parent is older than its children (so that the
   trees have no cycle), and only packets are shared. *)
TopologiesWellFormed ==
    /\ \A t \in Topologies : \A n \in Nodes :
          Cardinality({m \in Nodes : n \in Range(creator.nodes[m].kids[t])}) <= 1
    /\ \A m \in Nodes, t \in Topologies :
          /\ \A n \in Range(creator.nodes[m].kids[t]) : n > m
          /\ Range(creator.nodes[m].shared[t]) \subseteq NodesOf("Packet")

(* What OnIbEnd asserts when it is called: there is an IB to close, and the
   stack of the IBs and that of their first packets, which are pushed by
   different callbacks, are equally high.  Chained IBs stay on the first, and
   their packets on the second. *)
IbStacksAgree ==
    emu.pc = "check" /\ ~AtRing =>
        /\ creator.ibStack # <<>>
        /\ ~creator.newIb => Len(creator.startStack["Submit"]) = Len(creator.ibStack)

(* The value a register has for a pass was written by the last packet emulated
   whose innermost IB is enabled for that pass: leaving an IB, also one that was
   skipped, restores the mask of its caller.  A chain breaks this (OnIbStart
   pushes a mask for it that no OnIbEnd pops), hence the first hypothesis. *)
EnabledFor(n, i) ==
    i \in IF Aux(n).insts = <<>> THEN AllMask
          ELSE creator.nodes[IbNode(Last(Aux(n).insts))].aux.mask

RegistersByPass ==
    ~emu.chained => \A i \in Passes :
        creator.tracker.reg[i] =
            Max({NoNode} \cup {n \in NodesOf("Packet") : /\ n > creator.submitNode
                                                         /\ Aux(n).op = "reg"
                                                         /\ EnabledFor(n, i)})

(* OnIbEnd gives the node of an IB the range of the packets emulated inside it,
   nested IBs included, and no other packet; an IB that was skipped, or had no
   packets, has none.  Again only where no chain was followed. *)
IbRangesExact ==
    ~emu.chained => \A n \in NodesOf("Ib") :
        Aux(n).inst \notin OpenInsts =>
            IF InsideOf(Aux(n).inst) = {} THEN creator.nodes[n].start["Submit"] = kRootNodeIndex
            ELSE PacketsIn(n, "Submit") = InsideOf(Aux(n).inst)

(* The events and the passes share one stack of starts.  An event's range is
   what was emulated in its submit since the event or the pass before it; the
   range of a pass that the next one has closed goes from its marker to the
   packet before that one's, and holds the whole range of every event below it. *)
Boundary(e) ==
    LET before == {Aux(m).packet : m \in NodesOf("Event") \cup NodesOf("RenderMarker")}
    IN  Max({m \in before : m < Aux(e).packet} \cup {creator.nodes[e].root["AllEvent"]})

ClosedPasses ==
    {m \in NodesOf("RenderMarker") : \E k \in NodesOf("RenderMarker") :
        /\ k > m
        /\ Max({s \in NodesOf("Submit") : s < k}) < m}

EventRangesExact ==
    /\ \A e \in NodesOf("Event") :
          PacketsIn(e, "AllEvent") =
              {n \in NodesOf("Packet") : Boundary(e) < n /\ n <= Aux(e).packet}
    /\ \A m \in ClosedPasses :
          LET next == Min({k \in NodesOf("RenderMarker") : k > m})
              below == Range(creator.nodes[m].kids["AllEvent"])
          IN  /\ PacketsIn(m, "AllEvent") =
                    {n \in NodesOf("Packet") : Aux(m).packet <= n /\ n < Aux(next).packet}
              /\ \A e \in below : PacketsIn(e, "AllEvent") \subseteq PacketsIn(m, "AllEvent")

(* A packet of a called IB hangs below the packet that called it; one of a draw
   state's IB below the group of that packet with the IB's address; one of a
   bin's or a draw table's IB below a field node of its own, under the packet
   that started the bins or the table.  OnPacket keeps only the last packet of
   each kind, so this is said of an IB that was entered before another packet of
   its caller's kind was emulated, in the IBs of the same caller that went before
   it.  (The IBs of the ring are another matter: m_cur_ib_packet_node_index
   survives the IB it was set in.) *)
Caller(i) ==
    LET insts(n) == Aux(n).insts
    IN  Max({n \in NodesOf("Packet") :
                /\ n < IbNode(i)
                /\ \E m \in InsideOf(i) : \E k \in 2 .. Len(insts(m)) :
                        insts(m)[k] = i /\ insts(n) = SubSeq(insts(m), 1, k - 1)})

KindOf(type) ==
    CASE type = "DrawState"                  -> {"drawState"}
      [] type \in {"BinPrefix", "BinCommon"} -> {"startBin", "endBin"}
      [] type = "FixedStrideDrawTable"       -> {"drawTable"}
      [] OTHER                               -> {}

Superseded(i) ==
    \E m \in NodesOf("Packet") : /\ Caller(i) < m /\ m < IbNode(i)
                                 /\ Aux(m).op \in KindOf(Aux(IbNode(i)).type)

SharedParents ==
    ~emu.chained => \A n \in NodesOf("Packet") :
        Len(Aux(n).insts) >= 2 /\ ~Superseded(Last(Aux(n).insts)) =>
            LET i       == Last(Aux(n).insts)
                fields  == Range(creator.nodes[Caller(i)].kids["Submit"])
                parents == SharedParentOf(n, "Submit")
                ib      == Aux(IbNode(i))
            IN  CASE ib.type \in {"Call", "ContextSwitch"} -> parents = {Caller(i)}
                  [] ib.type = "DrawState" ->
                        \E f \in fields : parents = {f} /\ Aux(f).addr = ib.addr
                  [] OTHER ->
                        \E f \in fields : /\ parents = {f}
                                           /\ \A m \in NodesOf("Packet") \ InsideOf(i) :
                                                SharedParentOf(m, "Submit") # {f}
=============================================================================
