------------------------ MODULE SharedParents_proofs ------------------------
(***************************************************************************)
(* Where the hierarchy creator attaches the packets: every packet of a     *)
(* nested IB hangs where OnIbStart and OnPacket should put it, for any     *)
(* captures and any nesting of calls, bins, draw tables and draw states,   *)
(* as long as no chain is followed.                                        *)
(***************************************************************************)
EXTENDS CommandHierarchy_proofs, WellFoundedInduction

-----------------------------------------------------------------------------
(* What QueueIB and LiveGroups keep of a sequence is a fold, a recursive
   function on sets of indices.  Both keep the elements with an index in K; by
   induction on the size of the sets, as a least counterexample, what they
   return is a sequence of such elements. *)

LEMMA LeastNumber ==
    ASSUME NEW T \in SUBSET Nat, T # {}
    PROVE  \E m \in T : \A n \in T : m <= n
<1>1. PICK m \in T : \A n \in T : ~(<<n, m>> \in OpToRel(<, Nat))
  BY WFMin, NatLessThanWellFounded
<1>2. \A n \in T : ~(n < m)
  BY <1>1 DEF OpToRel
<1>. QED
  BY <1>2

LEMMA GreatestIndex ==
    ASSUME NEW n \in Nat, NEW S \in SUBSET (1 .. n), S # {}
    PROVE  Max(S) \in S
<1>. DEFINE T == {i \in Nat : \E x \in S : i = n - x}
<1>1. T \in SUBSET Nat /\ T # {}
  <2>1. PICK x \in S : TRUE
    OBVIOUS
  <2>2. n - x \in T
    BY <2>1
  <2>. QED
    BY <2>2
<1>2. PICK m \in T : \A i \in T : m <= i
  <2>. HIDE DEF T
  <2>. QED
    BY <1>1, LeastNumber
<1>3. PICK x \in S : m = n - x
  BY <1>2
<1>4. \A y \in S : x >= y
  <2>. SUFFICES ASSUME NEW y \in S PROVE x >= y
    OBVIOUS
  <2>1. n - y \in T
    OBVIOUS
  <2>2. n - x <= n - y
    BY <1>2, <1>3, <2>1
  <2>. QED
    BY <2>2
<1>. QED
  BY <1>3, <1>4 DEF Max

FilterStep(f, u, K, S) ==
    IF S = {} THEN <<>>
    ELSE IF Max(S) \in K THEN Append(f[S \ {Max(S)}], u[Max(S)])
    ELSE f[S \ {Max(S)}]

Filters(f, u, K, family) == \A S \in family : f[S] = FilterStep(f, u, K, S)

Filter(u, K) == CHOOSE f : f = [S \in SUBSET DOMAIN u |-> FilterStep(f, u, K, S)]

Small(u, n) == {S \in SUBSET DOMAIN u : Cardinality(S) <= n}

LEMMA SetsOfIndices ==
    ASSUME NEW u, IsSeq(u)
    PROVE  /\ Cardinality(DOMAIN u) \in Nat
           /\ \A S \in SUBSET DOMAIN u :
                /\ Cardinality(S) \in Nat
                /\ Cardinality(S) <= Cardinality(DOMAIN u)
                /\ Cardinality(S) = 0 <=> S = {}
                /\ S # {} => /\ Max(S) \in S
                             /\ S \ {Max(S)} \in SUBSET DOMAIN u
                             /\ Cardinality(S \ {Max(S)}) = Cardinality(S) - 1
<1>1. Len(u) \in Nat /\ DOMAIN u = 1 .. Len(u)
  BY SeqFacts
<1>2. IsFiniteSet(DOMAIN u)
  BY <1>1, FS_Interval
<1>3. ASSUME NEW S \in SUBSET DOMAIN u
      PROVE  /\ Cardinality(S) \in Nat
             /\ Cardinality(S) <= Cardinality(DOMAIN u)
             /\ Cardinality(S) = 0 <=> S = {}
             /\ S # {} => /\ Max(S) \in S
                          /\ S \ {Max(S)} \in SUBSET DOMAIN u
                          /\ Cardinality(S \ {Max(S)}) = Cardinality(S) - 1
  <2>1. IsFiniteSet(S) /\ Cardinality(S) <= Cardinality(DOMAIN u)
    BY <1>2, FS_Subset
  <2>2. Cardinality(S) \in Nat /\ (Cardinality(S) = 0 <=> S = {})
    BY <2>1, FS_CardinalityType, FS_EmptySet
  <2>3. ASSUME S # {}
        PROVE  Max(S) \in S /\ Cardinality(S \ {Max(S)}) = Cardinality(S) - 1
    <3>1. Max(S) \in S
      BY <1>1, <2>3, GreatestIndex
    <3>. QED
      BY <2>1, <3>1, FS_RemoveElement
  <2>. QED
    BY <2>1, <2>2, <2>3
<1>4. Cardinality(DOMAIN u) \in Nat
  BY <1>2, FS_CardinalityType
<1>. QED
  BY <1>3, <1>4

(* The elements that are kept. *)
Retained(u, K) == {u[i] : i \in DOMAIN u \cap K}

LEMMA FilterSolved ==
    ASSUME NEW u, IsSeq(u), NEW K, NEW size \in Nat
    PROVE  \E f \in [Small(u, size) -> Seq(Retained(u, K))] : Filters(f, u, K, Small(u, size))
<1>. DEFINE X == Retained(u, K)
            Solved(n) == \E f \in [Small(u, n) -> Seq(X)] : Filters(f, u, K, Small(u, n))
            Bad == {n \in Nat : ~Solved(n)}
<1>. HIDE DEF X
<1>. SUFFICES ASSUME Bad # {} PROVE FALSE
  BY DEF X
<1>1. PICK m \in Bad : \A n \in Bad : m <= n
  BY LeastNumber
<1>2. m \in Nat /\ ~Solved(m)
  OBVIOUS
<1>3. CASE m = 0
  <2>1. ASSUME NEW S \in Small(u, 0) PROVE S = {}
    <3>1. S \in SUBSET DOMAIN u /\ Cardinality(S) <= 0
      BY DEF Small
    <3>2. Cardinality(S) \in Nat /\ (Cardinality(S) = 0 <=> S = {})
      BY <3>1, SetsOfIndices
    <3>. QED
      BY <3>1, <3>2
  <2>. DEFINE f == [S \in Small(u, 0) |-> <<>>]
  <2>2. f \in [Small(u, 0) -> Seq(X)] /\ Filters(f, u, K, Small(u, 0))
    BY <2>1 DEF Filters, FilterStep
  <2>. QED
    BY <1>2, <1>3, <2>2
<1>4. CASE m # 0
  <2>1. m - 1 \in Nat /\ m - 1 \notin Bad
    BY <1>1, <1>4
  <2>2. Solved(m - 1)
    BY <2>1
  <2>3. PICK f \in [Small(u, m - 1) -> Seq(X)] : Filters(f, u, K, Small(u, m - 1))
    BY <2>2
  <2>. DEFINE g == [S \in Small(u, m) |-> FilterStep(f, u, K, S)]
  <2>4. ASSUME NEW S \in Small(u, m), S # {}
        PROVE  /\ S \ {Max(S)} \in Small(u, m - 1)
               /\ S \ {Max(S)} \in Small(u, m)
               /\ Max(S) \in DOMAIN u
    <3>1. S \in SUBSET DOMAIN u /\ Cardinality(S) <= m
      BY DEF Small
    <3>2. /\ Cardinality(S) \in Nat /\ Max(S) \in S
          /\ S \ {Max(S)} \in SUBSET DOMAIN u
          /\ Cardinality(S \ {Max(S)}) = Cardinality(S) - 1
      BY <2>4, <3>1, SetsOfIndices
    <3>3. Cardinality(S \ {Max(S)}) <= m - 1 /\ Cardinality(S \ {Max(S)}) <= m
      BY <1>2, <3>1, <3>2
    <3>. QED
      BY <3>1, <3>2, <3>3 DEF Small
  <2>5. g \in [Small(u, m) -> Seq(X)]
    <3>. SUFFICES ASSUME NEW S \in Small(u, m) PROVE FilterStep(f, u, K, S) \in Seq(X)
      OBVIOUS
    <3>1. CASE S = {}
      BY <3>1 DEF FilterStep
    <3>2. CASE S # {}
      <4>1. f[S \ {Max(S)}] \in Seq(X)
        BY <2>4, <3>2
      <4>2. Max(S) \in K => u[Max(S)] \in X
        BY <2>4, <3>2 DEF X, Retained
      <4>3. Max(S) \in K => Append(f[S \ {Max(S)}], u[Max(S)]) \in Seq(X)
        BY <4>1, <4>2
      <4>. QED
        BY <3>2, <4>1, <4>3 DEF FilterStep
    <3>. QED
      BY <3>1, <3>2
  <2>6. \A S \in Small(u, m - 1) : g[S] = f[S]
    <3>. SUFFICES ASSUME NEW S \in Small(u, m - 1) PROVE g[S] = f[S]
      OBVIOUS
    <3>1. S \in SUBSET DOMAIN u /\ Cardinality(S) <= m - 1
      BY DEF Small
    <3>2. Cardinality(S) \in Nat
      BY <3>1, SetsOfIndices
    <3>3. Cardinality(S) <= m
      BY <1>2, <3>1, <3>2
    <3>4. S \in Small(u, m)
      BY <3>1, <3>3 DEF Small
    <3>. QED
      BY <2>3, <3>4 DEF Filters
  <2>7. Filters(g, u, K, Small(u, m))
    <3>. SUFFICES ASSUME NEW S \in Small(u, m) PROVE g[S] = FilterStep(g, u, K, S)
      BY DEF Filters
    <3>1. S # {} => g[S \ {Max(S)}] = f[S \ {Max(S)}]
      BY <2>4, <2>6
    <3>2. g[S] = FilterStep(f, u, K, S)
      OBVIOUS
    <3>. HIDE DEF g
    <3>. QED
      BY <3>1, <3>2 DEF FilterStep
  <2>. QED
    BY <1>2, <2>5, <2>7
<1>. QED
  BY <1>3, <1>4

LEMMA FilterSolves ==
    ASSUME NEW u, IsSeq(u), NEW K
    PROVE  Filters(Filter(u, K), u, K, SUBSET DOMAIN u)
<1>. DEFINE all == SUBSET DOMAIN u
            size == Cardinality(DOMAIN u)
            X == Retained(u, K)
<1>. HIDE DEF X
<1>1. size \in Nat /\ \A S \in all : Cardinality(S) <= size
  BY SetsOfIndices
<1>2. Small(u, size) = all
  BY <1>1 DEF Small
<1>3. PICK f \in [all -> Seq(X)] : Filters(f, u, K, all)
  <2>1. \E f \in [Small(u, size) -> Seq(X)] : Filters(f, u, K, Small(u, size))
    BY <1>1, FilterSolved DEF X
  <2>. QED
    BY <1>2, <2>1
<1>4. f = [S \in all |-> FilterStep(f, u, K, S)]
  BY <1>3 DEF Filters
<1>5. Filter(u, K) = [S \in all |-> FilterStep(Filter(u, K), u, K, S)]
  BY <1>4 DEF Filter
<1>. QED
  BY <1>5 DEF Filters

LEMMA FilterKeeps ==
    ASSUME NEW u, IsSeq(u), NEW K
    PROVE  Filter(u, K)[DOMAIN u] \in Seq(Retained(u, K))
<1>. DEFINE f == Filter(u, K)
            X == Retained(u, K)
            Bad == {n \in Nat : \E S \in SUBSET DOMAIN u : Cardinality(S) = n /\ f[S] \notin Seq(X)}
<1>0. \A S \in SUBSET DOMAIN u : f[S] = FilterStep(f, u, K, S)
  BY FilterSolves DEF Filters
<1>. HIDE DEF f, X
<1>1. CASE Bad # {}
  <2>1. PICK m \in Bad : \A n \in Bad : m <= n
    BY <1>1, LeastNumber
  <2>2. PICK S \in SUBSET DOMAIN u : Cardinality(S) = m /\ f[S] \notin Seq(X)
    BY <2>1
  <2>3. f[S] = FilterStep(f, u, K, S)
    BY <1>0
  <2>4. S # {}
    <3>1. <<>> \in Seq(X)
      OBVIOUS
    <3>. QED
      BY <2>2, <2>3, <3>1 DEF FilterStep
  <2>5. /\ Max(S) \in DOMAIN u /\ m \in Nat
        /\ S \ {Max(S)} \in SUBSET DOMAIN u
        /\ Cardinality(S \ {Max(S)}) = m - 1 /\ m - 1 \in Nat
    BY <2>2, <2>4, SetsOfIndices
  <2>6. m - 1 \notin Bad
    BY <2>1, <2>5
  <2>7. f[S \ {Max(S)}] \in Seq(X)
    BY <2>5, <2>6
  <2>8. Max(S) \in K => u[Max(S)] \in X
    BY <2>5 DEF X, Retained
  <2>9. Max(S) \in K => Append(f[S \ {Max(S)}], u[Max(S)]) \in Seq(X)
    BY <2>7, <2>8
  <2>. QED
    BY <2>2, <2>3, <2>4, <2>7, <2>9 DEF FilterStep
<1>2. CASE Bad = {}
  <2>1. Cardinality(DOMAIN u) \in Nat
    BY SetsOfIndices
  <2>2. f[DOMAIN u] \in Seq(X)
    BY <1>2, <2>1
  <2>. QED
    BY <2>2 DEF f, X
<1>. QED
  BY <1>1, <1>2

(* u holds only elements of s. *)
Picked(u, s) == IsSeq(u) /\ \A i \in 1 .. Len(u) : \E j \in 1 .. Len(s) : u[i] = s[j]

LEMMA FilterPicks ==
    ASSUME NEW u, IsSeq(u), NEW K, NEW v, v = Filter(u, K)[DOMAIN u]
    PROVE  /\ IsSeq(v)
           /\ \A i \in 1 .. Len(v) : \E j \in 1 .. Len(u) : j \in K /\ v[i] = u[j]
<1>1. v \in Seq(Retained(u, K)) /\ DOMAIN u = 1 .. Len(u)
  BY FilterKeeps, SeqFacts
<1>2. IsSeq(v)
  BY <1>1, TypedSeq
<1>3. \A i \in 1 .. Len(v) : v[i] \in Retained(u, K)
  BY <1>1
<1>. QED
  BY <1>1, <1>2, <1>3 DEF Retained

LEMMA NonEmptyIs ==
    ASSUME NEW u, IsSeq(u)
    PROVE  NonEmpty(u) = Filter(u, {i \in DOMAIN u : u[i].ib.size # 0})[DOMAIN u]
<1>. DEFINE K == {i \in DOMAIN u : u[i].ib.size # 0}
            Step(f, S) == IF S = {} THEN <<>>
                          ELSE IF u[Max(S)].ib.size = 0 THEN f[S \ {Max(S)}]
                          ELSE Append(f[S \ {Max(S)}], u[Max(S)])
            F == CHOOSE f : f = [S \in SUBSET DOMAIN u |-> Step(f, S)]
<1>1. NonEmpty(u) = F[DOMAIN u]
  BY SMT DEF NonEmpty, FoldLeft, MapThenFoldSet
<1>2. \A f : \A S \in SUBSET DOMAIN u : Step(f, S) = FilterStep(f, u, K, S)
  <2>. SUFFICES ASSUME NEW f, NEW S \in SUBSET DOMAIN u PROVE Step(f, S) = FilterStep(f, u, K, S)
    OBVIOUS
  <2>1. S # {} => Max(S) \in DOMAIN u
    BY SetsOfIndices
  <2>2. S # {} => (Max(S) \in K <=> u[Max(S)].ib.size # 0)
    BY <2>1
  <2>. QED
    BY <2>2 DEF FilterStep
<1>. HIDE DEF K, Step
<1>3. \A f : [S \in SUBSET DOMAIN u |-> Step(f, S)] = [S \in SUBSET DOMAIN u |-> FilterStep(f, u, K, S)]
  BY <1>2
<1>4. F = Filter(u, K)
  BY <1>3, Zenon DEF Filter
<1>. QED
  BY <1>1, <1>4 DEF K

LEMMA NonEmptyPicks ==
    ASSUME NEW u, IsSeq(u)
    PROVE  Picked(NonEmpty(u), u)
<1>. DEFINE K == {i \in DOMAIN u : u[i].ib.size # 0}
<1>1. NonEmpty(u) = Filter(u, K)[DOMAIN u]
  BY NonEmptyIs
<1>. HIDE DEF K
<1>. QED
  BY <1>1, FilterPicks DEF Picked

LEMMA NonEmptyOne ==
    ASSUME NEW e
    PROVE  NonEmpty(<<e>>) = IF e.ib.size = 0 THEN <<>> ELSE <<e>>
<1>. DEFINE u == <<e>>
            K == {i \in DOMAIN u : u[i].ib.size # 0}
            f == Filter(u, K)
<1>1. IsSeq(u) /\ DOMAIN u = {1} /\ u[1] = e /\ Len(u) = 1
  <2>1. u \in Seq({e}) /\ Len(u) = 1 /\ DOMAIN u = {1}
    OBVIOUS
  <2>. QED
    BY <2>1, TypedSeq
<1>2. NonEmpty(u) = f[{1}]
  BY <1>1, NonEmptyIs
<1>3. 1 \in K <=> e.ib.size # 0
  BY <1>1
<1>. HIDE DEF u, K
<1>4. /\ f[{1}] = FilterStep(f, u, K, {1})
      /\ f[{}] = FilterStep(f, u, K, {})
  BY <1>1, FilterSolves DEF Filters
<1>5. Max({1}) = 1 /\ {1} \ {1} = {}
  BY <1>1, SetsOfIndices
<1>6. f[{}] = <<>>
  BY <1>4 DEF FilterStep
<1>7. f[{1}] = IF 1 \in K THEN Append(f[{}], u[1]) ELSE f[{}]
  BY <1>4, <1>5 DEF FilterStep
<1>8. Append(<<>>, e) = <<e>>
  OBVIOUS
<1>9. NonEmpty(u) = IF e.ib.size = 0 THEN <<>> ELSE <<e>>
  BY <1>1, <1>2, <1>3, <1>6, <1>7, <1>8
<1>. QED
  BY <1>9 DEF u

LEMMA FoldedLive ==
    ASSUME NEW u, IsSeq(u)
    PROVE  Picked(FoldLeft(LAMBDA live, g : IF g.disable THEN live ELSE Append(live, g), <<>>, u), u)
<1>. DEFINE v == FoldLeft(LAMBDA live, g : IF g.disable THEN live ELSE Append(live, g), <<>>, u)
            K == {i \in DOMAIN u : ~u[i].disable}
            Step(f, S) == IF S = {} THEN <<>>
                          ELSE IF u[Max(S)].disable THEN f[S \ {Max(S)}]
                          ELSE Append(f[S \ {Max(S)}], u[Max(S)])
            F == CHOOSE f : f = [S \in SUBSET DOMAIN u |-> Step(f, S)]
<1>1. v = F[DOMAIN u]
  BY SMT DEF FoldLeft, MapThenFoldSet
<1>2. \A f : \A S \in SUBSET DOMAIN u : Step(f, S) = FilterStep(f, u, K, S)
  <2>. SUFFICES ASSUME NEW f, NEW S \in SUBSET DOMAIN u PROVE Step(f, S) = FilterStep(f, u, K, S)
    OBVIOUS
  <2>1. S # {} => Max(S) \in DOMAIN u
    BY SetsOfIndices
  <2>2. S # {} => (Max(S) \in K <=> ~u[Max(S)].disable)
    BY <2>1
  <2>. QED
    BY <2>2 DEF FilterStep
<1>. HIDE DEF K, Step
<1>3. \A f : [S \in SUBSET DOMAIN u |-> Step(f, S)] = [S \in SUBSET DOMAIN u |-> FilterStep(f, u, K, S)]
  BY <1>2
<1>4. F = Filter(u, K)
  BY <1>3, Zenon DEF Filter
<1>5. v = Filter(u, K)[DOMAIN u]
  BY <1>1, <1>4
<1>6. Picked(v, u)
  <2>. HIDE DEF v
  <2>. QED
    BY <1>5, FilterPicks DEF Picked
<1>. QED
  BY <1>6

LEMMA LiveGroupsPicked ==
    ASSUME NEW groups, IsSeq(groups)
    PROVE  Picked(LiveGroups(groups), groups)
<1>. DEFINE D == {i \in DOMAIN groups : groups[i].disableAll}
            First(i) == groups[i].disableAll /\ \A j \in 1 .. i - 1 : ~groups[j].disableAll
            last == IF \E i \in DOMAIN groups : groups[i].disableAll
                    THEN (CHOOSE i \in DOMAIN groups : First(i)) - 1
                    ELSE Len(groups)
            u == SubSeq(groups, 1, last)
<1>1. Len(groups) \in Nat /\ DOMAIN groups = 1 .. Len(groups)
  BY SeqFacts
<1>2. last \in 0 .. Len(groups)
  <2>1. CASE \E i \in DOMAIN groups : groups[i].disableAll
    <3>1. D \in SUBSET Nat /\ D # {}
      BY <1>1, <2>1
    <3>2. PICK m \in D : \A n \in D : m <= n
      <4>. HIDE DEF D
      <4>. QED
        BY <3>1, LeastNumber
    <3>3. m \in DOMAIN groups /\ First(m)
      <4>1. m \in DOMAIN groups /\ groups[m].disableAll
        BY <3>2
      <4>2. ASSUME NEW j \in 1 .. m - 1 PROVE ~groups[j].disableAll
        <5>1. j \in DOMAIN groups /\ ~(m <= j)
          BY <1>1, <4>1
        <5>. QED
          BY <3>2, <5>1
      <4>. QED
        BY <4>1, <4>2
    <3>. HIDE DEF First
    <3>4. (CHOOSE i \in DOMAIN groups : First(i)) \in 1 .. Len(groups)
      BY <1>1, <3>3
    <3>. QED
      BY <1>1, <2>1, <3>4
  <2>2. CASE ~\E i \in DOMAIN groups : groups[i].disableAll
    BY <1>1, <2>2
  <2>. QED
    BY <2>1, <2>2
<1>3. LiveGroups(groups) =
        FoldLeft(LAMBDA live, g : IF g.disable THEN live ELSE Append(live, g), <<>>, u)
  BY Zenon DEF LiveGroups
<1>. HIDE DEF last
<1>4. IsSeq(u) /\ Len(u) = last /\ \A i \in 1 .. last : u[i] = groups[i]
  BY <1>2, PrefixSeq
<1>. HIDE DEF u
<1>5. Picked(LiveGroups(groups), u)
  BY <1>3, <1>4, FoldedLive
<1>6. \A j \in 1 .. Len(u) : \E i \in 1 .. Len(groups) : u[j] = groups[i]
  BY <1>1, <1>2, <1>4
<1>. QED
  BY <1>5, <1>6 DEF Picked

-----------------------------------------------------------------------------
(* What a packet queues, and what is left of a level's queue. *)

CallTypes   == {"Call", "ContextSwitch"}
BinTypes    == {"BinPrefix", "BinCommon", "FixedStrideDrawTable"}
NestedTypes == CallTypes \cup BinTypes \cup {"DrawState"}
SoleTypes   == CallTypes \cup {"Chain"}

Issued(p, e) ==
    \/ p.op = "call" /\ e.type = "Call"
    \/ p.op = "chain" /\ e.type = "Chain"
    \/ p.op = "amble" /\ e.type = "ContextSwitch"
    \/ p.op = "drawState" /\ e.type = "DrawState" /\ \E g \in 1 .. Len(p.groups) : e.ib = p.groups[g].ib
    \/ p.op = "startBin" /\ e.type \in {"BinPrefix", "BinCommon"}
    \/ p.op = "drawTable" /\ e.type = "FixedStrideDrawTable"

SolePackets == {"call", "chain", "amble"}

LEMMA NoElements ==
    ASSUME NEW s, IsSeq(s), Len(s) = 0
    PROVE  s = <<>>
BY DEF IsSeq

LEMMA QueuedIssued ==
    ASSUME NEW p, PacketOk(p), NEW level, NEW add, add = Queued(p, level)
    PROVE  /\ IsSeq(add)
           /\ \A i \in 1 .. Len(add) : Issued(p, add[i])
           /\ p.op \in SolePackets => \E e : add = <<e>> /\ (p.op = "amble" => e.ib = p.ib)
           /\ ~Enters(p) => add = <<>> \/ (p.op = "amble" /\ p.ib.size = 0)
<1>1. CASE p.op \in SolePackets
  <2>1. PICK e : add = <<e>> /\ Issued(p, e) /\ (p.op = "amble" => e.ib = p.ib)
    BY <1>1 DEF SolePackets, Queued, IsIbPacket, PendingOfIb, PendingOfAmble, Pending, Issued
  <2>2. <<e>> \in Seq({e}) /\ Len(<<e>>) = 1 /\ <<e>>[1] = e
    OBVIOUS
  <2>3. IsSeq(add) /\ \A i \in 1 .. Len(add) : Issued(p, add[i])
    <3>1. IsSeq(<<e>>)
      BY <2>2, TypedSeq
    <3>2. \A i \in 1 .. Len(add) : i = 1
      BY <2>1, <2>2
    <3>. QED
      BY <2>1, <2>2, <3>1, <3>2
  <2>. QED
    BY <1>1, <2>1, <2>3 DEF Enters, IsIbPacket, SolePackets
<1>2. CASE p.op = "drawState"
  <2>. DEFINE live == LiveGroups(p.groups)
  <2>1. add = [i \in DOMAIN live |-> Pending(live[i].ib, FALSE, "DrawState", live[i].mask)]
    BY <1>2 DEF Queued, IsIbPacket, PendingOfDrawState
  <2>2. Picked(live, p.groups)
    BY <1>2, LiveGroupsPicked DEF PacketOk
  <2>3. live = <<>> \/ Enters(p)
    BY <1>2 DEF Enters
  <2>. HIDE DEF live
  <2>4. Len(live) \in Nat /\ DOMAIN live = 1 .. Len(live)
    BY <2>2, SeqFacts DEF Picked
  <2>5. IsSeq(add) /\ Len(add) = Len(live)
    BY <2>1, <2>4, SeqIntro
  <2>6. \A i \in 1 .. Len(add) : Issued(p, add[i])
    <3>. SUFFICES ASSUME NEW i \in 1 .. Len(add) PROVE Issued(p, add[i])
      OBVIOUS
    <3>1. add[i].ib = live[i].ib /\ add[i].type = "DrawState"
      BY <2>1, <2>4, <2>5 DEF Pending
    <3>2. \E g \in 1 .. Len(p.groups) : live[i] = p.groups[g]
      BY <2>2, <2>5 DEF Picked
    <3>. QED
      BY <1>2, <3>1, <3>2 DEF Issued
  <2>7. ~Enters(p) => add = <<>>
    <3>1. live = <<>> => Len(add) = 0
      BY <2>5, EmptySequence
    <3>. QED
      BY <2>3, <2>5, <3>1, NoElements
  <2>8. p.op \notin SolePackets
    BY <1>2 DEF SolePackets
  <2>. QED
    BY <2>5, <2>6, <2>7, <2>8
<1>3. CASE p.op = "startBin"
  <2>. DEFINE n == 2 * p.count
  <2>1. p.count \in Nat
    BY <1>3 DEF PacketOk
  <2>2. n \in Nat
    BY <2>1
  <2>3. add = [i \in 1 .. n |-> add[i]]
    BY <1>3 DEF Queued, IsIbPacket, PendingOfBins
  <2>4. \A i \in 1 .. n : add[i].type \in {"BinPrefix", "BinCommon"}
    BY <1>3 DEF Queued, IsIbPacket, PendingOfBins, Pending
  <2>. HIDE DEF n
  <2>5. IsSeq(add) /\ Len(add) = n
    BY <2>2, <2>3, SeqIntro
  <2>. QED
    BY <1>3, <2>4, <2>5 DEF Issued, SolePackets, Enters
<1>4. CASE p.op = "drawTable"
  <2>1. p.count \in Nat
    BY <1>4 DEF PacketOk
  <2>2. add = [i \in 1 .. p.count |-> add[i]]
    BY <1>4 DEF Queued, IsIbPacket, PendingOfDrawTable
  <2>3. \A i \in 1 .. p.count : add[i].type = "FixedStrideDrawTable"
    BY <1>4 DEF Queued, IsIbPacket, PendingOfDrawTable, Pending
  <2>4. IsSeq(add) /\ Len(add) = p.count
    BY <2>1, <2>2, SeqIntro
  <2>. QED
    BY <1>4, <2>3, <2>4 DEF Issued, SolePackets, Enters
<1>5. CASE p.op \notin SolePackets \cup {"drawState", "startBin", "drawTable"}
  <2>1. add = <<>>
    BY <1>5 DEF Queued, IsIbPacket, SolePackets
  <2>2. IsSeq(add) /\ \A i \in 1 .. Len(add) : FALSE
    BY <2>1, EmptySequence
  <2>3. p.op \notin SolePackets
    BY <1>5
  <2>. QED
    BY <2>1, <2>2, <2>3
<1>. QED
  BY <1>1, <1>2, <1>3, <1>4, <1>5

(* What is left of a queue was issued by the packet; a call is alone in it. *)
Left(p, level) ==
    \A j \in 1 .. Len(level.queue) : j >= level.next =>
        /\ Issued(p, level.queue[j])
        /\ level.queue[j].type \in SoleTypes => Len(level.queue) = 1

Drained(level) == level.next > Len(level.queue)

(* A sequence with an element and no two has one. *)
LEMMA OneOnly == ASSUME NEW n \in Nat, NEW j \in 1 .. n, n <= 1 PROVE n = 1
OBVIOUS

LEMMA PacketQueue ==
    ASSUME NEW p, PacketOk(p), NEW level, DOMAIN level = LevelFields, IsSeq(level.queue),
           level.next \in Nat \ {0}, Drained(level),
           NEW d, d = QueueIB(Prepared(p, level), Queued(p, level))
    PROVE  /\ IsSeq(d.queue) /\ d.next \in Nat \ {0} /\ Left(p, d)
           /\ ~Enters(p) => Drained(d)
<1>. DEFINE add == Queued(p, level)
            v == NonEmpty(add)
            fresh == p.op \in {"call", "chain", "drawState"} \/ (p.op = "amble" /\ p.ib.size # 0)
<1>1. /\ IsSeq(add)
      /\ \A i \in 1 .. Len(add) : Issued(p, add[i])
      /\ p.op \in SolePackets => \E e : add = <<e>> /\ (p.op = "amble" => e.ib = p.ib)
      /\ ~Enters(p) => add = <<>> \/ (p.op = "amble" /\ p.ib.size = 0)
  BY QueuedIssued
<1>2. /\ fresh => d.queue = <<>> \o v /\ d.next = 1
      /\ ~fresh => d.queue = level.queue \o v /\ d.next = level.next
  BY DEF QueueIB, Prepared, AdvancePacket, RestartQueue, LevelFields
<1>. HIDE DEF add
<1>3. Picked(v, add)
  BY <1>1, NonEmptyPicks
<1>4. p.op \in SolePackets => Len(v) <= 1 /\ (~fresh => Len(v) = 0)
  <2>. SUFFICES ASSUME p.op \in SolePackets PROVE Len(v) <= 1 /\ (~fresh => Len(v) = 0)
    OBVIOUS
  <2>1. PICK e : add = <<e>> /\ (p.op = "amble" => e.ib = p.ib)
    BY <1>1
  <2>2. v = IF e.ib.size = 0 THEN <<>> ELSE <<e>>
    BY <2>1, NonEmptyOne
  <2>3. Len(<<e>>) = 1 /\ Len(<<>>) = 0
    OBVIOUS
  <2>4. Len(v) <= 1
    BY <2>2, <2>3
  <2>5. ~fresh => Len(v) = 0
    <3>1. ~fresh => e.ib.size = 0
      BY <2>1 DEF SolePackets
    <3>. QED
      BY <2>2, <2>3, <3>1
  <2>. QED
    BY <2>4, <2>5
<1>5. ~Enters(p) => Len(v) = 0
  <2>1. add = <<>> => Len(v) = 0
    <3>. SUFFICES ASSUME add = <<>> PROVE Len(v) = 0
      OBVIOUS
    <3>1. Len(v) \in Nat /\ Len(add) = 0
      BY <1>3, SeqFacts, EmptySequence DEF Picked
    <3>2. ~(1 \in 1 .. Len(v))
      BY <1>3, <3>1 DEF Picked
    <3>. QED
      BY <3>1, <3>2
  <2>2. p.op = "amble" /\ p.ib.size = 0 => Len(v) = 0
    BY <1>4 DEF SolePackets
  <2>. QED
    BY <1>1, <2>1, <2>2
<1>6. \A i \in 1 .. Len(v) : Issued(p, v[i])
  BY <1>1, <1>3 DEF Picked
<1>7. Len(v) \in Nat /\ IsSeq(v)
  BY <1>3, SeqFacts DEF Picked
<1>8. \A e : Issued(p, e) /\ e.type \in SoleTypes => p.op \in SolePackets
  BY DEF Issued, SoleTypes, CallTypes, SolePackets
<1>. HIDE DEF v
<1>9. CASE fresh
  <2>1. d.queue = <<>> \o v /\ d.next = 1
    BY <1>2, <1>9
  <2>2. /\ IsSeq(d.queue) /\ Len(d.queue) = Len(v)
        /\ \A i \in 1 .. Len(v) : d.queue[i] = v[i]
    <3>1. IsSeq(<<>>) /\ Len(<<>>) = 0
      BY EmptySequence
    <3>2. /\ IsSeq(<<>> \o v) /\ Len(<<>> \o v) = 0 + Len(v)
          /\ \A i \in 1 .. Len(v) : (<<>> \o v)[0 + i] = v[i]
      BY <1>7, <3>1, ConcatSeq
    <3>. QED
      BY <1>7, <2>1, <3>2
  <2>3. Left(p, d)
    <3>. SUFFICES ASSUME NEW j \in 1 .. Len(d.queue)
                  PROVE  Issued(p, d.queue[j]) /\ (d.queue[j].type \in SoleTypes => Len(d.queue) = 1)
      BY DEF Left
    <3>1. Issued(p, d.queue[j])
      BY <1>6, <2>2
    <3>2. d.queue[j].type \in SoleTypes => Len(v) <= 1
      BY <1>4, <1>8, <3>1
    <3>3. Len(v) <= 1 => Len(d.queue) = 1
      <4>1. Len(d.queue) = Len(v) /\ Len(v) \in Nat /\ j \in 1 .. Len(v)
        BY <1>7, <2>2
      <4>. HIDE DEF fresh
      <4>2. Len(v) >= 1
        BY <4>1
      <4>3. Len(v) <= 1 => Len(v) = 1
        BY <4>1, OneOnly
      <4>. QED
        BY <4>1, <4>3, Zenon
    <3>. QED
      BY <3>1, <3>2, <3>3
  <2>. QED
    BY <1>5, <2>1, <2>2, <2>3 DEF Drained
<1>10. CASE ~fresh
  <2>1. d.queue = level.queue \o v /\ d.next = level.next
    BY <1>2, <1>10
  <2>. DEFINE w == level.queue
              m == Len(w)
  <2>2. IsSeq(w) /\ m \in Nat /\ level.next \in Nat \ {0} /\ level.next > m
    BY SeqFacts DEF Drained
  <2>. HIDE DEF w, m
  <2>3. /\ IsSeq(d.queue) /\ Len(d.queue) = m + Len(v)
        /\ \A i \in 1 .. Len(v) : d.queue[m + i] = v[i]
    BY <1>7, <2>1, <2>2, ConcatSeq DEF w, m
  <2>4. Left(p, d)
    <3>. SUFFICES ASSUME NEW j \in 1 .. Len(d.queue), j >= d.next
                  PROVE  Issued(p, d.queue[j]) /\ (d.queue[j].type \in SoleTypes => Len(d.queue) = 1)
      BY DEF Left
    <3>1. j - m \in 1 .. Len(v) /\ j = m + (j - m)
      <4>1. j > m /\ j <= m + Len(v)
        BY <1>7, <2>1, <2>2, <2>3
      <4>. QED
        BY <1>7, <2>2, <4>1
    <3>2. Issued(p, d.queue[j])
      BY <1>6, <2>3, <3>1
    <3>3. p.op \notin SolePackets
      BY <1>4, <1>7, <1>10, <3>1
    <3>. QED
      BY <1>8, <3>2, <3>3
  <2>. QED
    BY <1>5, <2>1, <2>2, <2>3, <2>4 DEF Drained
<1>. QED
  BY <1>9, <1>10

-----------------------------------------------------------------------------
(* Where a packet hangs in the submit topology.  From s to d no node has other
   shared children there, none loses a child, and the new ones share nothing. *)

Hung(r, q) ==
    SharedOf(q, "Submit") = SharedOf(r, "Submit") /\ KidsOf(r, "Submit") \subseteq KidsOf(q, "Submit")

Hangs(s, d) ==
    /\ Extends(s, d)
    /\ \A n \in 1 .. Len(s) : Hung(s[n], d[n])
    /\ \A n \in 1 .. Len(d) : n > Len(s) => SharedOf(d[n], "Submit") = {}

(* What the parents of packets are computed from. *)
PlaceFields == {"ibParents", "groupInfo", "startBin", "drawTable", "ibPacket", "ibLevel"}

SamePlaces(c, d, F) == \A f \in PlaceFields \ F : d[f] = c[f]

Places(c, d, F) == Good(d) /\ Hangs(c.nodes, d.nodes) /\ SamePlaces(c, d, F)

LEMMA HangsTwice ==
    ASSUME NEW r, NEW s, NEW d, IsSeq(r), IsSeq(s), IsSeq(d), Hangs(r, s), Hangs(s, d)
    PROVE  Hangs(r, d)
<1>. DEFINE n == Len(r)
            m == Len(s)
            k == Len(d)
<1>1. Extends(r, d)
  BY ExtendsTwice DEF Hangs
<1>2. n \in Nat /\ m \in Nat /\ k \in Nat /\ n <= m
  BY SeqFacts DEF Hangs, Extends
<1>3. /\ \A i \in 1 .. n : Hung(r[i], s[i])
      /\ \A i \in 1 .. m : Hung(s[i], d[i])
      /\ \A i \in 1 .. m : i > n => SharedOf(s[i], "Submit") = {}
      /\ \A i \in 1 .. k : i > m => SharedOf(d[i], "Submit") = {}
  BY DEF Hangs
<1>. HIDE DEF n, m, k
<1>4. /\ \A i \in 1 .. n : i \in 1 .. m
      /\ \A i \in 1 .. k : i \in 1 .. m \/ i > m
  BY <1>2
<1>5. \A i \in 1 .. n : Hung(r[i], d[i])
  BY <1>3, <1>4 DEF Hung
<1>6. \A i \in 1 .. k : i > n => SharedOf(d[i], "Submit") = {}
  BY <1>3, <1>4 DEF Hung
<1>. QED
  BY <1>1, <1>5, <1>6 DEF Hangs, n, k

LEMMA PlacesTwice ==
    ASSUME NEW F, NEW b, Good(b), NEW c, Places(b, c, F), NEW d, Places(c, d, F)
    PROVE  Places(b, d, F)
<1>1. IsSeq(b.nodes) /\ IsSeq(c.nodes) /\ IsSeq(d.nodes)
  BY GoodNodes DEF Places
<1>2. Hangs(b.nodes, d.nodes)
  BY <1>1, HangsTwice DEF Places
<1>. QED
  BY <1>2 DEF Places, SamePlaces

LEMMA SameHangs ==
    ASSUME NEW s, IsSeq(s)
    PROVE  Hangs(s, s)
<1>. DEFINE n == Len(s)
<1>1. n \in Nat
  BY SeqFacts
<1>2. Extends(s, s) /\ \A i \in 1 .. n : Hung(s[i], s[i])
  BY <1>1 DEF Extends, Hung
<1>3. \A i \in 1 .. n : ~(i > n)
  <2>. HIDE DEF n
  <2>. QED
    BY <1>1
<1>. QED
  BY <1>2, <1>3 DEF Hangs

LEMMA FieldsPlace ==
    ASSUME NEW c, Good(c), NEW d, Good(d), d.nodes = c.nodes, NEW F, SamePlaces(c, d, F)
    PROVE  Places(c, d, F)
BY SameHangs, GoodNodes DEF Places

LEMMA SameButPlaces ==
    ASSUME NEW c, NEW d, NEW F, SameBut(c, d, F), F \cap PlaceFields = {}
    PROVE  SamePlaces(c, d, {})
<1>1. \A f \in PlaceFields : f \in CreatorFields \ F
  BY DEF PlaceFields, CreatorFields
<1>. QED
  BY <1>1 DEF SamePlaces, SameBut

LEMMA HangsAppend ==
    ASSUME NEW s, IsSeq(s), NEW type, NEW aux, NEW d, d = Append(s, Node(type, aux)), Extends(s, d)
    PROVE  Hangs(s, d)
<1>. DEFINE n == Len(s)
            r == Node(type, aux)
<1>1. n \in Nat /\ Len(d) = n + 1 /\ d[n + 1] = r /\ \A i \in 1 .. n : d[i] = s[i]
  BY SeqFacts, AppendSeq
<1>2. SharedOf(r, "Submit") = {}
  BY NewNode DEF Topologies
<1>. HIDE DEF n, r
<1>3. \A i \in 1 .. n + 1 : i > n => i = n + 1
  BY <1>1
<1>4. \A i \in 1 .. n : Hung(s[i], d[i])
  BY <1>1 DEF Hung
<1>5. \A i \in 1 .. Len(d) : i > n => SharedOf(d[i], "Submit") = {}
  BY <1>1, <1>2, <1>3
<1>. QED
  BY <1>4, <1>5 DEF Hangs, n

LEMMA HangsReplace ==
    ASSUME NEW s, NEW n, NEW r, NEW d, Swapped(s, d, n, r), Extends(s, d), Len(d) = Len(s),
           n \in 1 .. Len(s) => Hung(s[n], r)
    PROVE  Hangs(s, d)
<1>. DEFINE N == Len(s)
<1>1. N \in Nat /\ DOMAIN s = 1 .. N
  BY SeqFacts DEF Swapped
<1>2. /\ \A m \in 1 .. N : m # n => d[m] = s[m]
      /\ n \in 1 .. N => d[n] = r
  BY <1>1 DEF Swapped
<1>3. \A m \in 1 .. N : ~(m > N)
  <2>. HIDE DEF N
  <2>. QED
    BY <1>1
<1>4. \A m \in 1 .. N : Hung(s[m], d[m])
  BY <1>2 DEF Hung
<1>. QED
  BY <1>3, <1>4 DEF Hangs

LEMMA AddNodePlaces ==
    ASSUME NEW c, Good(c), NEW type, NEW aux, NEW d, d = AddNode(c, type, aux)
    PROVE  Places(c, d, {})
<1>1. Grows(c, d) /\ NewLast(c.nodes, d.nodes, type, aux)
  BY AddNodeGood
<1>2. d.nodes = Append(c.nodes, Node(type, aux))
  BY DEF AddNode, Good, CreatorFields
<1>3. Hangs(c.nodes, d.nodes)
  BY <1>1, <1>2, GoodNodes, HangsAppend DEF NewLast
<1>4. SamePlaces(c, d, {})
  BY <1>1 DEF Grows, SameBut, SamePlaces, PlaceFields, CreatorFields
<1>. QED
  BY <1>1, <1>3, <1>4 DEF Places, Grows

LEMMA AddChildPlaces ==
    ASSUME NEW c, Good(c), NEW n \in 0 .. Len(c.nodes), NEW t \in Topologies,
           NEW k \in 1 .. Len(c.nodes), n < k, Orphan(c.nodes, k, t), NEW d,
           d = AddChild(c, t, n, k)
    PROVE  /\ Places(c, d, {}) /\ Len(d.nodes) = Len(c.nodes)
           /\ t = "Submit" /\ n \in 1 .. Len(c.nodes) => k \in KidsOf(d.nodes[n], "Submit")
<1>. DEFINE s == c.nodes
            e == d.nodes
            q == Append(s[n].kids[t], k)
            r == [s[n] EXCEPT !.kids = [s[n].kids EXCEPT ![t] = q]]
<1>1. Grows(c, d) /\ Changed(s, e, {t})
  BY AddChildGood
<1>2. e = [s EXCEPT ![n] = r]
  BY DEF AddChild, Good, CreatorFields
<1>3. IsSeq(s) /\ IsSeq(e) /\ DOMAIN s = 1 .. Len(s)
  BY <1>1, GoodNodes DEF Grows
<1>4. ASSUME n \in 1 .. Len(s)
      PROVE  Hung(s[n], r) /\ (t = "Submit" => k \in KidsOf(r, "Submit"))
  <2>1. NodeOk(s[n]) /\ IsSeq(s[n].kids[t])
    BY <1>4 DEF Good, Forest, NodeOk
  <2>2. IsSeq(q) /\ Range(q) = Range(s[n].kids[t]) \cup {k}
    BY <2>1, AppendRange
  <2>. HIDE DEF q
  <2>3. /\ KidsOf(r, t) = Range(q)
        /\ \A u \in Topologies : u # t => KidsOf(r, u) = KidsOf(s[n], u)
        /\ \A u \in Topologies : SharedOf(r, u) = SharedOf(s[n], u)
    BY <2>1, <2>2, NodeWithKids
  <2>. HIDE DEF r
  <2>4. KidsOf(s[n], t) \subseteq KidsOf(r, t) /\ k \in KidsOf(r, t)
    BY <2>2, <2>3 DEF KidsOf
  <2>. QED
    BY <2>3, <2>4 DEF Hung, Topologies
<1>. HIDE DEF r
<1>5. Hangs(s, e) /\ Len(e) = Len(s)
  <2>1. Swapped(s, e, n, r)
    BY <1>2, <1>3 DEF Swapped
  <2>2. Extends(s, e) /\ Len(e) = Len(s)
    BY <1>1 DEF Changed
  <2>. HIDE DEF s, e
  <2>. QED
    BY <1>4, <2>1, <2>2, HangsReplace
<1>6. n \in 1 .. Len(s) => e[n] = r
  BY <1>2, <1>3
<1>7. SamePlaces(c, d, {}) /\ Good(d)
  BY <1>1 DEF Grows, SameBut, SamePlaces, PlaceFields, CreatorFields
<1>. QED
  BY <1>4, <1>5, <1>6, <1>7 DEF Places

(* One more shared child, of the node n in the topology t. *)
Joined(s, d, n, k) ==
    \A m \in 1 .. Len(s) :
        /\ KidsOf(s[m], "Submit") \subseteq KidsOf(d[m], "Submit")
        /\ SharedOf(d[m], "Submit") = SharedOf(s[m], "Submit") \cup (IF m = n THEN {k} ELSE {})

LEMMA AddSharedChildPlaces ==
    ASSUME NEW c, Good(c), NEW n, NEW t \in Topologies, NEW k, HasPacket(c, k), NEW d,
           d = AddSharedChild(c, t, n, k)
    PROVE  /\ Good(d) /\ SameBut(c, d, {"nodes"}) /\ Extends(c.nodes, d.nodes)
           /\ Len(d.nodes) = Len(c.nodes) /\ HasPacket(d, k)
           /\ \A m \in 1 .. Len(c.nodes) : d.nodes[m].kids = c.nodes[m].kids
           /\ t = "AllEvent" => Places(c, d, {})
           /\ t = "Submit" => Joined(c.nodes, d.nodes, n, k)
<1>. DEFINE s == c.nodes
            e == d.nodes
            q == Append(s[n].shared[t], k)
            r == [s[n] EXCEPT !.shared = [s[n].shared EXCEPT ![t] = q]]
<1>1. Grows(c, d) /\ HasPacket(d, k)
  BY AddSharedChildGood, AttachSharedFollows DEF HasPacket
<1>2. e = [s EXCEPT ![n] = r]
  BY DEF AddSharedChild, Good, CreatorFields
<1>3. IsSeq(s) /\ IsSeq(e) /\ DOMAIN s = 1 .. Len(s) /\ DOMAIN e = 1 .. Len(e)
      /\ Len(s) \in Nat /\ Len(e) \in Nat
  BY <1>1, GoodNodes DEF Grows
<1>4. ASSUME n \in 1 .. Len(s)
      PROVE  /\ KidsOf(r, "Submit") = KidsOf(s[n], "Submit") /\ r.kids = s[n].kids
             /\ t = "AllEvent" => SharedOf(r, "Submit") = SharedOf(s[n], "Submit")
             /\ t = "Submit" => SharedOf(r, "Submit") = SharedOf(s[n], "Submit") \cup {k}
  <2>1. NodeOk(s[n]) /\ IsSeq(s[n].shared[t])
    BY <1>4 DEF Good, Forest, NodeOk
  <2>2. IsSeq(q) /\ Range(q) = Range(s[n].shared[t]) \cup {k}
    BY <2>1, AppendRange
  <2>. HIDE DEF q
  <2>3. /\ SharedOf(r, t) = Range(q)
        /\ \A u \in Topologies : u # t => SharedOf(r, u) = SharedOf(s[n], u)
        /\ \A u \in Topologies : KidsOf(r, u) = KidsOf(s[n], u)
    BY <2>1, <2>2, NodeWithShared
  <2>4. r.kids = s[n].kids
    BY <2>1 DEF NodeOk, NodeFields
  <2>. HIDE DEF r
  <2>. QED
    BY <2>2, <2>3, <2>4 DEF SharedOf, Topologies
<1>. HIDE DEF r
<1>5. Extends(s, e) /\ Len(e) = Len(s)
  <2>1. DOMAIN e = DOMAIN s
    BY <1>2
  <2>2. Len(e) = Len(s)
    BY <1>3, <2>1
  <2>. QED
    BY <1>1, <2>2 DEF Grows
<1>6. /\ n \in 1 .. Len(s) => e[n] = r
      /\ \A m \in 1 .. Len(s) : m # n => e[m] = s[m]
  BY <1>2, <1>3
<1>7. SamePlaces(c, d, {}) /\ Good(d) /\ SameBut(c, d, {"nodes"})
  BY <1>1 DEF Grows, SameBut, SamePlaces, PlaceFields, CreatorFields
<1>8. t = "Submit" => Joined(s, e, n, k)
  BY <1>4, <1>6 DEF Joined
<1>9. ASSUME t = "AllEvent" PROVE Hangs(s, e)
  <2>1. Swapped(s, e, n, r)
    BY <1>2, <1>3 DEF Swapped
  <2>2. n \in 1 .. Len(s) => Hung(s[n], r)
    BY <1>4, <1>9 DEF Hung
  <2>. HIDE DEF s, e
  <2>. QED
    BY <1>5, <2>1, <2>2, HangsReplace
<1>10. \A m \in 1 .. Len(s) : e[m].kids = s[m].kids
  BY <1>4, <1>6
<1>. QED
  BY <1>1, <1>5, <1>7, <1>8, <1>9, <1>10 DEF Places

LEMMA SetRangePlaces ==
    ASSUME NEW c, Good(c), NEW t \in Topologies, NEW n \in 1 .. Len(c.nodes), NEW first, NEW last,
           NEW d, d = SetRange(c, t, n, first, last)
    PROVE  Places(c, d, {}) /\ Len(d.nodes) = Len(c.nodes)
<1>. DEFINE s == c.nodes
            e == d.nodes
            r == [s[n] EXCEPT !.start = [s[n].start EXCEPT ![t] = first],
                              !.end = [s[n].end EXCEPT ![t] = last],
                              !.root = [s[n].root EXCEPT ![t] = c.submitNode]]
<1>1. NodeOk(s[n])
  BY DEF Good, Forest
<1>2. e = [s EXCEPT ![n] = r]
  BY <1>1 DEF SetRange, Good, CreatorFields, NodeOk, NodeFields
<1>3. Grows(c, d) /\ Changed(s, e, {})
  BY SetRangeGood
<1>4. r.kids = s[n].kids /\ r.shared = s[n].shared
  BY <1>1 DEF NodeOk, NodeFields
<1>. HIDE DEF r
<1>5. Hangs(s, e) /\ Len(e) = Len(s)
  <2>1. Swapped(s, e, n, r)
    BY <1>2, <1>3, GoodNodes DEF Swapped, Grows
  <2>2. Extends(s, e) /\ Len(e) = Len(s)
    BY <1>3 DEF Changed
  <2>3. Hung(s[n], r)
    BY <1>4 DEF Hung, KidsOf, SharedOf
  <2>. HIDE DEF s, e
  <2>. QED
    BY <2>1, <2>2, <2>3, HangsReplace
<1>6. SamePlaces(c, d, {}) /\ Good(d)
  BY <1>3 DEF Grows, SameBut, SamePlaces, PlaceFields, CreatorFields
<1>. QED
  BY <1>5, <1>6 DEF Places

LEMMA EventPlaces ==
    ASSUME NEW c, Good(c), NEW n, NEW d, d = AddEvent(c, n)
    PROVE  Places(c, d, {})
<1>. DEFINE parent == IF c.renderMarker # NoNode THEN c.renderMarker ELSE c.submitNode
            aux    == [id |-> Len(c.events), packet |-> n]
            added  == AddNode(c, "Event", aux)
            e      == Len(added.nodes)
            starts == c.startStack["AllEvent"]
            ranged == SetRange(added, "AllEvent", e, Last(starts), n)
            child  == AddChild(ranged, "AllEvent", parent, e)
            F      == {}
<1>0. Good(d)
  BY AddEventGood DEF Follows
<1>1. d = [child EXCEPT !.events = Append(@, e), !.newEvent = TRUE,
                        !.startStack["AllEvent"] = Front(starts)]
  BY DEF AddEvent, LastNode
<1>2. parent \in 1 .. Len(c.nodes) \/ parent \in 0 .. Len(c.nodes)
  BY DEF Good, NodesHeld
<1>3. "AllEvent" \in Topologies
  BY DEF Topologies
<1>. HIDE DEF aux, parent, starts
<1>4. /\ Good(added) /\ Places(c, added, F) /\ e = Len(c.nodes) + 1 /\ Len(c.nodes) \in Nat
      /\ Orphan(added.nodes, e, "AllEvent")
  BY <1>3, AddNodeGood, AddNodePlaces DEF Places, NewLast
<1>. HIDE DEF added, F
<1>5. e \in Nat /\ e \in 1 .. e /\ parent \in 0 .. e /\ parent < e
  BY <1>2, <1>4
<1>6. /\ Good(ranged) /\ Places(added, ranged, F) /\ Len(ranged.nodes) = e
      /\ Orphan(ranged.nodes, e, "AllEvent")
  <2>1. Grows(added, ranged) /\ Changed(added.nodes, ranged.nodes, {})
    BY <1>3, <1>4, <1>5, SetRangeGood
  <2>2. Places(added, ranged, F)
    BY <1>3, <1>4, <1>5, SetRangePlaces DEF F
  <2>. QED
    BY <1>3, <1>4, <2>1, <2>2 DEF Grows, Changed
<1>. HIDE DEF ranged, e
<1>7. Good(child) /\ Places(ranged, child, F)
  BY <1>3, <1>5, <1>6, AddChildPlaces DEF Places, F
<1>. HIDE DEF child
<1>8. Places(child, d, F)
  <2>0. DOMAIN child = CreatorFields
    BY <1>7 DEF Good
  <2>1. d.nodes = child.nodes /\ SamePlaces(child, d, F)
    BY <1>1, <2>0 DEF CreatorFields, SamePlaces, PlaceFields
  <2>. QED
    BY <1>0, <1>7, <2>1, FieldsPlace
<1>9. Places(c, ranged, F)
  BY <1>4, <1>6, PlacesTwice
<1>10. Places(c, child, F)
  BY <1>7, <1>9, PlacesTwice
<1>11. Places(c, d, F)
  BY <1>8, <1>10, PlacesTwice
<1>. QED
  BY <1>11 DEF F

LEMMA CloseRenderMarkerPlaces ==
    ASSUME NEW c, Good(c), NEW d, d = CloseRenderMarker(c)
    PROVE  Places(c, d, {})
<1>. DEFINE starts == Front(c.startStack["AllEvent"])
            ranged == SetRange(c, "AllEvent", c.renderMarker, Last(starts), c.lastAdded)
            F      == {}
<1>0. Good(d)
  BY CloseRenderMarkerGood DEF Follows
<1>. HIDE DEF F
<1>1. CASE c.renderMarker = NoNode
  <2>1. d = c
    BY <1>1 DEF CloseRenderMarker
  <2>2. Places(c, d, F)
    BY <2>1, FieldsPlace DEF SamePlaces
  <2>. QED
    BY <2>2 DEF F
<1>2. CASE c.renderMarker # NoNode
  <2>1. d = [ranged EXCEPT !.startStack["AllEvent"] = Front(starts)]
    BY <1>2 DEF CloseRenderMarker
  <2>2. c.renderMarker \in 1 .. Len(c.nodes) /\ "AllEvent" \in Topologies
    BY <1>2 DEF Good, NodesHeld, NoNode, Topologies
  <2>3. Places(c, ranged, F) /\ Good(ranged)
    BY <2>2, SetRangePlaces DEF F, Places
  <2>. HIDE DEF ranged
  <2>4. d.nodes = ranged.nodes /\ SamePlaces(ranged, d, F)
    BY <2>1, <2>3 DEF Good, CreatorFields, SamePlaces, PlaceFields
  <2>5. Places(ranged, d, F)
    BY <1>0, <2>3, <2>4, FieldsPlace
  <2>6. Places(c, d, F)
    BY <2>3, <2>5, PlacesTwice
  <2>. QED
    BY <2>6 DEF F
<1>. QED
  BY <1>1, <1>2

LEMMA RenderMarkerPlaces ==
    ASSUME NEW c, Good(c), NEW kind, NEW n, NEW d, d = AddRenderMarker(c, kind, n)
    PROVE  Places(c, d, {})
<1>. DEFINE closed == CloseRenderMarker(c)
            aux    == [kind |-> kind, packet |-> n]
            added  == AddNode(closed, "RenderMarker", aux)
            e      == Len(added.nodes)
            marked == [added EXCEPT !.renderMarker = e]
            opened == FilterPass(marked, kind)
            child  == AddChild(opened, "AllEvent", c.submitNode, e)
            F      == {}
<1>0. Good(d)
  BY AddRenderMarkerGood DEF Follows
<1>1. d = [child EXCEPT !.startStack["AllEvent"] = Append(@, n), !.newEvent = TRUE]
  BY DEF AddRenderMarker, LastNode
<1>2. "AllEvent" \in Topologies /\ c.submitNode \in 1 .. Len(c.nodes)
  BY DEF Topologies, Good, NodesHeld
<1>3. Places(c, closed, F) /\ Good(closed) /\ Len(closed.nodes) = Len(c.nodes)
  BY CloseRenderMarkerGood, CloseRenderMarkerPlaces DEF Places
<1>. HIDE DEF closed, aux
<1>4. /\ Good(added) /\ Places(closed, added, F) /\ e = Len(c.nodes) + 1 /\ Len(c.nodes) \in Nat
      /\ Orphan(added.nodes, e, "AllEvent")
  BY <1>2, <1>3, AddNodeGood, AddNodePlaces DEF Places, NewLast
<1>5. e \in Nat /\ e \in 1 .. e /\ e \in 0 .. e /\ c.submitNode \in 0 .. e /\ c.submitNode < e
  BY <1>2, <1>4
<1>. HIDE DEF added, F
<1>6. Good(opened) /\ Places(added, opened, F) /\ opened.nodes = added.nodes
  <2>0. DOMAIN added = CreatorFields
    BY <1>4 DEF Good
  <2>1. /\ DOMAIN opened = CreatorFields /\ opened.nodes = added.nodes
        /\ opened.ibStack = added.ibStack
        /\ opened.newIb = added.newIb /\ opened.startStack = added.startStack
        /\ opened.submitNode = added.submitNode /\ opened.startBin = added.startBin
        /\ opened.drawTable = added.drawTable /\ opened.renderMarker = e
    BY <2>0 DEF FilterPass, CreatorFields
  <2>2. SamePlaces(added, opened, F)
    BY <2>0 DEF FilterPass, CreatorFields, SamePlaces, PlaceFields
  <2>. HIDE DEF opened
  <2>3. NodesHeld(opened)
    BY <1>4, <1>5, <2>1 DEF Good, NodesHeld
  <2>4. Good(opened)
    BY <1>4, <2>1, <2>3, FieldsChanged DEF Good
  <2>. QED
    BY <1>4, <2>1, <2>2, <2>4, FieldsPlace
<1>. HIDE DEF opened
<1>7. Good(child) /\ Places(opened, child, F)
  BY <1>2, <1>4, <1>5, <1>6, AddChildPlaces DEF Places, F
<1>. HIDE DEF child
<1>8. Places(child, d, F)
  <2>1. d.nodes = child.nodes /\ SamePlaces(child, d, F)
    BY <1>1, <1>7 DEF Good, CreatorFields, SamePlaces, PlaceFields
  <2>. QED
    BY <1>0, <1>7, <2>1, FieldsPlace
<1>9. Places(c, added, F)
  BY <1>3, <1>4, PlacesTwice
<1>10. Places(c, opened, F)
  BY <1>6, <1>9, PlacesTwice
<1>11. Places(c, child, F)
  BY <1>7, <1>10, PlacesTwice
<1>12. Places(c, d, F)
  BY <1>8, <1>11, PlacesTwice
<1>. QED
  BY <1>12 DEF F

LEMMA AttachToPassPlaces ==
    ASSUME NEW c, Good(c), NEW n, HasPacket(c, n), NEW d, d = AttachToPass(c, n)
    PROVE  Places(c, d, {})
<1>1. CASE c.renderMarker = NoNode
  <2>. DEFINE F == {}
  <2>1. d = c
    BY <1>1 DEF AttachToPass
  <2>. HIDE DEF F
  <2>2. Places(c, d, F)
    BY <2>1, FieldsPlace DEF SamePlaces
  <2>. QED
    BY <2>2 DEF F
<1>2. CASE c.renderMarker # NoNode
  <2>. DEFINE u == "AllEvent"
              m == c.renderMarker
  <2>1. d = AddSharedChild(c, u, m, n) /\ u \in Topologies /\ u = "AllEvent"
    BY <1>2 DEF AttachToPass, Topologies
  <2>. HIDE DEF u, m
  <2>. QED
    BY <2>1, AddSharedChildPlaces
<1>. QED
  BY <1>1, <1>2

(* The packets that the creator remembers as callers. *)
CallOps == {"call", "chain", "amble"}

Remembered(c, p, n, d) ==
    /\ d.ibParents = c.ibParents /\ d.ibLevel = c.ibLevel /\ d.groupInfo = c.groupInfo
    /\ d.ibPacket = IF p.op \in CallOps THEN n ELSE c.ibPacket
    /\ d.startBin = IF p.op = "startBin" THEN n ELSE IF p.op = "endBin" THEN NoNode ELSE c.startBin
    /\ d.drawTable = IF p.op = "drawTable" THEN n ELSE c.drawTable

LEMMA HandlePacketPlaces ==
    ASSUME NEW c, Good(c), NEW p, NEW n, HasPacket(c, n), NEW d, d = HandlePacket(c, p, n)
    PROVE  Good(d) /\ Hangs(c.nodes, d.nodes) /\ Remembered(c, p, n, d) /\ HasPacket(d, n)
<1>0. Good(d) /\ HasPacket(d, n)
  BY HandlePacketGood, PacketKept DEF Follows
<1>1. CASE p.op = "draw"
  <2>1. d = AddEvent(c, n)
    BY <1>1 DEF HandlePacket
  <2>2. Places(c, d, {})
    BY <2>1, EventPlaces
  <2>. QED
    BY <1>0, <1>1, <2>2 DEF Places, SamePlaces, PlaceFields, Remembered, CallOps
<1>2. CASE p.op = "marker" /\ p.kind \in PassMarkers
  <2>1. d = AddRenderMarker(c, p.kind, n)
    BY <1>2 DEF HandlePacket
  <2>2. Places(c, d, {})
    BY <2>1, RenderMarkerPlaces
  <2>. QED
    BY <1>0, <1>2, <2>2 DEF Places, SamePlaces, PlaceFields, Remembered, CallOps
<1>3. CASE p.op # "draw" /\ ~(p.op = "marker" /\ p.kind \in PassMarkers)
  <2>0. DOMAIN c = CreatorFields
    BY DEF Good
  <2>1. d = CASE p.op \in CallOps -> [c EXCEPT !.ibPacket = n]
              [] p.op = "startBin" -> [c EXCEPT !.startBin = n]
              [] p.op = "endBin" -> [c EXCEPT !.startBin = NoNode]
              [] p.op = "drawTable" -> [c EXCEPT !.drawTable = n]
              [] OTHER -> c
    BY <1>3 DEF HandlePacket, CallOps
  <2>2. d.nodes = c.nodes /\ Remembered(c, p, n, d)
    BY <2>0, <2>1 DEF CreatorFields, Remembered, CallOps
  <2>. QED
    BY <1>0, <2>2, SameHangs, GoodNodes
<1>. QED
  BY <1>1, <1>2, <1>3

(* The groups of a draw state: a field node each, after the packet's, and under it. *)
GroupAddr(g) == <<g.ib.buf, g.ib.at>>

GroupNodes(s, n, groups) ==
    \A i \in 1 .. Len(groups) :
        /\ n + i \in 1 .. Len(s) /\ s[n + i].type = "Field"
        /\ s[n + i].aux.addr = GroupAddr(groups[i]) /\ n + i \in KidsOf(s[n], "Submit")

GroupKids(s, n, groups) == \A i \in 1 .. Len(groups) : s[n].kids["Submit"][i] = n + i

LEMMA AddGroupNodesPlaces ==
    ASSUME NEW c, Good(c), NEW groups, IsSeq(groups), NEW n, n = Len(c.nodes), HasPacket(c, n),
           \A u \in Topologies : KidsOf(c.nodes[n], u) = {},
           NEW d, d = AddGroupNodes(c, n, groups)
    PROVE  /\ Hangs(c.nodes, d.nodes) /\ GroupNodes(d.nodes, n, groups)
           /\ GroupKids(d.nodes, n, groups)
<1>. DEFINE s      == c.nodes
            e      == d.nodes
            K      == Len(groups)
            fields == [i \in DOMAIN groups |->
                          Node("Field", [addr |-> <<groups[i].ib.buf, groups[i].ib.at>>])]
            kids   == [i \in DOMAIN groups |-> n + i]
            r      == [s[n] EXCEPT !.kids = [u \in Topologies |-> kids]]
            q      == [s EXCEPT ![n] = r]
<1>1. Good(d) /\ Extends(s, e)
  BY AddGroupNodesGood DEF Follows, HasPacket
<1>2. e = q \o fields
  BY DEF AddGroupNodes, Good, CreatorFields
<1>3. K \in Nat /\ DOMAIN groups = 1 .. K /\ n \in Nat /\ IsSeq(s) /\ DOMAIN s = 1 .. n /\ n \in 1 .. n
  BY SeqFacts, GoodNodes DEF HasPacket
<1>4. NodeOk(s[n]) /\ KidsOf(s[n], "Submit") = {}
  BY DEF Good, Forest, HasPacket, Topologies
<1>5. DOMAIN kids = 1 .. K /\ \A i \in 1 .. K : kids[i] = n + i /\ kids[i] \in Range(kids)
  BY <1>3 DEF Range
<1>. HIDE DEF K, kids
<1>6. /\ IsSeq(fields) /\ Len(fields) = K
      /\ \A i \in 1 .. K : fields[i] = Node("Field", [addr |-> <<groups[i].ib.buf, groups[i].ib.at>>])
  <2>1. fields = [i \in 1 .. K |-> fields[i]]
    BY <1>3
  <2>2. IsSeq(fields) /\ Len(fields) = K
    BY <1>3, <2>1, SeqIntro
  <2>. QED
    BY <1>3, <2>2
<1>. HIDE DEF fields
<1>7. \A i \in 1 .. K : /\ fields[i].type = "Field" /\ fields[i].aux.addr = GroupAddr(groups[i])
                        /\ SharedOf(fields[i], "Submit") = {}
  BY <1>6, EmptySequence DEF Node, GroupAddr, SharedOf, Topologies
<1>8. r.kids["Submit"] = kids /\ r.shared = s[n].shared
  BY <1>4 DEF NodeOk, NodeFields, Topologies
<1>. HIDE DEF r
<1>9. /\ DOMAIN q = 1 .. n /\ q[n] = r
      /\ \A m \in 1 .. n : m # n => q[m] = s[m]
  BY <1>3
<1>10. IsSeq(q) /\ Len(q) = n
  <2>1. q = [i \in 1 .. n |-> q[i]]
    BY <1>3
  <2>. QED
    BY <1>3, <2>1, SeqIntro
<1>. HIDE DEF q
<1>11. /\ Len(e) = n + K
       /\ \A m \in 1 .. n : e[m] = q[m]
       /\ \A i \in 1 .. K : e[n + i] = fields[i]
  <2>1. /\ Len(q \o fields) = Len(q) + Len(fields)
        /\ \A i \in 1 .. Len(q) : (q \o fields)[i] = q[i]
        /\ \A i \in 1 .. Len(fields) : (q \o fields)[Len(q) + i] = fields[i]
    <3>1. IsSeq(q) /\ IsSeq(fields)
      BY <1>6, <1>10
    <3>. QED
      BY <3>1, ConcatSeq
  <2>. QED
    BY <1>2, <1>6, <1>10, <2>1, Zenon
<1>12. \A m \in 1 .. n : Hung(s[m], e[m])
  <2>1. Hung(s[n], r)
    BY <1>4, <1>8 DEF Hung, SharedOf
  <2>2. \A m \in 1 .. n : Hung(s[m], s[m])
    BY DEF Hung
  <2>3. \A m \in 1 .. n : m # n => e[m] = s[m]
    BY <1>9, <1>11
  <2>4. e[n] = r
    BY <1>3, <1>9, <1>11
  <2>. HIDE DEF e, s
  <2>. QED
    BY <2>1, <2>2, <2>3, <2>4
<1>13. \A m \in 1 .. n + K : m > n => m - n \in 1 .. K /\ m = n + (m - n)
  BY <1>3
<1>14. \A m \in 1 .. n + K : m > n => SharedOf(e[m], "Submit") = {}
  <2>. SUFFICES ASSUME NEW m \in 1 .. n + K, m > n PROVE SharedOf(e[m], "Submit") = {}
    OBVIOUS
  <2>1. m - n \in 1 .. K /\ m = n + (m - n)
    BY <1>13
  <2>2. e[m] = fields[m - n]
    <3>1. e[n + (m - n)] = fields[m - n]
      BY <1>11, <2>1
    <3>. QED
      BY <2>1, <3>1
  <2>. QED
    BY <1>7, <2>1, <2>2
<1>15. e[n].kids["Submit"] = kids
  BY <1>3, <1>8, <1>9, <1>11
<1>16. GroupNodes(e, n, groups)
  <2>. SUFFICES ASSUME NEW i \in 1 .. K
                PROVE  /\ n + i \in 1 .. Len(e) /\ e[n + i].type = "Field"
                       /\ e[n + i].aux.addr = GroupAddr(groups[i]) /\ n + i \in KidsOf(e[n], "Submit")
    BY DEF GroupNodes, K
  <2>1. n + i \in 1 .. n + K
    BY <1>3
  <2>. QED
    BY <1>5, <1>7, <1>11, <1>15, <2>1 DEF KidsOf
<1>17. Hangs(s, e)
  BY <1>1, <1>11, <1>12, <1>14 DEF Hangs
<1>. QED
  BY <1>5, <1>15, <1>16, <1>17 DEF K, GroupKids

LEMMA AddPacketNodePlaces ==
    ASSUME NEW c, Good(c), NEW p, p.op = "drawState" => IsSeq(p.groups), NEW insts, NEW d,
           d = AddPacketNode(c, p, insts), NEW n, n = Len(c.nodes) + 1
    PROVE  /\ Places(c, d, {}) /\ HasPacket(d, n)
           /\ p.op = "drawState" =>
                 GroupNodes(d.nodes, n, p.groups) /\ GroupKids(d.nodes, n, p.groups)
<1>. DEFINE aux == [op |-> p.op, level |-> c.ibLevel, insts |-> insts]
            a   == AddNode(c, "Packet", aux)
            F   == {}
<1>0. Good(d) /\ HasPacket(d, n)
  BY AddPacketNodeGood DEF Follows
<1>1. d = IF p.op = "drawState" THEN AddGroupNodes(a, Len(a.nodes), p.groups) ELSE a
  BY DEF AddPacketNode, LastNode
<1>2. SameBut(c, d, {"nodes"})
  <2>. DEFINE T == {"Field"}
              t == "Submit"
  <2>1. "Field" \in T /\ t \in Topologies
    BY DEF Topologies
  <2>. HIDE DEF T, t
  <2>. QED
    BY <2>1, AddPacketNodeBuilds
<1>. HIDE DEF aux
<1>3. /\ NewLast(c.nodes, a.nodes, "Packet", aux) /\ Places(c, a, F) /\ Good(a)
      /\ a.nodes = Append(c.nodes, Node("Packet", aux))
  BY AddNodeGood, AddNodePlaces DEF Grows, AddNode, Good, CreatorFields
<1>4. Len(a.nodes) = n /\ n \in 1 .. n /\ a.nodes[n] = Node("Packet", aux) /\ HasPacket(a, n)
  BY <1>3, GoodNodes, AppendSeq DEF NewLast, HasPacket
<1>5. \A u \in Topologies : KidsOf(a.nodes[n], u) = {}
  BY <1>4, NewNode
<1>. HIDE DEF a, F
<1>6. SamePlaces(c, d, F)
  BY <1>2 DEF SameBut, SamePlaces, PlaceFields, CreatorFields
<1>7. CASE p.op # "drawState"
  BY <1>0, <1>1, <1>3, <1>7 DEF F
<1>8. CASE p.op = "drawState"
  <2>. DEFINE groups == p.groups
  <2>1. d = AddGroupNodes(a, n, groups) /\ IsSeq(groups)
    BY <1>1, <1>4, <1>8
  <2>. HIDE DEF groups
  <2>2. /\ Hangs(a.nodes, d.nodes) /\ GroupNodes(d.nodes, n, groups)
        /\ GroupKids(d.nodes, n, groups)
    <3>1. n = Len(a.nodes) /\ HasPacket(a, n) /\ Good(a)
      BY <1>3, <1>4
    <3>. QED
      BY <1>5, <2>1, <3>1, AddGroupNodesPlaces
  <2>3. IsSeq(c.nodes) /\ IsSeq(a.nodes) /\ IsSeq(d.nodes) /\ Hangs(c.nodes, a.nodes)
    BY <1>0, <1>3, GoodNodes DEF Places
  <2>4. Hangs(c.nodes, d.nodes)
    BY <2>2, <2>3, HangsTwice
  <2>. QED
    BY <1>0, <1>6, <2>2, <2>4 DEF Places, F, groups
<1>. QED
  BY <1>7, <1>8

(* From s to d the packet n was attached to P, and nothing else was. *)
Attached(s, d, P, n) ==
    /\ Extends(s, d)
    /\ \A m \in 1 .. Len(s) :
          /\ KidsOf(s[m], "Submit") \subseteq KidsOf(d[m], "Submit")
          /\ SharedOf(d[m], "Submit") = SharedOf(s[m], "Submit") \cup (IF m = P THEN {n} ELSE {})
    /\ \A m \in 1 .. Len(d) : m > Len(s) => SharedOf(d[m], "Submit") = {}

LEMMA HangsJoined ==
    ASSUME NEW s, NEW q, NEW d, IsSeq(s), IsSeq(q), IsSeq(d), NEW P \in 0 .. Len(s), NEW n,
           Hangs(s, q), Joined(q, d, P, n), Extends(q, d), Len(d) = Len(q)
    PROVE  Attached(s, d, P, n)
<1>. DEFINE N == Len(s)
            Q == Len(q)
<1>1. Extends(s, d)
  BY ExtendsTwice DEF Hangs
<1>2. N \in Nat /\ Q \in Nat /\ N <= Q /\ Len(d) = Q /\ P \in 0 .. N
  BY SeqFacts DEF Hangs, Extends
<1>3. /\ \A m \in 1 .. N : Hung(s[m], q[m])
      /\ \A m \in 1 .. Q : m > N => SharedOf(q[m], "Submit") = {}
      /\ \A m \in 1 .. Q :
           /\ KidsOf(q[m], "Submit") \subseteq KidsOf(d[m], "Submit")
           /\ SharedOf(d[m], "Submit") = SharedOf(q[m], "Submit") \cup (IF m = P THEN {n} ELSE {})
  BY DEF Hangs, Joined
<1>. HIDE DEF N, Q
<1>4. /\ \A m \in 1 .. N : m \in 1 .. Q
      /\ \A m \in 1 .. Q : m > N => m # P
  BY <1>2
<1>5. \A m \in 1 .. N :
          /\ KidsOf(s[m], "Submit") \subseteq KidsOf(d[m], "Submit")
          /\ SharedOf(d[m], "Submit") = SharedOf(s[m], "Submit") \cup (IF m = P THEN {n} ELSE {})
  BY <1>3, <1>4 DEF Hung
<1>6. \A m \in 1 .. Q : m > N => SharedOf(d[m], "Submit") = {}
  BY <1>3, <1>4
<1>. QED
  BY <1>1, <1>2, <1>5, <1>6 DEF Attached, N

LEMMA AttachedHangs ==
    ASSUME NEW s, NEW q, NEW d, IsSeq(s), IsSeq(q), IsSeq(d), NEW P, NEW n,
           Attached(s, q, P, n), Hangs(q, d)
    PROVE  Attached(s, d, P, n)
<1>. DEFINE N == Len(s)
            Q == Len(q)
            D == Len(d)
<1>1. Extends(s, d)
  BY ExtendsTwice DEF Hangs, Attached
<1>2. N \in Nat /\ Q \in Nat /\ D \in Nat /\ N <= Q
  BY SeqFacts DEF Attached, Extends
<1>3. /\ \A m \in 1 .. Q : Hung(q[m], d[m])
      /\ \A m \in 1 .. D : m > Q => SharedOf(d[m], "Submit") = {}
      /\ \A m \in 1 .. N :
           /\ KidsOf(s[m], "Submit") \subseteq KidsOf(q[m], "Submit")
           /\ SharedOf(q[m], "Submit") = SharedOf(s[m], "Submit") \cup (IF m = P THEN {n} ELSE {})
      /\ \A m \in 1 .. Q : m > N => SharedOf(q[m], "Submit") = {}
  BY DEF Hangs, Attached
<1>. HIDE DEF N, Q, D
<1>4. /\ \A m \in 1 .. N : m \in 1 .. Q
      /\ \A m \in 1 .. D : m \in 1 .. Q \/ m > Q
  BY <1>2
<1>5. \A m \in 1 .. N :
          /\ KidsOf(s[m], "Submit") \subseteq KidsOf(d[m], "Submit")
          /\ SharedOf(d[m], "Submit") = SharedOf(s[m], "Submit") \cup (IF m = P THEN {n} ELSE {})
  BY <1>3, <1>4 DEF Hung
<1>6. \A m \in 1 .. D : m > N => SharedOf(d[m], "Submit") = {}
  BY <1>3, <1>4 DEF Hung
<1>. QED
  BY <1>1, <1>5, <1>6 DEF Attached, N, D

LEMMA AttachPacketPlaces ==
    ASSUME NEW c, Good(c), NEW n, HasPacket(c, n), NEW d, d = AttachPacket(c, n)
    PROVE  /\ Good(d) /\ SameBut(c, d, {"nodes"}) /\ HasPacket(d, n) /\ Extends(c.nodes, d.nodes)
           /\ Len(d.nodes) = Len(c.nodes)
           /\ \A m \in 1 .. Len(c.nodes) : d.nodes[m].kids = c.nodes[m].kids
           /\ Joined(c.nodes, d.nodes, c.ibParents[c.ibLevel], n)
<1>. DEFINE parent == c.ibParents[c.ibLevel]
            t      == "Submit"
            u      == "AllEvent"
            b      == AddSharedChild(c, t, parent, n)
<1>1. d = AddSharedChild(b, u, parent, n)
  BY DEF AttachPacket
<1>2. t \in Topologies /\ u \in Topologies /\ t = "Submit" /\ u = "AllEvent"
  BY DEF Topologies
<1>. HIDE DEF parent, t, u
<1>3. /\ Good(b) /\ SameBut(c, b, {"nodes"}) /\ HasPacket(b, n) /\ Extends(c.nodes, b.nodes)
      /\ Len(b.nodes) = Len(c.nodes)
      /\ \A m \in 1 .. Len(c.nodes) : b.nodes[m].kids = c.nodes[m].kids
      /\ Joined(c.nodes, b.nodes, parent, n)
  BY <1>2, AddSharedChildPlaces
<1>. HIDE DEF b
<1>4. /\ Good(d) /\ SameBut(b, d, {"nodes"}) /\ HasPacket(d, n) /\ Extends(b.nodes, d.nodes)
      /\ Len(d.nodes) = Len(b.nodes)
      /\ \A m \in 1 .. Len(b.nodes) : d.nodes[m].kids = b.nodes[m].kids
      /\ Places(b, d, {})
  BY <1>1, <1>2, <1>3, AddSharedChildPlaces
<1>5. Joined(c.nodes, d.nodes, parent, n)
  BY <1>3, <1>4 DEF Joined, Places, Hangs, Hung
<1>6. Extends(c.nodes, d.nodes)
  <2>1. IsSeq(c.nodes) /\ IsSeq(b.nodes) /\ IsSeq(d.nodes)
    BY <1>3, <1>4, GoodNodes
  <2>. QED
    BY <1>3, <1>4, <2>1, ExtendsTwice
<1>7. SameBut(c, d, {"nodes"})
  BY <1>3, <1>4 DEF SameBut
<1>. QED
  BY <1>3, <1>4, <1>5, <1>6, <1>7 DEF parent

LEMMA GroupNodesKept ==
    ASSUME NEW s, NEW d, IsSeq(s), IsSeq(d), Extends(s, d), NEW n, NEW groups, GroupNodes(s, n, groups),
           KidsOf(s[n], "Submit") \subseteq KidsOf(d[n], "Submit")
    PROVE  GroupNodes(d, n, groups)
<1>. DEFINE N == Len(s)
            D == Len(d)
<1>1. N \in Nat /\ D \in Nat /\ N <= D /\ \A m \in 1 .. N : d[m].type = s[m].type /\ d[m].aux = s[m].aux
  BY SeqFacts DEF Extends
<1>. SUFFICES ASSUME NEW i \in 1 .. Len(groups)
              PROVE  /\ n + i \in 1 .. D /\ d[n + i].type = "Field"
                     /\ d[n + i].aux.addr = GroupAddr(groups[i]) /\ n + i \in KidsOf(d[n], "Submit")
  BY DEF GroupNodes
<1>. DEFINE m == n + i
<1>2. /\ m \in 1 .. N /\ s[m].type = "Field" /\ s[m].aux.addr = GroupAddr(groups[i])
      /\ m \in KidsOf(s[n], "Submit")
  BY DEF GroupNodes
<1>. HIDE DEF N, D, m
<1>3. m \in 1 .. D
  BY <1>1, <1>2
<1>4. d[m].type = "Field" /\ d[m].aux.addr = GroupAddr(groups[i]) /\ m \in KidsOf(d[n], "Submit")
  BY <1>1, <1>2
<1>. QED
  BY <1>3, <1>4 DEF m

(* A draw state replaces the cached groups by its own. *)
GroupsCached(c, n, groups) ==
    /\ IsSeq(c.groupInfo) /\ Len(c.groupInfo) = Len(groups)
    /\ \A i \in 1 .. Len(groups) :
          c.groupInfo[i].node = n + i /\ c.groupInfo[i].addr = GroupAddr(groups[i])

LEMMA CachedGroups ==
    ASSUME NEW c, Good(c), NEW p, IsSeq(p.groups), NEW n, GroupKids(c.nodes, n, p.groups),
           NEW d, d = CacheSetDrawStateGroupInfo(c, p, n)
    PROVE  GroupsCached(d, n, p.groups)
<1>. DEFINE kids == c.nodes[n].kids["Submit"]
            g == p.groups
            K == Len(g)
            info == [i \in DOMAIN g |-> [node |-> kids[i], addr |-> <<g[i].ib.buf, g[i].ib.at>>]]
<1>1. d.groupInfo = info
  BY DEF CacheSetDrawStateGroupInfo, Good, CreatorFields
<1>2. K \in Nat /\ DOMAIN g = 1 .. K
  BY SeqFacts
<1>3. \A i \in 1 .. K : kids[i] = n + i
  BY DEF GroupKids
<1>. HIDE DEF kids, g, K
<1>4. \A i \in 1 .. K : info[i].node = n + i /\ info[i].addr = GroupAddr(g[i])
  BY <1>2, <1>3 DEF GroupAddr
<1>5. info = [i \in 1 .. K |-> info[i]]
  BY <1>2
<1>6. IsSeq(info) /\ Len(info) = K
  BY <1>2, <1>5, SeqIntro
<1>. QED
  BY <1>1, <1>4, <1>6 DEF GroupsCached, K, g

(* What OnPacket remembers of the packet n. *)
PacketCached(c, p, n, d) ==
    /\ d.ibParents = c.ibParents /\ d.ibLevel = c.ibLevel
    /\ d.ibPacket = IF p.op \in CallOps THEN n ELSE c.ibPacket
    /\ d.startBin = IF p.op = "startBin" THEN n ELSE IF p.op = "endBin" THEN NoNode ELSE c.startBin
    /\ d.drawTable = IF p.op = "drawTable" THEN n ELSE c.drawTable
    /\ p.op # "drawState" => d.groupInfo = c.groupInfo
    /\ p.op = "drawState" => GroupsCached(d, n, p.groups) /\ GroupNodes(d.nodes, n, p.groups)

ReadyPlaced(c, p, n, d) ==
    /\ Good(d) /\ HasPacket(d, n)
    /\ Attached(c.nodes, d.nodes, c.ibParents[c.ibLevel], n)
    /\ SamePlaces(c, d, {"groupInfo"})
    /\ p.op # "drawState" => d.groupInfo = c.groupInfo
    /\ p.op = "drawState" => GroupsCached(d, n, p.groups) /\ GroupNodes(d.nodes, n, p.groups)

LEMMA ReadyForPlaces ==
    ASSUME NEW c, Good(c), NEW p, p.op = "drawState" => IsSeq(p.groups), NEW insts, NEW d,
           d = ReadyFor(c, p, insts), c.ibParents[c.ibLevel] \in 0 .. Len(c.nodes),
           NEW n, n = Len(c.nodes) + 1
    PROVE  ReadyPlaced(c, p, n, d)
<1>. DEFINE tracked == [c EXCEPT !.tracker = TrackPacket(@, p, n)]
            node    == AddPacketNode(tracked, p, insts)
            pushed  == PushStarts(node, n)
            added   == AttachPacket(pushed, n)
            parent  == c.ibParents[c.ibLevel]
            F       == {}
<1>0. Good(d) /\ HasPacket(d, n)
  BY ReadyForBuilds DEF PacketReady
<1>1. d = IF p.op = "drawState" THEN CacheSetDrawStateGroupInfo(added, p, n) ELSE added
  BY DEF ReadyFor, LastNode
<1>2. Good(tracked) /\ SameBut(c, tracked, {"tracker"}) /\ tracked.nodes = c.nodes
  <2>0. DOMAIN c = CreatorFields
    BY DEF Good
  <2>1. SameBut(c, tracked, {"tracker"})
    BY <2>0 DEF CreatorFields, SameBut
  <2>. HIDE DEF tracked
  <2>2. /\ DOMAIN tracked = CreatorFields /\ tracked.nodes = c.nodes /\ tracked.ibStack = c.ibStack
        /\ tracked.newIb = c.newIb /\ tracked.startStack = c.startStack
        /\ tracked.submitNode = c.submitNode /\ tracked.startBin = c.startBin
        /\ tracked.drawTable = c.drawTable /\ tracked.renderMarker = c.renderMarker
    BY <2>1 DEF SameBut, CreatorFields
  <2>3. Good(tracked)
    BY <2>2, FieldsChanged DEF Good, NodesHeld
  <2>. QED
    BY <2>1, <2>2, <2>3
<1>. HIDE DEF tracked
<1>3. /\ Places(tracked, node, F) /\ HasPacket(node, n) /\ Good(node)
      /\ p.op = "drawState" => GroupNodes(node.nodes, n, p.groups) /\ GroupKids(node.nodes, n, p.groups)
  BY <1>2, AddPacketNodePlaces DEF Places
<1>. HIDE DEF node, F
<1>4. Good(pushed) /\ pushed.nodes = node.nodes /\ SamePlaces(node, pushed, F) /\ HasPacket(pushed, n)
  <2>0. DOMAIN node = CreatorFields
    BY <1>3 DEF Good
  <2>1. SamePlaces(node, pushed, F)
    BY <2>0 DEF PushStarts, CreatorFields, SamePlaces, PlaceFields
  <2>2. Good(pushed) /\ pushed.nodes = node.nodes
    BY <1>3, PushStartsGood
  <2>. QED
    BY <1>3, <2>1, <2>2 DEF HasPacket
<1>. HIDE DEF pushed
<1>5. /\ Good(added) /\ SameBut(pushed, added, {"nodes"}) /\ Extends(pushed.nodes, added.nodes)
      /\ Len(added.nodes) = Len(pushed.nodes)
      /\ \A m \in 1 .. Len(pushed.nodes) : added.nodes[m].kids = pushed.nodes[m].kids
      /\ Joined(pushed.nodes, added.nodes, pushed.ibParents[pushed.ibLevel], n)
  BY <1>4, AttachPacketPlaces
<1>. HIDE DEF added
<1>6. SamePlaces(c, added, F) /\ pushed.ibParents[pushed.ibLevel] = parent
  <2>1. SamePlaces(c, tracked, F)
    BY <1>2 DEF SameBut, SamePlaces, PlaceFields, CreatorFields
  <2>2. SamePlaces(tracked, node, F)
    BY <1>3 DEF Places
  <2>3. SamePlaces(c, pushed, F)
    BY <1>4, <2>1, <2>2 DEF SamePlaces
  <2>4. SamePlaces(pushed, added, F)
    BY <1>5 DEF SameBut, SamePlaces, PlaceFields, CreatorFields
  <2>5. pushed.ibParents = c.ibParents /\ pushed.ibLevel = c.ibLevel
    BY <2>3 DEF SamePlaces, PlaceFields, F
  <2>. QED
    BY <2>3, <2>4, <2>5 DEF SamePlaces
<1>7. Attached(c.nodes, added.nodes, parent, n)
  <2>. DEFINE s == c.nodes
              q == node.nodes
              e == added.nodes
  <2>1. IsSeq(s) /\ IsSeq(q) /\ IsSeq(e) /\ parent \in 0 .. Len(s)
    BY <1>3, <1>5, GoodNodes
  <2>2. Hangs(s, q) /\ Joined(q, e, parent, n) /\ Extends(q, e) /\ Len(e) = Len(q)
    BY <1>2, <1>3, <1>4, <1>5, <1>6 DEF Places
  <2>. HIDE DEF s, q, e, parent
  <2>3. Attached(s, e, parent, n)
    BY <2>1, <2>2, HangsJoined
  <2>. QED
    BY <2>3 DEF s, e
<1>8. ASSUME p.op = "drawState"
      PROVE  GroupNodes(added.nodes, n, p.groups) /\ GroupKids(added.nodes, n, p.groups)
  <2>. DEFINE g == p.groups
              q == node.nodes
              e == added.nodes
  <2>1. GroupNodes(q, n, g) /\ GroupKids(q, n, g) /\ IsSeq(q) /\ IsSeq(e) /\ Extends(q, e)
    BY <1>3, <1>4, <1>5, <1>8, GoodNodes
  <2>2. e[n].kids = q[n].kids
    BY <1>3, <1>4, <1>5 DEF HasPacket
  <2>. HIDE DEF g, q, e
  <2>3. KidsOf(q[n], "Submit") \subseteq KidsOf(e[n], "Submit")
    BY <2>2 DEF KidsOf
  <2>4. GroupNodes(e, n, g)
    BY <2>1, <2>3, GroupNodesKept
  <2>5. GroupKids(e, n, g)
    BY <2>1, <2>2 DEF GroupKids
  <2>. QED
    BY <2>4, <2>5 DEF e, g
<1>9. CASE p.op # "drawState"
  <2>1. d = added
    BY <1>1, <1>9
  <2>. QED
    BY <1>0, <1>6, <1>7, <1>9, <2>1 DEF ReadyPlaced, SamePlaces, PlaceFields, F
<1>10. CASE p.op = "drawState"
  <2>1. d = CacheSetDrawStateGroupInfo(added, p, n)
    BY <1>1, <1>10
  <2>2. GroupsCached(d, n, p.groups)
    BY <1>5, <1>8, <1>10, <2>1, CachedGroups
  <2>3. d.nodes = added.nodes /\ SamePlaces(added, d, {"groupInfo"})
    BY <1>5, <2>1 DEF Good, CacheSetDrawStateGroupInfo, CreatorFields, SamePlaces, PlaceFields
  <2>4. SamePlaces(c, d, {"groupInfo"})
    BY <1>6, <2>3 DEF SamePlaces, F
  <2>. QED
    BY <1>0, <1>7, <1>8, <1>10, <2>2, <2>3, <2>4 DEF ReadyPlaced
<1>. QED
  BY <1>9, <1>10

(* OnPacket, in the submit topology. *)
LEMMA OnPacketPlaces ==
    ASSUME NEW c, Good(c), NEW p, p.op = "drawState" => IsSeq(p.groups), NEW insts, NEW d,
           d = OnPacket(c, p, insts), p.op # "type2", c.ibParents[c.ibLevel] \in 0 .. Len(c.nodes),
           NEW n, n = Len(c.nodes) + 1
    PROVE  /\ Attached(c.nodes, d.nodes, c.ibParents[c.ibLevel], n)
           /\ PacketCached(c, p, n, d)
<1>. DEFINE b == ReadyFor(c, p, insts)
            h == HandlePacket(b, p, n)
            a == AttachToPass(h, n)
            P == c.ibParents[c.ibLevel]
            s == c.nodes
<1>1. d = [a EXCEPT !.lastAdded = n]
  BY DEF OnPacket, ReadyFor, LastNode
<1>2. ReadyPlaced(c, p, n, b)
  BY ReadyForPlaces
<1>. HIDE DEF b
<1>3. Good(b) /\ HasPacket(b, n)
  BY <1>2 DEF ReadyPlaced
<1>4. Good(h) /\ Hangs(b.nodes, h.nodes) /\ Remembered(b, p, n, h) /\ HasPacket(h, n)
  BY <1>3, HandlePacketPlaces
<1>. HIDE DEF h
<1>5. Places(h, a, {}) /\ Good(a)
  BY <1>4, AttachToPassPlaces DEF Places
<1>. HIDE DEF a
<1>6. d.nodes = a.nodes /\ SamePlaces(a, d, {})
  BY <1>1, <1>5 DEF Good, CreatorFields, SamePlaces, PlaceFields
<1>7. IsSeq(s) /\ IsSeq(b.nodes) /\ IsSeq(h.nodes) /\ IsSeq(a.nodes)
  BY <1>3, <1>4, <1>5, GoodNodes
<1>8. Hangs(b.nodes, a.nodes)
  BY <1>4, <1>5, <1>7, HangsTwice DEF Places
<1>9. Attached(s, b.nodes, P, n)
  BY <1>2 DEF ReadyPlaced
<1>. HIDE DEF s, P
<1>10. Attached(s, a.nodes, P, n)
  BY <1>7, <1>8, <1>9, AttachedHangs
<1>11. \A f \in PlaceFields : d[f] = h[f]
  BY <1>5, <1>6 DEF Places, SamePlaces
<1>12. /\ \A f \in PlaceFields \ {"groupInfo"} : b[f] = c[f]
       /\ p.op # "drawState" => b.groupInfo = c.groupInfo
       /\ p.op = "drawState" => GroupsCached(b, n, p.groups) /\ GroupNodes(b.nodes, n, p.groups)
  BY <1>2 DEF ReadyPlaced, SamePlaces
<1>13. d.groupInfo = b.groupInfo
  BY <1>4, <1>11 DEF PlaceFields, Remembered
<1>14. p.op = "drawState" => GroupNodes(a.nodes, n, p.groups)
  <2>1. n \in 1 .. Len(b.nodes)
    BY <1>3 DEF HasPacket
  <2>2. Extends(b.nodes, a.nodes) /\ KidsOf(b.nodes[n], "Submit") \subseteq KidsOf(a.nodes[n], "Submit")
    BY <1>8, <2>1 DEF Hangs, Hung
  <2>. QED
    BY <1>7, <1>12, <2>2, GroupNodesKept
<1>15. PacketCached(c, p, n, d)
  BY <1>4, <1>6, <1>11, <1>12, <1>13, <1>14 DEF PacketCached, PlaceFields, Remembered, GroupsCached
<1>. QED
  BY <1>6, <1>10, <1>15 DEF s, P

-----------------------------------------------------------------------------
(* OnIbStart and OnIbEnd in the submit topology. *)

LEMMA AddNodeUnderPlaces ==
    ASSUME NEW c, Good(c), NEW n \in 0 .. Len(c.nodes), NEW type, NEW aux, NEW d,
           d = AddNodeUnder(c, n, type, aux), NEW k, k = Len(c.nodes) + 1
    PROVE  /\ Places(c, d, {}) /\ Len(d.nodes) = k
           /\ d.nodes[k].type = type /\ d.nodes[k].aux = aux
           /\ n \in 1 .. Len(c.nodes) => k \in KidsOf(d.nodes[n], "Submit")
<1>. DEFINE a == AddNode(c, type, aux)
            t == "Submit"
            u == "AllEvent"
            b == AddChild(a, t, n, k)
            F == {}
<1>1. Grows(c, a) /\ NewLast(c.nodes, a.nodes, type, aux) /\ Places(c, a, F) /\ Good(a)
  BY AddNodeGood, AddNodePlaces DEF Grows
<1>2. Len(a.nodes) = k /\ a.nodes[k].type = type /\ a.nodes[k].aux = aux /\ Len(c.nodes) \in Nat
  BY <1>1 DEF NewLast
<1>3. d = AddChild(b, u, n, k)
  BY <1>2 DEF AddNodeUnder, LastNode
<1>. HIDE DEF a, F
<1>4. k \in Nat /\ k \in 1 .. k /\ n \in 0 .. k /\ n < k /\ (n \in 1 .. Len(c.nodes) => n \in 1 .. k)
  BY <1>2
<1>5. Orphan(a.nodes, k, t) /\ Orphan(a.nodes, k, u) /\ t \in Topologies /\ u \in Topologies /\ t # u
      /\ t = "Submit"
  BY <1>1, <1>2 DEF NewLast, Topologies
<1>. HIDE DEF t, u
<1>6. /\ Places(a, b, F) /\ Good(b) /\ Changed(a.nodes, b.nodes, {t}) /\ Len(b.nodes) = k
      /\ n \in 1 .. k => k \in KidsOf(b.nodes[n], "Submit")
  <2>1. n \in 0 .. Len(a.nodes) /\ k \in 1 .. Len(a.nodes) /\ b = AddChild(a, t, n, k)
    BY <1>2, <1>4
  <2>. HIDE DEF b
  <2>2. Good(b) /\ Changed(a.nodes, b.nodes, {t})
    BY <1>1, <1>4, <1>5, <2>1, AddChildGood DEF Grows
  <2>3. /\ Places(a, b, F) /\ Len(b.nodes) = Len(a.nodes)
        /\ t = "Submit" /\ n \in 1 .. Len(a.nodes) => k \in KidsOf(b.nodes[n], "Submit")
    BY <1>1, <1>4, <1>5, <2>1, AddChildPlaces DEF F
  <2>. QED
    BY <1>2, <1>5, <2>2, <2>3
<1>. HIDE DEF b
<1>7. Orphan(b.nodes, k, u)
  BY <1>5, <1>6 DEF Changed
<1>8. Places(b, d, F) /\ Len(d.nodes) = k
  BY <1>3, <1>4, <1>5, <1>6, <1>7, AddChildPlaces DEF F
<1>9. Places(c, b, F)
  BY <1>1, <1>6, PlacesTwice
<1>10. Places(c, d, F)
  BY <1>8, <1>9, PlacesTwice
<1>11. n \in 1 .. Len(c.nodes) => k \in KidsOf(d.nodes[n], "Submit")
  BY <1>4, <1>6, <1>8 DEF Places, Hangs, Hung
<1>12. d.nodes[k].type = type /\ d.nodes[k].aux = aux
  <2>1. b.nodes[k].type = a.nodes[k].type /\ b.nodes[k].aux = a.nodes[k].aux
    BY <1>2, <1>4, <1>6 DEF Places, Hangs, Extends
  <2>2. d.nodes[k].type = b.nodes[k].type /\ d.nodes[k].aux = b.nodes[k].aux
    BY <1>4, <1>6, <1>8 DEF Places, Hangs, Extends
  <2>. QED
    BY <1>2, <2>1, <2>2
<1>. QED
  BY <1>8, <1>10, <1>11, <1>12 DEF F

(* A field node that stands for a bin or a table entry, not for a group. *)
BinField(s, p) == p \in 1 .. Len(s) /\ s[p].type = "Field" /\ s[p].aux.addr = <<>>

(* The packet that a bin's or a table's field node is put under. *)
Starter(c, type) == IF type = "FixedStrideDrawTable" THEN c.drawTable ELSE c.startBin

(* The parent that OnIbStart chooses; k is the number of the next node. *)
ParentSet(c, level, ib, type, d, k) ==
    /\ DOMAIN d.ibParents = DOMAIN c.ibParents
    /\ \A l \in DOMAIN c.ibParents : l # level => d.ibParents[l] = c.ibParents[l]
    /\ level \in DOMAIN c.ibParents =>
          /\ type = "DrawState" => d.ibParents[level] = GroupAt(c, ib)
          /\ type \in BinTypes => d.ibParents[level] = k
          /\ type \notin BinTypes \cup {"DrawState"} =>
                d.ibParents[level] = IF c.ibPacket = NoNode THEN c.ibParents[level] ELSE c.ibPacket

FieldAdded(c, n, d, k) ==
    /\ Len(d.nodes) = k /\ BinField(d.nodes, k)
    /\ n \in 1 .. Len(c.nodes) => k \in KidsOf(d.nodes[n], "Submit")

LEMMA PlacedParent ==
    ASSUME NEW c, Good(c), NEW level, NEW ib, NEW type, NEW d,
           d = SharedParent(IbPacketParent(c, level), level, ib, type), NEW k, k = Len(c.nodes) + 1
    PROVE  /\ Places(c, d, {"ibParents"}) /\ ParentSet(c, level, ib, type, d, k)
           /\ type \notin BinTypes => d.nodes = c.nodes
           /\ type \in BinTypes => FieldAdded(c, Starter(c, type), d, k)
<1>. DEFINE b == IbPacketParent(c, level)
            G == {"ibParents"}
<1>0. Good(d) /\ DOMAIN c = CreatorFields
  BY PlacedGood DEF Good
<1>1. /\ DOMAIN b = CreatorFields /\ b.nodes = c.nodes /\ SamePlaces(c, b, G)
      /\ DOMAIN b.ibParents = DOMAIN c.ibParents
      /\ \A l \in DOMAIN c.ibParents : l # level => b.ibParents[l] = c.ibParents[l]
      /\ level \in DOMAIN c.ibParents =>
            b.ibParents[level] = IF c.ibPacket = NoNode THEN c.ibParents[level] ELSE c.ibPacket
  BY <1>0 DEF IbPacketParent, CreatorFields, SamePlaces, PlaceFields
<1>2. Good(b)
  <2>1. /\ b.ibStack = c.ibStack
        /\ b.newIb = c.newIb /\ b.startStack = c.startStack
        /\ b.submitNode = c.submitNode /\ b.startBin = c.startBin
        /\ b.drawTable = c.drawTable /\ b.renderMarker = c.renderMarker
    BY <1>0 DEF IbPacketParent, CreatorFields
  <2>. HIDE DEF b
  <2>. QED
    BY <1>1, <2>1, FieldsChanged DEF Good, NodesHeld
<1>3. \/ type = "DrawState" /\ d = [b EXCEPT !.ibParents[level] = GroupAt(b, ib)]
      \/ type \in BinTypes /\ d = FieldNodeParent(b, level, Starter(b, type))
      \/ type \notin BinTypes \cup {"DrawState"} /\ d = b
  BY DEF SharedParent, BinTypes, Starter
<1>. HIDE DEF b
<1>4. CASE type = "DrawState" /\ d = [b EXCEPT !.ibParents[level] = GroupAt(b, ib)]
  <2>1. /\ d.nodes = b.nodes /\ SamePlaces(b, d, G) /\ DOMAIN d.ibParents = DOMAIN b.ibParents
        /\ \A l \in DOMAIN b.ibParents : l # level => d.ibParents[l] = b.ibParents[l]
        /\ level \in DOMAIN b.ibParents => d.ibParents[level] = GroupAt(b, ib)
    BY <1>1, <1>4 DEF CreatorFields, SamePlaces, PlaceFields
  <2>2. GroupAt(b, ib) = GroupAt(c, ib)
    BY <1>1 DEF GroupAt, SamePlaces, PlaceFields
  <2>3. SamePlaces(c, d, G)
    BY <1>1, <2>1 DEF SamePlaces
  <2>4. type \notin BinTypes
    BY <1>4 DEF BinTypes
  <2>5. ParentSet(c, level, ib, type, d, k)
    BY <1>1, <1>4, <2>1, <2>2, <2>4 DEF ParentSet
  <2>. HIDE DEF G
  <2>6. Places(c, d, G)
    BY <1>0, <1>1, <2>1, <2>3, FieldsPlace
  <2>. QED
    BY <1>1, <2>1, <2>4, <2>5, <2>6 DEF G
<1>5. CASE type \notin BinTypes \cup {"DrawState"} /\ d = b
  <2>1. ParentSet(c, level, ib, type, d, k)
    BY <1>1, <1>5 DEF ParentSet
  <2>. HIDE DEF G
  <2>2. Places(c, d, G)
    BY <1>0, <1>1, <1>5, FieldsPlace
  <2>. QED
    BY <1>1, <1>5, <2>1, <2>2 DEF G
<1>6. CASE type \in BinTypes /\ d = FieldNodeParent(b, level, Starter(b, type))
  <2>. DEFINE aux == [addr |-> <<>>]
              n == Starter(b, type)
              a == AddNodeUnder(b, n, "Field", aux)
  <2>1. n = Starter(c, type) /\ n \in 0 .. Len(b.nodes)
    BY <1>1, <1>2 DEF Starter, SamePlaces, PlaceFields, Good, NodesHeld
  <2>2. d = [a EXCEPT !.ibParents[level] = Len(a.nodes)] /\ aux.addr = <<>>
    BY <1>6 DEF FieldNodeParent, LastNode
  <2>. HIDE DEF n, aux
  <2>3. /\ Places(b, a, {}) /\ Good(a) /\ Len(a.nodes) = k
        /\ a.nodes[k].type = "Field" /\ a.nodes[k].aux = aux
        /\ n \in 1 .. Len(b.nodes) => k \in KidsOf(a.nodes[n], "Submit")
    <3>1. k = Len(b.nodes) + 1
      BY <1>1
    <3>. QED
      BY <1>2, <2>1, <3>1, AddNodeUnderPlaces DEF Places
  <2>. HIDE DEF a
  <2>4. DOMAIN a = CreatorFields /\ a.ibParents = b.ibParents
    BY <2>3 DEF Good, Places, SamePlaces, PlaceFields
  <2>5. /\ d.nodes = a.nodes /\ SamePlaces(a, d, G) /\ DOMAIN d.ibParents = DOMAIN b.ibParents
        /\ \A l \in DOMAIN b.ibParents : l # level => d.ibParents[l] = b.ibParents[l]
        /\ level \in DOMAIN b.ibParents => d.ibParents[level] = k
    BY <2>2, <2>3, <2>4 DEF CreatorFields, SamePlaces, PlaceFields
  <2>6. SamePlaces(c, d, G) /\ Hangs(c.nodes, d.nodes)
    BY <1>1, <2>3, <2>5 DEF SamePlaces, Places
  <2>7. type \notin {"DrawState"}
    BY <1>6 DEF BinTypes
  <2>8. ParentSet(c, level, ib, type, d, k)
    BY <1>1, <1>6, <2>5, <2>7 DEF ParentSet
  <2>9. FieldAdded(c, n, d, k)
    <3>1. k \in 1 .. k
      BY <1>1, <1>2, GoodNodes
    <3>. QED
      BY <1>1, <2>2, <2>3, <2>5, <3>1 DEF FieldAdded, BinField
  <2>. QED
    BY <1>0, <1>6, <2>1, <2>6, <2>8, <2>9 DEF Places
<1>. QED
  BY <1>3, <1>4, <1>5, <1>6

(* An IB is entered: its parent is chosen, and its node is the last. *)
IbPlaced(c, level, cur, d, n) ==
    /\ Hangs(c.nodes, d.nodes) /\ SamePlaces(c, d, {"ibParents", "ibLevel"}) /\ d.ibLevel = level
    /\ ParentSet(c, level, cur.ib, cur.type, d, Len(c.nodes) + 1)
    /\ d.nodes[n].aux.type = cur.type /\ d.nodes[n].aux.addr = GroupAddr(cur)
    /\ cur.type \in BinTypes =>
          /\ n = Len(c.nodes) + 2 /\ BinField(d.nodes, Len(c.nodes) + 1)
          /\ Starter(c, cur.type) \in 1 .. Len(c.nodes) =>
                Len(c.nodes) + 1 \in KidsOf(d.nodes[Starter(c, cur.type)], "Submit")

LEMMA BinFieldKept ==
    ASSUME NEW s, NEW d, Extends(s, d), Len(s) \in Nat, Len(d) \in Nat, NEW p \in 0 .. Len(s)
    PROVE  BinField(d, p) <=> BinField(s, p)
<1>1. p \in 1 .. Len(s) => p \in 1 .. Len(d)
  BY DEF Extends
<1>2. p \notin 1 .. Len(s) => p \notin 1 .. Len(d)
  OBVIOUS
<1>. QED
  BY <1>1, <1>2 DEF BinField, Extends

LEMMA OnIbStartPlaces ==
    ASSUME NEW c, Good(c), NEW level, NEW cur, cur.type # "Chain", NEW ibIndex, NEW d,
           d = OnIbStart(c, level, cur, ibIndex)
    PROVE  IbPlaced(c, level, cur, d, Len(d.nodes))
<1>. DEFINE tracked == [c EXCEPT !.tracker = PushEnableMask(@, cur.mask), !.ibLevel = level]
            placed  == SharedParent(IbPacketParent(tracked, level), level, cur.ib, cur.type)
            aux     == [type |-> cur.type, index |-> ibIndex, captured |-> ~cur.skip,
                        inst |-> cur.inst, mask |-> cur.mask,
                        addr |-> <<cur.ib.buf, cur.ib.at>>]
            added   == AddNode(placed, "Ib", aux)
            n       == Len(added.nodes)
            u       == "Submit"
            p       == IbParent(added)
            child   == AddChild(added, u, p, n)
            F       == {}
            G       == {"ibParents"}
            k       == Len(c.nodes) + 1
            type    == cur.type
<1>1. d = [child EXCEPT !.ibStack = Append(@, n), !.newIb = TRUE]
  BY DEF OnIbStart, LastNode
<1>0. Good(d)
  BY OnIbStartGood DEF IbOpened
<1>2. /\ Good(tracked) /\ tracked.nodes = c.nodes /\ SamePlaces(c, tracked, {"ibLevel"})
      /\ tracked.ibLevel = level
  <2>0. DOMAIN c = CreatorFields
    BY DEF Good
  <2>1. /\ DOMAIN tracked = CreatorFields /\ tracked.nodes = c.nodes /\ tracked.ibStack = c.ibStack
        /\ tracked.newIb = c.newIb /\ tracked.startStack = c.startStack
        /\ tracked.submitNode = c.submitNode /\ tracked.startBin = c.startBin
        /\ tracked.drawTable = c.drawTable /\ tracked.renderMarker = c.renderMarker
    BY <2>0 DEF CreatorFields
  <2>2. SamePlaces(c, tracked, {"ibLevel"}) /\ tracked.ibLevel = level
    BY <2>0 DEF CreatorFields, SamePlaces, PlaceFields
  <2>. HIDE DEF tracked
  <2>4. Good(tracked)
    BY <2>1, FieldsChanged DEF Good, NodesHeld
  <2>. QED
    BY <2>1, <2>2, <2>4
<1>. HIDE DEF tracked
<1>3. k = Len(tracked.nodes) + 1 /\ Len(c.nodes) \in Nat
  BY <1>2, GoodNodes
<1>4. aux.type = type /\ aux.addr = GroupAddr(cur)
  BY DEF GroupAddr
<1>. HIDE DEF k, aux
<1>5. /\ Places(tracked, placed, G) /\ Good(placed) /\ ParentSet(tracked, level, cur.ib, type, placed, k)
      /\ type \in BinTypes => FieldAdded(tracked, Starter(tracked, type), placed, k)
  BY <1>2, <1>3, PlacedParent DEF Places
<1>. HIDE DEF placed
<1>6. /\ NewLast(placed.nodes, added.nodes, "Ib", aux) /\ Places(placed, added, F) /\ Good(added)
      /\ SameBut(placed, added, {"nodes"})
  BY <1>5, AddNodePlaces, AddNodeGood DEF F, Places, Grows
<1>7. n = Len(placed.nodes) + 1 /\ Len(placed.nodes) \in Nat /\ added.nodes[n].aux = aux
      /\ Orphan(added.nodes, n, u) /\ u \in Topologies
  BY <1>6 DEF NewLast, Topologies
<1>. HIDE DEF added, u
<1>8. p \in 0 .. Len(added.nodes) /\ n \in 1 .. Len(added.nodes) /\ p < n /\ n \in Nat
  <2>1. p = IbParent(placed)
    BY <1>6 DEF IbParent, SameBut, CreatorFields
  <2>2. p \in 1 .. Len(placed.nodes)
    BY <1>5, <2>1, IbParentNode
  <2>. HIDE DEF p
  <2>3. n \in Nat /\ n >= 1
    BY <1>7
  <2>. QED
    BY <1>7, <2>2, <2>3
<1>. HIDE DEF p
<1>9. /\ Places(added, child, F) /\ Good(child) /\ Len(child.nodes) = n
  <2>1. child = AddChild(added, u, p, n)
    OBVIOUS
  <2>. HIDE DEF child
  <2>. QED
    BY <1>6, <1>7, <1>8, <2>1, AddChildPlaces DEF Places, F
<1>. HIDE DEF child
<1>10. d.nodes = child.nodes /\ SamePlaces(child, d, F)
  <2>1. DOMAIN child = CreatorFields
    BY <1>9 DEF Good
  <2>. QED
    BY <1>1, <2>1 DEF CreatorFields, SamePlaces, PlaceFields, F
<1>11. Places(placed, child, F)
  BY <1>5, <1>6, <1>9, PlacesTwice
<1>12. Hangs(tracked.nodes, d.nodes)
  <2>1. Hangs(tracked.nodes, placed.nodes) /\ Hangs(placed.nodes, child.nodes)
    BY <1>5, <1>11 DEF Places
  <2>2. IsSeq(tracked.nodes) /\ IsSeq(placed.nodes) /\ IsSeq(child.nodes)
    BY <1>2, <1>5, <1>9, GoodNodes
  <2>. QED
    BY <1>10, <2>1, <2>2, HangsTwice
<1>13. /\ d.ibParents = placed.ibParents /\ SamePlaces(c, d, {"ibParents", "ibLevel"})
       /\ d.ibLevel = level
  BY <1>2, <1>5, <1>10, <1>11 DEF Places, SamePlaces, PlaceFields, F, G
<1>14. ParentSet(c, level, cur.ib, type, d, k)
  <2>1. tracked.ibParents = c.ibParents /\ tracked.groupInfo = c.groupInfo /\ tracked.ibPacket = c.ibPacket
    BY <1>2 DEF SamePlaces, PlaceFields
  <2>2. GroupAt(tracked, cur.ib) = GroupAt(c, cur.ib)
    BY <2>1 DEF GroupAt
  <2>. QED
    BY <1>5, <1>13, <2>1, <2>2 DEF ParentSet
<1>15. Len(d.nodes) = n /\ d.nodes[n].aux.type = type /\ d.nodes[n].aux.addr = GroupAddr(cur)
  <2>1. child.nodes[n].aux = added.nodes[n].aux
    BY <1>8, <1>9 DEF Places, Hangs, Extends
  <2>. QED
    BY <1>4, <1>7, <1>9, <1>10, <2>1
<1>16. ASSUME type \in BinTypes
       PROVE  /\ n = Len(c.nodes) + 2 /\ BinField(d.nodes, k)
              /\ Starter(c, type) \in 1 .. Len(c.nodes) =>
                    k \in KidsOf(d.nodes[Starter(c, type)], "Submit")
  <2>. DEFINE m == Starter(c, type)
  <2>1. Starter(tracked, type) = m
    BY <1>2 DEF Starter, SamePlaces, PlaceFields
  <2>2. FieldAdded(tracked, m, placed, k)
    BY <1>5, <1>16, <2>1
  <2>. HIDE DEF m
  <2>3. /\ Len(placed.nodes) = k /\ BinField(placed.nodes, k)
        /\ m \in 1 .. Len(c.nodes) => k \in KidsOf(placed.nodes[m], "Submit")
    BY <1>2, <2>2 DEF FieldAdded
  <2>4. n = Len(c.nodes) + 2
    BY <1>3, <1>7, <2>3 DEF k
  <2>5. Hangs(placed.nodes, d.nodes) /\ Len(d.nodes) \in Nat
    BY <1>8, <1>10, <1>11, <1>15 DEF Places
  <2>6. BinField(d.nodes, k)
    <3>1. k \in 0 .. Len(placed.nodes)
      BY <1>7, <2>3
    <3>. QED
      BY <1>7, <2>3, <2>5, <3>1, BinFieldKept DEF Hangs
  <2>7. m \in 1 .. Len(c.nodes) => m \in 1 .. Len(placed.nodes)
    BY <1>3, <2>3 DEF k
  <2>8. m \in 1 .. Len(c.nodes) => k \in KidsOf(d.nodes[m], "Submit")
    BY <2>3, <2>5, <2>7 DEF Hangs, Hung
  <2>. QED
    BY <2>4, <2>6, <2>8 DEF m
<1>. QED
  BY <1>2, <1>12, <1>13, <1>14, <1>15, <1>16 DEF IbPlaced, k, type

LEMMA OnIbEndPlaces ==
    ASSUME NEW c, Good(c), c.ibStack # <<>>, NEW level, NEW d, d = OnIbEnd(c, level),
           c.newIb = FALSE => Len(c.startStack["Submit"]) = Len(c.ibStack),
           c.newIb \in BOOLEAN
    PROVE  Places(c, d, {"ibLevel"}) /\ d.ibLevel = level /\ Len(d.nodes) = Len(c.nodes)
<1>. DEFINE popped == [c EXCEPT !.tracker = PopEnableMask(@)]
            closed == CloseIb(popped)
            last   == PopIb(closed)
            F      == {}
            n      == Last(c.ibStack)
<1>0. Good(d) /\ DOMAIN c = CreatorFields
  BY OnIbEndGood DEF Good
<1>1. d = [last EXCEPT !.ibLevel = level]
  BY DEF OnIbEnd
<1>2. /\ DOMAIN popped = CreatorFields /\ popped.nodes = c.nodes /\ popped.ibStack = c.ibStack
      /\ popped.newIb = c.newIb /\ popped.startStack = c.startStack
      /\ popped.submitNode = c.submitNode /\ popped.startBin = c.startBin
      /\ popped.drawTable = c.drawTable /\ popped.renderMarker = c.renderMarker
      /\ SamePlaces(c, popped, F)
  BY <1>0 DEF CreatorFields, SamePlaces, PlaceFields
<1>. HIDE DEF popped
<1>3. Good(popped)
  BY <1>2, FieldsChanged DEF Good, NodesHeld
<1>4. n \in 1 .. Len(c.nodes)
  BY NonEmptySeq DEF Good, IbsHeld
<1>. HIDE DEF n
<1>5. /\ Hangs(c.nodes, closed.nodes) /\ SamePlaces(c, closed, F) /\ DOMAIN closed = CreatorFields
      /\ Len(closed.nodes) = Len(c.nodes)
  <2>1. CASE c.newIb
    <3>1. closed = [popped EXCEPT !.newIb = FALSE]
      BY <1>2, <2>1 DEF CloseIb
    <3>2. /\ DOMAIN closed = CreatorFields /\ closed.nodes = c.nodes /\ SamePlaces(c, closed, F)
      BY <1>2, <3>1 DEF CreatorFields, SamePlaces, PlaceFields
    <3>3. IsSeq(c.nodes)
      BY GoodNodes
    <3>. QED
      BY <3>2, <3>3, SameHangs
  <2>2. CASE c.newIb = FALSE
    <3>. DEFINE w == "Submit"
                u == Last(popped.startStack["Submit"])
                v == popped.lastAdded
                ranged == SetRange(popped, w, n, u, v)
                rest == Front(popped.startStack["Submit"])
    <3>1. closed = [ranged EXCEPT !.startStack["Submit"] = rest] /\ w \in Topologies
      BY <1>2, <2>2 DEF CloseIb, Topologies, n
    <3>. HIDE DEF w, u, v, rest, closed
    <3>2. Places(popped, ranged, F) /\ Len(ranged.nodes) = Len(popped.nodes)
      BY <1>2, <1>3, <1>4, <3>1, SetRangePlaces DEF F
    <3>. HIDE DEF ranged
    <3>3. DOMAIN ranged = CreatorFields
      BY <3>2 DEF Places, Good
    <3>4. DOMAIN closed = CreatorFields /\ closed.nodes = ranged.nodes /\ SamePlaces(ranged, closed, F)
      BY <3>1, <3>3 DEF CreatorFields, SamePlaces, PlaceFields
    <3>. QED
      BY <1>2, <3>2, <3>4 DEF Places, SamePlaces, F
  <2>. QED
    BY <2>1, <2>2
<1>. HIDE DEF closed
<1>6. last.nodes = closed.nodes /\ SamePlaces(closed, last, F) /\ DOMAIN last = CreatorFields
  <2>. DEFINE keep == {0} \cup {i \in DOMAIN closed.ibStack : NonChainIb(closed, i)}
              x == SubSeq(closed.ibStack, 1, Max(keep) - 1)
              y == SubSeq(closed.startStack["Submit"], 1,
                          Len(closed.startStack["Submit"]) - (Len(closed.ibStack) - Max(keep)))
  <2>1. last = [closed EXCEPT !.ibStack = x, !.startStack["Submit"] = y]
    BY DEF PopIb
  <2>. HIDE DEF x, y, last
  <2>. QED
    BY <1>5, <2>1 DEF CreatorFields, SamePlaces, PlaceFields
<1>. HIDE DEF last
<1>7. d.nodes = last.nodes /\ SamePlaces(last, d, {"ibLevel"}) /\ d.ibLevel = level
  BY <1>1, <1>6 DEF CreatorFields, SamePlaces, PlaceFields
<1>8. SamePlaces(c, d, {"ibLevel"})
  BY <1>5, <1>6, <1>7 DEF SamePlaces, F
<1>. QED
  BY <1>0, <1>5, <1>6, <1>7, <1>8 DEF Places

(* A submit begins: its packets hang below it until an IB is entered. *)
SubmitPlaced(c, d, n) ==
    /\ Hangs(c.nodes, d.nodes) /\ Len(d.nodes) = n /\ n = Len(c.nodes) + 1
    /\ d.ibLevel = 1 /\ d.ibPacket = NoNode /\ d.nodes[n].type = "Submit"
    /\ d.ibParents = [c.ibParents EXCEPT ![1] = n]
    /\ d.groupInfo = c.groupInfo /\ d.startBin = c.startBin /\ d.drawTable = c.drawTable

LEMMA OnSubmitStartPlaces ==
    ASSUME NEW c, Good(c), NEW submit, NEW d, d = OnSubmitStart(c, submit), NEW n, n = Len(c.nodes) + 1
    PROVE  SubmitPlaced(c, d, n)
<1>. DEFINE aux == [index |-> submit]
            k == kRootNodeIndex
            a == AddNodeUnder(c, k, "Submit", aux)
            s == a.nodes
            r == [s[n] EXCEPT !.root = [t \in Topologies |-> n]]
            F == {}
<1>0. Good(d)
  BY OnSubmitStartGood DEF Started
<1>1. kRootNodeIndex \in 0 .. Len(c.nodes) /\ Len(c.nodes) \in Nat
  <2>1. c.submitNode \in 1 .. Len(c.nodes) /\ Len(c.nodes) \in Nat
    BY SeqFacts DEF Good, NodesHeld, Forest
  <2>. QED
    BY <2>1 DEF kRootNodeIndex
<1>2. Places(c, a, F) /\ Len(s) = n /\ s[n].type = "Submit" /\ Good(a)
  <2>1. k \in 0 .. Len(c.nodes)
    BY <1>1
  <2>. HIDE DEF k, aux
  <2>. QED
    BY <2>1, AddNodeUnderPlaces DEF Places, F
<1>3. /\ d.nodes = [s EXCEPT ![n] = r] /\ d.ibLevel = 1 /\ d.ibPacket = NoNode
      /\ d.ibParents = [a.ibParents EXCEPT ![1] = n]
      /\ d.groupInfo = a.groupInfo /\ d.startBin = a.startBin /\ d.drawTable = a.drawTable
  <2>. DEFINE e == [s EXCEPT ![n] = r]
              w == [t \in Topologies |-> <<>>]
              z == [i \in Passes |-> NoNode]
              b == [a EXCEPT !.nodes = e, !.submitNode = n, !.ibLevel = 1, !.ibParents[1] = n]
              f == [b EXCEPT !.ibPacket = NoNode, !.ibStack = <<>>,
                             !.startStack = w, !.renderMarker = NoNode]
              g == [f EXCEPT !.tracker.reg = z, !.tracker.pass = "none"]
  <2>1. d = [g EXCEPT !.newEvent = TRUE, !.newIb = TRUE, !.firstTile = FALSE]
    BY <1>2 DEF OnSubmitStart, LastNode
  <2>2. DOMAIN a = CreatorFields
    BY <1>2 DEF Good
  <2>. HIDE DEF a, s, r, e, w, z
  <2>3. /\ DOMAIN b = CreatorFields /\ b.nodes = e /\ b.ibLevel = 1
        /\ b.ibParents = [a.ibParents EXCEPT ![1] = n] /\ b.groupInfo = a.groupInfo
        /\ b.startBin = a.startBin /\ b.drawTable = a.drawTable
    BY <2>2 DEF CreatorFields
  <2>. HIDE DEF b
  <2>4. /\ DOMAIN f = CreatorFields /\ f.nodes = b.nodes /\ f.ibLevel = b.ibLevel
        /\ f.ibParents = b.ibParents /\ f.groupInfo = b.groupInfo
        /\ f.startBin = b.startBin /\ f.drawTable = b.drawTable /\ f.ibPacket = NoNode
    BY <2>3 DEF CreatorFields
  <2>. HIDE DEF f
  <2>5. /\ DOMAIN g = CreatorFields /\ g.nodes = f.nodes /\ g.ibLevel = f.ibLevel
        /\ g.ibParents = f.ibParents /\ g.groupInfo = f.groupInfo
        /\ g.startBin = f.startBin /\ g.drawTable = f.drawTable /\ g.ibPacket = f.ibPacket
    BY <2>4 DEF CreatorFields
  <2>. HIDE DEF g
  <2>6. /\ d.nodes = g.nodes /\ d.ibLevel = g.ibLevel
        /\ d.ibParents = g.ibParents /\ d.groupInfo = g.groupInfo
        /\ d.startBin = g.startBin /\ d.drawTable = g.drawTable /\ d.ibPacket = g.ibPacket
    BY <2>1, <2>5 DEF CreatorFields
  <2>. QED
    BY <2>3, <2>4, <2>5, <2>6 DEF e
<1>. HIDE DEF a
<1>4. n \in 1 .. Len(s) /\ IsSeq(s) /\ IsSeq(d.nodes) /\ NodeOk(s[n]) /\ Len(s) \in Nat
  <2>1. n \in 1 .. Len(s) /\ IsSeq(s) /\ IsSeq(d.nodes) /\ Len(s) \in Nat
    BY <1>0, <1>1, <1>2, GoodNodes
  <2>. QED
    BY <1>2, <2>1 DEF Good, Forest
<1>5. r.type = s[n].type /\ r.aux = s[n].aux /\ r.kids = s[n].kids /\ r.shared = s[n].shared
  BY <1>4 DEF NodeOk, NodeFields
<1>. HIDE DEF r, s
<1>. DEFINE e == d.nodes
<1>6. Swapped(s, e, n, r)
  BY <1>3, <1>4 DEF Swapped
<1>7. Len(e) = Len(s) /\ Extends(s, e)
  <2>1. SameIn(r, r, "Submit")
    BY DEF SameIn
  <2>2. DOMAIN s = 1 .. Len(s) /\ Len(s) \in Nat /\ DOMAIN e = 1 .. Len(e) /\ Len(e) \in Nat
    BY <1>4, SeqFacts
  <2>3. e[n] = r /\ DOMAIN e = DOMAIN s /\ \A m \in 1 .. Len(s) : m # n => e[m] = s[m]
    BY <1>3, <1>4, <2>2
  <2>. DEFINE N == Len(s)
              D == Len(e)
  <2>4. D = N
    <3>0. N \in Nat /\ D \in Nat /\ 1 .. N = 1 .. D
      BY <2>2, <2>3
    <3>. HIDE DEF N, D
    <3>. QED
      BY <3>0
  <2>5. N <= D
    BY <2>2, <2>4
  <2>. QED
    BY <1>5, <2>3, <2>4, <2>5 DEF Extends
<1>8. Hangs(s, e)
  <2>1. n \in 1 .. Len(s) => Hung(s[n], r)
    BY <1>5 DEF Hung, SharedOf, KidsOf
  <2>. QED
    BY <1>6, <1>7, <2>1, HangsReplace
<1>9. Hangs(c.nodes, e)
  <2>1. Hangs(c.nodes, s)
    BY <1>2 DEF Places, s
  <2>2. IsSeq(c.nodes)
    BY GoodNodes
  <2>. QED
    BY <1>4, <1>8, <2>1, <2>2, HangsTwice
<1>10. /\ a.ibParents = c.ibParents /\ a.groupInfo = c.groupInfo /\ a.startBin = c.startBin
       /\ a.drawTable = c.drawTable
  BY <1>2 DEF Places, SamePlaces, PlaceFields, F
<1>11. e[n].type = "Submit"
  BY <1>2, <1>4, <1>7 DEF Extends, s
<1>. QED
  BY <1>2, <1>3, <1>7, <1>9, <1>10, <1>11 DEF SubmitPlaced, s

LEMMA SetIbsPlaces ==
    ASSUME NEW c, Good(c), NEW ibs \in SortedIbs(c), NEW d, d = SetIbs(c, ibs)
    PROVE  Places(c, d, {})
<1>. DEFINE s == c.nodes
            e == d.nodes
            n == c.submitNode
            r == [s[n] EXCEPT !.kids = [s[n].kids EXCEPT !["Submit"] = ibs]]
            F == {}
<1>1. Grows(c, d)
  BY SetIbsGood
<1>2. n \in 1 .. Len(s) /\ NodeOk(s[n]) /\ IsSeq(s) /\ IsSeq(e)
  BY <1>1, GoodNodes DEF Good, NodesHeld, Forest, Grows
<1>3. e = [s EXCEPT ![n] = r]
  BY DEF SetIbs, Good, CreatorFields
<1>4. Hung(s[n], r)
  <2>1. r.shared = s[n].shared /\ r.kids = [s[n].kids EXCEPT !["Submit"] = ibs]
    BY <1>2 DEF NodeOk, NodeFields
  <2>2. r.kids["Submit"] = ibs
    BY <1>2, <2>1 DEF NodeOk, Topologies
  <2>3. Range(ibs) = Range(s[n].kids["Submit"])
    BY DEF SortedIbs
  <2>. QED
    BY <2>1, <2>2, <2>3 DEF Hung, SharedOf, KidsOf
<1>. HIDE DEF r, s, e, n
<1>5. Swapped(s, e, n, r) /\ Extends(s, e)
  BY <1>1, <1>2, <1>3 DEF Swapped, Grows, s, e
<1>6. Len(e) = Len(s)
  <2>1. DOMAIN s = 1 .. Len(s) /\ Len(s) \in Nat /\ DOMAIN e = 1 .. Len(e) /\ Len(e) \in Nat
    BY <1>2, SeqFacts
  <2>2. DOMAIN e = DOMAIN s
    BY <1>3
  <2>. DEFINE N == Len(s)
              D == Len(e)
  <2>3. N \in Nat /\ D \in Nat /\ 1 .. N = 1 .. D
    BY <2>1, <2>2
  <2>. HIDE DEF N, D
  <2>4. D = N
    BY <2>3
  <2>. QED
    BY <2>4 DEF N, D
<1>7. Hangs(s, e)
  BY <1>4, <1>5, <1>6, HangsReplace
<1>8. SamePlaces(c, d, F)
  BY <1>1 DEF Grows, SameBut, CreatorFields, SamePlaces, PlaceFields
<1>. QED
  BY <1>1, <1>7, <1>8 DEF Places, Grows, s, e, F

LEMMA AddPresentsPlaces ==
    ASSUME NEW c, Good(c), NEW number \in Nat, NEW d, d = AddPresents(c, number)
    PROVE  Places(c, d, {})
<1>. DEFINE s    == c.nodes
            e    == d.nodes
            N    == Len(s)
            new  == [i \in 1 .. number |-> Node("Present", [id |-> 0])]
            kids == s[1].kids["AllEvent"] \o [i \in 1 .. number |-> N + i]
            r    == [s[1] EXCEPT !.kids = [s[1].kids EXCEPT !["AllEvent"] = kids]]
            q    == [s EXCEPT ![1] = r]
            F    == {}
<1>1. Grows(c, d)
  BY AddPresentsGood
<1>2. N \in Nat /\ 1 \in 1 .. N /\ IsSeq(s) /\ DOMAIN s = 1 .. N /\ NodeOk(s[1])
  <2>1. N \in Nat /\ c.submitNode \in 1 .. N /\ IsSeq(s) /\ DOMAIN s = 1 .. N
    BY GoodNodes DEF Good, NodesHeld
  <2>2. 1 \in 1 .. N
    BY <2>1
  <2>. QED
    BY <2>1, <2>2 DEF Good, Forest
<1>3. e = q \o new
  BY <1>2 DEF AddPresents, kRootNodeIndex, LastNode, Good, CreatorFields, NodeOk
<1>. HIDE DEF N, kids
<1>4. /\ IsSeq(new) /\ Len(new) = number
      /\ \A i \in 1 .. number : SharedOf(new[i], "Submit") = {}
  <2>1. new = [i \in 1 .. number |-> new[i]]
    OBVIOUS
  <2>2. \A i \in 1 .. number : new[i].shared["Submit"] = <<>>
    BY DEF Node, Topologies
  <2>. HIDE DEF new
  <2>3. \A i \in 1 .. number : SharedOf(new[i], "Submit") = {}
    BY <2>2, EmptySequence DEF SharedOf
  <2>. QED
    BY <2>1, <2>3, SeqIntro
<1>. HIDE DEF new
<1>5. Hung(s[1], r)
  <2>1. /\ r.shared = s[1].shared /\ r.kids = [s[1].kids EXCEPT !["AllEvent"] = kids]
    BY <1>2 DEF NodeOk, NodeFields
  <2>2. r.kids["Submit"] = s[1].kids["Submit"]
    BY <1>2, <2>1 DEF NodeOk, Topologies
  <2>. QED
    BY <2>1, <2>2 DEF Hung, SharedOf, KidsOf
<1>. HIDE DEF r
<1>6. /\ DOMAIN q = 1 .. N /\ q[1] = r
      /\ \A m \in 1 .. N : m # 1 => q[m] = s[m]
  BY <1>2
<1>7. IsSeq(q) /\ Len(q) = N
  <2>1. q = [i \in 1 .. N |-> q[i]]
    BY <1>2
  <2>. QED
    BY <1>2, <2>1, SeqIntro
<1>. HIDE DEF q
<1>8. \A m \in 1 .. N : Hung(s[m], q[m])
  BY <1>5, <1>6 DEF Hung
<1>9. /\ Len(e) = N + number
      /\ \A m \in 1 .. N : e[m] = q[m]
      /\ \A i \in 1 .. number : e[N + i] = new[i]
  <2>1. /\ Len(q \o new) = Len(q) + Len(new)
        /\ \A i \in 1 .. Len(q) : (q \o new)[i] = q[i]
        /\ \A i \in 1 .. Len(new) : (q \o new)[Len(q) + i] = new[i]
    <3>1. IsSeq(q) /\ IsSeq(new)
      BY <1>4, <1>7
    <3>. QED
      BY <3>1, ConcatSeq
  <2>. QED
    BY <1>3, <1>4, <1>7, <2>1, Zenon
<1>10. \A m \in 1 .. Len(e) : m > N => SharedOf(e[m], "Submit") = {}
  <2>1. \A m \in 1 .. N + number : m > N => m - N \in 1 .. number /\ m = N + (m - N)
    BY <1>2
  <2>. QED
    BY <1>4, <1>9, <2>1
<1>11. \A m \in 1 .. N : Hung(s[m], e[m])
  BY <1>8, <1>9
<1>12. Hangs(s, e)
  BY <1>1, <1>10, <1>11 DEF Hangs, Grows, N
<1>13. SamePlaces(c, d, F)
  BY <1>1 DEF Grows, SameBut, CreatorFields, SamePlaces, PlaceFields
<1>. QED
  BY <1>1, <1>12, <1>13 DEF Places, Grows, F

LEMMA OnSubmitEndPlaces ==
    ASSUME NEW c, Good(c), NEW submit, NEW presents, IsSeq(presents), NEW ibs \in SortedIbs(c),
           NEW d, d = OnSubmitEnd(c, submit, presents, ibs)
    PROVE  Places(c, d, {})
<1>. DEFINE P == {i \in DOMAIN presents : presents[i] = submit}
            b == SetIbs(c, ibs)
            F == {}
<1>1. Cardinality(P) \in Nat
  <2>1. DOMAIN presents = 1 .. Len(presents) /\ Len(presents) \in Nat
    BY SeqFacts
  <2>2. IsFiniteSet(DOMAIN presents)
    BY <2>1, FS_Interval
  <2>3. P \subseteq DOMAIN presents
    OBVIOUS
  <2>. HIDE DEF P
  <2>. QED
    BY <2>2, <2>3, FS_Subset, FS_CardinalityType
<1>2. d = AddPresents(b, Cardinality(P))
  BY DEF OnSubmitEnd
<1>. HIDE DEF P
<1>3. Good(b) /\ Places(c, b, F)
  BY SetIbsPlaces DEF Places, F
<1>. HIDE DEF b
<1>4. Places(b, d, F)
  BY <1>1, <1>2, <1>3, AddPresentsPlaces DEF F
<1>. HIDE DEF F
<1>5. Places(c, d, F)
  BY <1>3, <1>4, PlacesTwice
<1>. QED
  BY <1>5 DEF F

-----------------------------------------------------------------------------
(* Where the packets belong.  The nodes of s are in d, with no fewer children. *)

Older(s, d) ==
    /\ Len(s) \in Nat /\ Len(d) \in Nat /\ Extends(s, d)
    /\ \A n \in 1 .. Len(s) : KidsOf(s[n], "Submit") \subseteq KidsOf(d[n], "Submit")

NoPackets(s, d) == \A n \in 1 .. Len(d) : n > Len(s) => d[n].type # "Packet"

(* The IB b has its field node, which precedes it, for a parent, or none. *)
ParentKind(s, b, p) ==
    IF s[b].aux.type \in BinTypes THEN p = b - 1 /\ BinField(s, p) ELSE ~BinField(s, p)

(* n hangs below p and below no other node. *)
OnlyParent(s, n, p) == \A m \in 1 .. Len(s) : n \in SharedOf(s[m], "Submit") <=> m = p

(* q is the last packet that was emulated in the IBs of the path before b. *)
IsCaller(s, b, path, q) ==
    /\ q \in Of(s, "Packet") /\ q < b /\ s[q].aux.insts = path
    /\ \A r \in Of(s, "Packet") : r < b /\ s[r].aux.insts = path => r <= q

Unsuperseded(s, q, b) ==
    \A r \in Of(s, "Packet") : q < r /\ r < b => s[r].aux.op \notin KindOf(s[b].aux.type)

(* What SharedParents says of the IB b, which q called, and the parent p. *)
UnderField(s, q, b, p) ==
    /\ p # NoNode /\ p \in KidsOf(s[q], "Submit") /\ s[p].type = "Field"
    /\ s[b].aux.type = "DrawState" => s[p].aux.addr = s[b].aux.addr

Home(s, q, b, p) ==
    /\ s[b].aux.type \in NestedTypes
    /\ s[b].aux.type \in CallTypes => p = q
    /\ s[b].aux.type \notin CallTypes /\ Unsuperseded(s, q, b) => UnderField(s, q, b, p)

Placed(s, b, path, p) ==
    /\ b \in 1 .. Len(s) /\ p \in 0 .. Len(s) /\ ParentKind(s, b, p)
    /\ path # <<>> => \E q : IsCaller(s, b, path, q) /\ Home(s, q, b, p)

PacketHome(s, n) ==
    /\ s[n].aux.insts # <<>>
    /\ \E b \in Of(s, "Ib") :
          /\ s[b].aux.inst = Last(s[n].aux.insts)
          /\ \E p : OnlyParent(s, n, p) /\ Placed(s, b, Front(s[n].aux.insts), p)

PacketsHome(s) == \A n \in Of(s, "Packet") : PacketHome(s, n)

LEMMA OlderNodes ==
    ASSUME NEW s, NEW d, Older(s, d)
    PROVE  /\ \A n \in 1 .. Len(s) : n \in 1 .. Len(d) /\ d[n].type = s[n].type /\ d[n].aux = s[n].aux
           /\ \A type : \A n \in Of(s, type) : n \in Of(d, type)
           /\ \A type : \A n \in Of(d, type) : n <= Len(s) => n \in Of(s, type)
<1>1. \A n \in 1 .. Len(s) : n \in 1 .. Len(d) /\ d[n].type = s[n].type /\ d[n].aux = s[n].aux
  BY DEF Older, Extends
<1>2. \A n \in 1 .. Len(d) : n <= Len(s) => n \in 1 .. Len(s)
  BY DEF Older
<1>. QED
  BY <1>1, <1>2 DEF Of

LEMMA HangsOlder ==
    ASSUME NEW s, NEW d, IsSeq(s), IsSeq(d), Hangs(s, d)
    PROVE  Older(s, d)
BY SeqFacts DEF Hangs, Hung, Older

LEMMA AttachedOlder ==
    ASSUME NEW s, NEW d, IsSeq(s), IsSeq(d), NEW P, NEW n, Attached(s, d, P, n)
    PROVE  Older(s, d)
BY SeqFacts DEF Attached, Older

LEMMA PlacedKept ==
    ASSUME NEW s, NEW d, Older(s, d), NEW b, NEW path, NEW p, Placed(s, b, path, p)
    PROVE  Placed(d, b, path, p)
<1>1. /\ b \in 1 .. Len(s) /\ p \in 0 .. Len(s) /\ Len(s) \in Nat /\ Len(d) \in Nat
      /\ b \in 1 .. Len(d) /\ d[b].aux = s[b].aux /\ Extends(s, d)
  BY OlderNodes DEF Placed, Older
<1>2. p \in 0 .. Len(d) /\ (p # 0 => p \in 1 .. Len(s))
  BY <1>1 DEF Extends
<1>3. ParentKind(d, b, p)
  <2>1. BinField(d, p) <=> BinField(s, p)
    BY <1>1, BinFieldKept
  <2>. QED
    BY <1>1, <2>1 DEF Placed, ParentKind
<1>4. ASSUME path # <<>>
      PROVE  \E q : IsCaller(d, b, path, q) /\ Home(d, q, b, p)
  <2>1. PICK q : IsCaller(s, b, path, q) /\ Home(s, q, b, p)
    BY <1>4 DEF Placed
  <2>2. q \in Of(s, "Packet") /\ q < b /\ s[q].aux.insts = path
    BY <2>1 DEF IsCaller
  <2>3. q \in 1 .. Len(s) /\ q \in Of(d, "Packet") /\ d[q].aux = s[q].aux
    BY <2>2, OlderNodes DEF Of
  <2>4. \A r \in Of(d, "Packet") : r < b => r \in Of(s, "Packet") /\ d[r].aux = s[r].aux
    <3>1. \A r \in Of(d, "Packet") : r \in Nat
      BY <1>1 DEF Of
    <3>2. \A r \in Of(d, "Packet") : r < b => r <= Len(s)
      BY <1>1, <3>1
    <3>. QED
      BY <3>2, OlderNodes DEF Of
  <2>5. IsCaller(d, b, path, q)
    BY <2>1, <2>2, <2>3, <2>4 DEF IsCaller
  <2>6. Unsuperseded(d, q, b) => Unsuperseded(s, q, b)
    <3>1. \A r \in Of(s, "Packet") : r \in Of(d, "Packet") /\ d[r].aux = s[r].aux
      BY OlderNodes DEF Of
    <3>. QED
      BY <1>1, <3>1 DEF Unsuperseded
  <2>7. UnderField(s, q, b, p) => UnderField(d, q, b, p)
    <3>. SUFFICES ASSUME UnderField(s, q, b, p) PROVE UnderField(d, q, b, p)
      OBVIOUS
    <3>1. p \in KidsOf(d[q], "Submit")
      BY <2>3 DEF UnderField, Older
    <3>2. p \in 1 .. Len(s) => d[p].type = s[p].type /\ d[p].aux = s[p].aux
      BY OlderNodes
    <3>. QED
      BY <1>1, <1>2, <3>1, <3>2 DEF UnderField, NoNode
  <2>8. Home(d, q, b, p)
    BY <1>1, <2>1, <2>6, <2>7 DEF Home
  <2>. QED
    BY <2>5, <2>8
<1>. QED
  BY <1>1, <1>2, <1>3, <1>4 DEF Placed

LEMMA OnlyParentKept ==
    ASSUME NEW s, NEW d, IsSeq(s), IsSeq(d), NEW n, NEW p \in 0 .. Len(s), OnlyParent(s, n, p),
           \A m \in 1 .. Len(s) : n \in SharedOf(d[m], "Submit") <=> n \in SharedOf(s[m], "Submit"),
           \A m \in 1 .. Len(d) : m > Len(s) => SharedOf(d[m], "Submit") = {}
    PROVE  OnlyParent(d, n, p)
<1>. SUFFICES ASSUME NEW m \in 1 .. Len(d) PROVE n \in SharedOf(d[m], "Submit") <=> m = p
  BY DEF OnlyParent
<1>1. Len(s) \in Nat /\ Len(d) \in Nat
  BY SeqFacts
<1>2. CASE m \in 1 .. Len(s)
  BY <1>2 DEF OnlyParent
<1>3. CASE m \notin 1 .. Len(s)
  <2>1. m > Len(s) /\ m # p
    BY <1>1, <1>3
  <2>2. SharedOf(d[m], "Submit") = {}
    BY <2>1
  <2>. QED
    BY <2>1, <2>2
<1>. QED
  BY <1>2, <1>3

(* A packet that has its place keeps it, whatever is added. *)
LEMMA PacketHomeKept ==
    ASSUME NEW s, NEW d, IsSeq(s), IsSeq(d), Older(s, d), NEW n \in Of(s, "Packet"), PacketHome(s, n),
           \A m \in 1 .. Len(s) : n \in SharedOf(d[m], "Submit") <=> n \in SharedOf(s[m], "Submit"),
           \A m \in 1 .. Len(d) : m > Len(s) => SharedOf(d[m], "Submit") = {}
    PROVE  PacketHome(d, n)
<1>. DEFINE u == s[n].aux.insts
<1>1. d[n].aux.insts = u /\ u # <<>>
  BY OlderNodes DEF Of, PacketHome
<1>2. PICK b \in Of(s, "Ib") :
          /\ s[b].aux.inst = Last(u)
          /\ \E p : OnlyParent(s, n, p) /\ Placed(s, b, Front(u), p)
  BY DEF PacketHome
<1>0. PICK p : OnlyParent(s, n, p) /\ Placed(s, b, Front(u), p)
  BY <1>2
<1>. HIDE DEF u
<1>3. b \in Of(d, "Ib") /\ d[b].aux.inst = Last(u)
  BY <1>2, OlderNodes DEF Of
<1>4. p \in 0 .. Len(s)
  BY <1>0 DEF Placed
<1>5. OnlyParent(d, n, p)
  BY <1>0, <1>4, OnlyParentKept
<1>6. Placed(d, b, Front(u), p)
  BY <1>0, PlacedKept
<1>. QED
  BY <1>1, <1>3, <1>5, <1>6 DEF PacketHome

LEMMA HangsHomes ==
    ASSUME NEW s, NEW d, IsSeq(s), IsSeq(d), Hangs(s, d), NoPackets(s, d), PacketsHome(s)
    PROVE  PacketsHome(d)
<1>. SUFFICES ASSUME NEW n \in Of(d, "Packet") PROVE PacketHome(d, n)
  BY DEF PacketsHome
<1>1. Older(s, d)
  BY HangsOlder
<1>2. n \in Of(s, "Packet")
  <2>1. n \in 1 .. Len(d) /\ d[n].type = "Packet" /\ Len(s) \in Nat /\ Len(d) \in Nat
    BY SeqFacts DEF Of
  <2>2. ~(n > Len(s))
    BY <2>1 DEF NoPackets
  <2>3. n <= Len(s)
    BY <2>1, <2>2
  <2>. QED
    BY <1>1, <2>3, OlderNodes
<1>3. /\ \A m \in 1 .. Len(s) : SharedOf(d[m], "Submit") = SharedOf(s[m], "Submit")
      /\ \A m \in 1 .. Len(d) : m > Len(s) => SharedOf(d[m], "Submit") = {}
  BY DEF Hangs, Hung
<1>. QED
  BY <1>1, <1>2, <1>3, PacketHomeKept DEF PacketsHome

(* A new packet gets the place of its IB. *)
LEMMA AttachedHomes ==
    ASSUME NEW s, NEW d, Forest(s), IsSeq(d), NEW P \in 0 .. Len(s), NEW n, n = Len(s) + 1,
           Attached(s, d, P, n), n \in Of(d, "Packet"),
           \A m \in 1 .. Len(d) : m > n => d[m].type # "Packet",
           PacketsHome(s), d[n].aux.insts # <<>>,
           NEW b \in Of(s, "Ib"), s[b].aux.inst = Last(d[n].aux.insts),
           Placed(s, b, Front(d[n].aux.insts), P)
    PROVE  PacketsHome(d)
<1>. DEFINE N == Len(s)
            u == d[n].aux.insts
<1>0. IsSeq(s) /\ N \in Nat /\ Len(d) \in Nat
  BY SeqFacts DEF Forest
<1>1. Older(s, d)
  BY <1>0, AttachedOlder
<1>2. \A m \in 1 .. Len(d) : m > Len(s) => SharedOf(d[m], "Submit") = {}
  BY DEF Attached
<1>3. \A m \in Of(d, "Packet") : m = n \/ m \in Of(s, "Packet")
  <2>. TAKE m \in Of(d, "Packet")
  <2>1. m \in 1 .. Len(d) /\ m \in Nat /\ d[m].type = "Packet"
    BY <1>0 DEF Of
  <2>2. ~(m > n)
    BY <2>1
  <2>3. m = n \/ m <= N
    BY <1>0, <2>1, <2>2
  <2>. QED
    BY <1>1, <2>3, OlderNodes
<1>4. \A m \in 1 .. N : \A k \in SharedOf(s[m], "Submit") : k \in 1 .. N
  BY DEF Forest, Topologies
<1>5. \A m \in 1 .. N : n \notin SharedOf(s[m], "Submit")
  <2>1. n \notin 1 .. N
    BY <1>0
  <2>. QED
    BY <1>4, <2>1
<1>6. OnlyParent(d, n, P)
  <2>. SUFFICES ASSUME NEW m \in 1 .. Len(d) PROVE n \in SharedOf(d[m], "Submit") <=> m = P
    BY DEF OnlyParent
  <2>1. CASE m \in 1 .. N
    <3>1. SharedOf(d[m], "Submit") = SharedOf(s[m], "Submit") \cup (IF m = P THEN {n} ELSE {})
      BY <2>1 DEF Attached
    <3>. QED
      BY <1>5, <2>1, <3>1
  <2>2. CASE m \notin 1 .. N
    <3>1. m > N /\ m # P
      BY <1>0, <2>2
    <3>. QED
      BY <1>2, <3>1
  <2>. QED
    BY <2>1, <2>2
<1>7. PacketHome(d, n)
  <2>1. b \in Of(d, "Ib") /\ d[b].aux.inst = Last(u)
    BY <1>1, OlderNodes DEF Of
  <2>2. Placed(d, b, Front(u), P)
    BY <1>1, PlacedKept
  <2>. QED
    BY <1>6, <2>1, <2>2 DEF PacketHome
<1>8. ASSUME NEW m \in Of(s, "Packet") PROVE PacketHome(d, m)
  <2>1. m # n
    BY <1>0 DEF Of
  <2>2. \A k \in 1 .. N : SharedOf(d[k], "Submit") = SharedOf(s[k], "Submit") \cup (IF k = P THEN {n} ELSE {})
    BY DEF Attached
  <2>3. \A k \in 1 .. N : m \in SharedOf(d[k], "Submit") <=> m \in SharedOf(s[k], "Submit")
    BY <2>1, <2>2
  <2>4. PacketHome(s, m)
    BY DEF PacketsHome
  <2>. QED
    BY <1>0, <1>1, <1>2, <2>3, <2>4, PacketHomeKept
<1>. QED
  BY <1>3, <1>7, <1>8 DEF PacketsHome

-----------------------------------------------------------------------------
(* The entries of a queue that are still pending. *)

NoLater(s, q, K) == \A r \in Of(s, "Packet") : r > q => s[r].aux.op \notin K

Cached(c, q, addr) ==
    /\ \E i \in 1 .. Len(c.groupInfo) : c.groupInfo[i].addr = addr
    /\ \A i \in 1 .. Len(c.groupInfo) : c.groupInfo[i].node \in KidsOf(c.nodes[q], "Submit")

(* The creator remembers q as the packet that queued e. *)
Held(c, q, e) ==
    /\ e.type = "DrawState" => Cached(c, q, GroupAddr(e))
    /\ e.type \in {"BinPrefix", "BinCommon"} => c.startBin = q
    /\ e.type = "FixedStrideDrawTable" => c.drawTable = q

Fits(c, q, e) ==
    /\ e.type \in NestedTypes \cup {"Chain"}
    /\ e.type \in CallTypes => c.ibPacket = q
    /\ NoLater(c.nodes, q, KindOf(e.type)) => Held(c, q, e)

(* q is the last packet that was emulated in the IBs of the path. *)
LastAt(s, path, q) ==
    /\ q \in Of(s, "Packet") /\ s[q].aux.insts = path
    /\ \A r \in Of(s, "Packet") : s[r].aux.insts = path => r <= q

(* What is pending at a level was queued by the last packet of its path; a call is
   the only entry of its queue, and pending at the top only. *)
Waits(c, path, level, top) ==
    \A j \in 1 .. Len(level.queue) : j >= level.next =>
        /\ \E q : LastAt(c.nodes, path, q) /\ Fits(c, q, level.queue[j])
        /\ level.queue[j].type \in SoleTypes => Len(level.queue) = 1 /\ top

LEMMA CachedKept ==
    ASSUME NEW c, NEW d, Older(c.nodes, d.nodes), d.groupInfo = c.groupInfo,
           NEW q \in 1 .. Len(c.nodes), NEW addr, Cached(c, q, addr)
    PROVE  Cached(d, q, addr)
BY DEF Cached, Older

LEMMA WaitsKept ==
    ASSUME NEW c, NEW d, Older(c.nodes, d.nodes), NoPackets(c.nodes, d.nodes),
           SamePlaces(c, d, {"ibParents", "ibLevel"}),
           NEW path, NEW level, NEW top, Waits(c, path, level, top)
    PROVE  Waits(d, path, level, top)
<1>. DEFINE s == c.nodes
            e == d.nodes
<1>1. /\ d.groupInfo = c.groupInfo /\ d.startBin = c.startBin /\ d.drawTable = c.drawTable
      /\ d.ibPacket = c.ibPacket
  BY DEF SamePlaces, PlaceFields
<1>2. \A r \in Of(e, "Packet") : r \in Of(s, "Packet")
  <2>. TAKE r \in Of(e, "Packet")
  <2>1. r \in 1 .. Len(e) /\ e[r].type = "Packet" /\ Len(s) \in Nat /\ Len(e) \in Nat
    BY DEF Of, Older
  <2>2. ~(r > Len(s))
    BY <2>1 DEF NoPackets
  <2>3. r <= Len(s)
    BY <2>1, <2>2
  <2>. QED
    BY <2>3, OlderNodes
<1>3. \A r \in Of(s, "Packet") : r \in Of(e, "Packet") /\ e[r].aux = s[r].aux /\ r \in 1 .. Len(s)
  BY OlderNodes DEF Of
<1>. SUFFICES ASSUME NEW j \in 1 .. Len(level.queue), j >= level.next
              PROVE  /\ \E q : LastAt(e, path, q) /\ Fits(d, q, level.queue[j])
                     /\ level.queue[j].type \in SoleTypes => Len(level.queue) = 1 /\ top
  BY DEF Waits
<1>. DEFINE f == level.queue[j]
<1>4. PICK q : LastAt(s, path, q) /\ Fits(c, q, f)
  BY DEF Waits
<1>5. LastAt(e, path, q)
  BY <1>2, <1>3, <1>4 DEF LastAt
<1>6. NoLater(e, q, KindOf(f.type)) => NoLater(s, q, KindOf(f.type))
  BY <1>3 DEF NoLater
<1>7. q \in 1 .. Len(s)
  BY <1>3, <1>4 DEF LastAt
<1>8. Held(c, q, f) => Held(d, q, f)
  BY <1>1, <1>7, CachedKept DEF Held
<1>9. Fits(d, q, f)
  BY <1>1, <1>4, <1>6, <1>8 DEF Fits
<1>. QED
  BY <1>5, <1>9 DEF Waits

(* The packet p was reported, in the IBs insts, and got the node n. *)
Reported(c, d, p, n, insts) ==
    /\ Older(c.nodes, d.nodes) /\ n = Len(c.nodes) + 1 /\ n \in Of(d.nodes, "Packet")
    /\ d.nodes[n].aux.op = p.op /\ d.nodes[n].aux.insts = insts
    /\ \A m \in 1 .. Len(d.nodes) : m > n => d.nodes[m].type # "Packet"
    /\ PacketCached(c, p, n, d)

(* A packet of an IB further up does not disturb what is pending below. *)
LEMMA WaitsBelow ==
    ASSUME NEW c, NEW d, NEW p, NEW n, NEW insts, Reported(c, d, p, n, insts),
           NEW path, insts # path, NEW level, NEW top, ~top, Waits(c, path, level, top)
    PROVE  Waits(d, path, level, top)
<1>. DEFINE s == c.nodes
            e == d.nodes
<1>0. /\ Older(s, e) /\ n = Len(s) + 1 /\ PacketCached(c, p, n, d) /\ n \in Of(e, "Packet")
      /\ e[n].aux.op = p.op /\ e[n].aux.insts # path
      /\ \A m \in 1 .. Len(e) : m > n => e[m].type # "Packet"
  BY DEF Reported
<1>1. \A r \in Of(s, "Packet") : r \in Of(e, "Packet") /\ e[r].aux = s[r].aux /\ r \in 1 .. Len(s)
  BY <1>0, OlderNodes DEF Of
<1>2. \A r \in Of(e, "Packet") : r = n \/ r \in Of(s, "Packet")
  <2>. TAKE r \in Of(e, "Packet")
  <2>1. r \in 1 .. Len(e) /\ e[r].type = "Packet" /\ Len(s) \in Nat /\ Len(e) \in Nat
    BY <1>0 DEF Of, Older
  <2>2. ~(r > n)
    BY <1>0, <2>1
  <2>3. r = n \/ r <= Len(s)
    BY <1>0, <2>1, <2>2
  <2>. QED
    BY <1>0, <2>3, OlderNodes
<1>. SUFFICES ASSUME NEW j \in 1 .. Len(level.queue), j >= level.next
              PROVE  /\ \E q : LastAt(e, path, q) /\ Fits(d, q, level.queue[j])
                     /\ level.queue[j].type \notin SoleTypes
  BY DEF Waits
<1>. DEFINE f == level.queue[j]
<1>3. PICK q : LastAt(s, path, q) /\ Fits(c, q, f)
  BY DEF Waits
<1>4. f.type \notin SoleTypes
  BY DEF Waits
<1>. HIDE DEF f
<1>5. q \in Of(s, "Packet") /\ q \in 1 .. Len(s) /\ q \in Nat /\ Len(s) \in Nat /\ n > q
  <2>1. q \in Of(s, "Packet") /\ q \in 1 .. Len(s) /\ Len(s) \in Nat
    BY <1>0, <1>1, <1>3 DEF LastAt, Older
  <2>. QED
    BY <1>0, <2>1
<1>6. LastAt(e, path, q)
  BY <1>0, <1>1, <1>2, <1>3 DEF LastAt
<1>7. ASSUME NoLater(e, q, KindOf(f.type)) PROVE Held(d, q, f)
  <2>1. NoLater(s, q, KindOf(f.type)) /\ p.op \notin KindOf(f.type)
    BY <1>0, <1>1, <1>5, <1>7 DEF NoLater
  <2>2. Held(c, q, f)
    BY <1>3, <2>1 DEF Fits
  <2>3. CASE f.type = "DrawState"
    <3>1. p.op # "drawState"
      BY <2>1, <2>3 DEF KindOf
    <3>2. d.groupInfo = c.groupInfo
      BY <1>0, <3>1 DEF PacketCached
    <3>. QED
      BY <1>0, <1>5, <2>2, <2>3, <3>2, CachedKept DEF Held
  <2>4. CASE f.type \in {"BinPrefix", "BinCommon"}
    <3>1. p.op # "startBin" /\ p.op # "endBin"
      BY <2>1, <2>4 DEF KindOf
    <3>2. d.startBin = c.startBin
      BY <1>0, <3>1 DEF PacketCached
    <3>. QED
      BY <2>2, <2>4, <3>2 DEF Held
  <2>5. CASE f.type = "FixedStrideDrawTable"
    <3>1. p.op # "drawTable"
      BY <2>1, <2>5 DEF KindOf
    <3>2. d.drawTable = c.drawTable
      BY <1>0, <3>1 DEF PacketCached
    <3>. QED
      BY <2>2, <2>5, <3>2 DEF Held
  <2>. QED
    BY <2>3, <2>4, <2>5 DEF Held
<1>8. Fits(d, q, f)
  BY <1>3, <1>4, <1>7 DEF Fits, SoleTypes
<1>. QED
  BY <1>4, <1>6, <1>8 DEF f

(* What the packet n has queued itself. *)
LEMMA WaitsQueued ==
    ASSUME NEW c, NEW d, NEW p, NEW n, n = Len(c.nodes) + 1, Older(c.nodes, d.nodes),
           p.op = "drawState" => IsSeq(p.groups),
           PacketCached(c, p, n, d), n \in Of(d.nodes, "Packet"),
           \A m \in 1 .. Len(d.nodes) : m > n => d.nodes[m].type # "Packet",
           NEW path, d.nodes[n].aux.insts = path, NEW level, Left(p, level)
    PROVE  Waits(d, path, level, TRUE)
<1>. DEFINE e == d.nodes
<1>1. LastAt(e, path, n)
  <2>1. \A r \in Of(e, "Packet") : r \in Nat /\ ~(r > n)
    BY DEF Of, Older
  <2>2. n \in Nat
    BY DEF Older
  <2>3. \A r \in Of(e, "Packet") : r <= n
    BY <2>1, <2>2
  <2>. QED
    BY <2>3 DEF LastAt
<1>. SUFFICES ASSUME NEW j \in 1 .. Len(level.queue), j >= level.next
              PROVE  /\ Fits(d, n, level.queue[j])
                     /\ level.queue[j].type \in SoleTypes => Len(level.queue) = 1
  BY <1>1 DEF Waits
<1>. DEFINE f == level.queue[j]
<1>2. Issued(p, f) /\ (f.type \in SoleTypes => Len(level.queue) = 1)
  BY DEF Left
<1>. HIDE DEF f
<1>3. f.type \in NestedTypes \cup {"Chain"}
  BY <1>2 DEF Issued, NestedTypes, CallTypes, BinTypes
<1>4. f.type \in CallTypes => d.ibPacket = n
  <2>. SUFFICES ASSUME f.type \in CallTypes PROVE d.ibPacket = n
    OBVIOUS
  <2>1. p.op \in CallOps
    BY <1>2 DEF Issued, CallTypes, CallOps
  <2>. QED
    BY <2>1 DEF PacketCached
<1>5. f.type = "DrawState" => Cached(d, n, GroupAddr(f))
  <2>. SUFFICES ASSUME f.type = "DrawState" PROVE Cached(d, n, GroupAddr(f))
    OBVIOUS
  <2>1. p.op = "drawState" /\ \E g \in 1 .. Len(p.groups) : f.ib = p.groups[g].ib
    BY <1>2 DEF Issued
  <2>2. PICK g \in 1 .. Len(p.groups) : f.ib = p.groups[g].ib
    BY <2>1
  <2>3. GroupsCached(d, n, p.groups) /\ GroupNodes(e, n, p.groups)
    BY <2>1 DEF PacketCached
  <2>4. GroupAddr(f) = GroupAddr(p.groups[g])
    BY <2>2 DEF GroupAddr
  <2>5. \A i \in 1 .. Len(p.groups) : n + i \in KidsOf(e[n], "Submit")
    BY <2>3 DEF GroupNodes
  <2>6. /\ Len(d.groupInfo) = Len(p.groups)
        /\ \A i \in 1 .. Len(p.groups) :
              d.groupInfo[i].node = n + i /\ d.groupInfo[i].addr = GroupAddr(p.groups[i])
    BY <2>3 DEF GroupsCached
  <2>7. \A i \in 1 .. Len(d.groupInfo) : d.groupInfo[i].node \in KidsOf(e[n], "Submit")
    BY <2>5, <2>6
  <2>8. d.groupInfo[g].addr = GroupAddr(f) /\ g \in 1 .. Len(d.groupInfo)
    BY <2>4, <2>6
  <2>. QED
    BY <2>7, <2>8 DEF Cached
<1>6. f.type \in {"BinPrefix", "BinCommon"} => d.startBin = n
  <2>. SUFFICES ASSUME f.type \in {"BinPrefix", "BinCommon"} PROVE d.startBin = n
    OBVIOUS
  <2>1. p.op = "startBin"
    BY <1>2 DEF Issued
  <2>. QED
    BY <2>1 DEF PacketCached
<1>7. f.type = "FixedStrideDrawTable" => d.drawTable = n
  <2>. SUFFICES ASSUME f.type = "FixedStrideDrawTable" PROVE d.drawTable = n
    OBVIOUS
  <2>1. p.op = "drawTable"
    BY <1>2 DEF Issued
  <2>. QED
    BY <2>1 DEF PacketCached
<1>8. Fits(d, n, f)
  BY <1>3, <1>4, <1>5, <1>6, <1>7 DEF Fits, Held
<1>. QED
  BY <1>2, <1>8 DEF f

-----------------------------------------------------------------------------
(* The nodes that the creator may choose as a parent; none of them is a bin's. *)

NoBin(s, p) == p \in 0 .. Len(s) /\ ~BinField(s, p)

GroupNode(s, g) ==
    /\ g.node \in 1 .. Len(s) /\ s[g.node].type = "Field"
    /\ s[g.node].aux.addr = g.addr /\ g.addr # <<>>

GroupsHeld(c) == IsSeq(c.groupInfo) /\ \A i \in 1 .. Len(c.groupInfo) : GroupNode(c.nodes, c.groupInfo[i])

ParentsHeld(c) ==
    /\ DOMAIN c.ibParents = 0 .. kTotalIbLevels - 1
    /\ NoBin(c.nodes, c.ibParents[1]) /\ NoBin(c.nodes, c.ibPacket)
    /\ GroupsHeld(c)

LEMMA NoBinKept ==
    ASSUME NEW s, NEW d, Older(s, d), NEW p, NoBin(s, p)
    PROVE  NoBin(d, p)
<1>1. Len(s) \in Nat /\ Len(d) \in Nat /\ Extends(s, d) /\ p \in 0 .. Len(s)
  BY DEF Older, NoBin
<1>2. p \in 0 .. Len(d)
  BY <1>1 DEF Extends
<1>. QED
  BY <1>1, <1>2, BinFieldKept DEF NoBin

LEMMA GroupsStillHeld ==
    ASSUME NEW c, NEW d, Older(c.nodes, d.nodes), d.groupInfo = c.groupInfo, GroupsHeld(c)
    PROVE  GroupsHeld(d)
BY OlderNodes DEF GroupsHeld, GroupNode

LEMMA ParentsStillHeld ==
    ASSUME NEW c, NEW d, Older(c.nodes, d.nodes), SamePlaces(c, d, {"ibLevel"}), ParentsHeld(c)
    PROVE  ParentsHeld(d)
<1>1. d.groupInfo = c.groupInfo /\ d.ibParents = c.ibParents /\ d.ibPacket = c.ibPacket
  BY DEF SamePlaces, PlaceFields
<1>. QED
  BY <1>1, NoBinKept, GroupsStillHeld DEF ParentsHeld

(* The group that an IB of a draw state is attached to. *)
LEMMA GroupFound ==
    ASSUME NEW c, GroupsHeld(c), NEW ib, NEW g, g = GroupAt(c, ib), Len(c.nodes) \in Nat
    PROVE  /\ NoBin(c.nodes, g)
           /\ (\E i \in 1 .. Len(c.groupInfo) : c.groupInfo[i].addr = <<ib.buf, ib.at>>) =>
                 \E i \in 1 .. Len(c.groupInfo) :
                    /\ g = c.groupInfo[i].node /\ c.groupInfo[i].addr = <<ib.buf, ib.at>>
                    /\ GroupNode(c.nodes, c.groupInfo[i])
<1>. DEFINE u == c.groupInfo
            a == <<ib.buf, ib.at>>
            match == {i \in DOMAIN u : u[i].addr = a}
<1>1. IsSeq(u) /\ DOMAIN u = 1 .. Len(u) /\ Len(u) \in Nat
  BY SeqFacts DEF GroupsHeld
<1>2. g = IF match = {} THEN NoNode ELSE u[Min(match)].node
  BY DEF GroupAt
<1>. HIDE DEF a
<1>3. CASE match = {}
  <2>1. g = 0 /\ 0 \notin 1 .. Len(c.nodes) /\ 0 \in 0 .. Len(c.nodes)
    BY <1>2, <1>3 DEF NoNode
  <2>2. NoBin(c.nodes, g)
    BY <2>1 DEF NoBin, BinField
  <2>3. ~\E i \in 1 .. Len(u) : u[i].addr = a
    BY <1>1, <1>3
  <2>. QED
    BY <2>2, <2>3 DEF a
<1>4. CASE match # {}
  <2>1. match \in SUBSET Nat
    BY <1>1
  <2>2. PICK m \in match : \A n \in match : m <= n
    BY <1>4, <2>1, LeastNumber
  <2>3. Min(match) = m
    BY <2>1, <2>2, MinIs
  <2>4. m \in 1 .. Len(u) /\ u[m].addr = a /\ g = u[m].node
    BY <1>1, <1>2, <1>4, <2>2, <2>3
  <2>5. GroupNode(c.nodes, u[m])
    BY <2>4 DEF GroupsHeld
  <2>6. NoBin(c.nodes, g)
    BY <2>4, <2>5 DEF GroupNode, NoBin, BinField
  <2>. QED
    BY <2>4, <2>5, <2>6 DEF a
<1>. QED
  BY <1>3, <1>4

(* The IB of a pending entry gets the place that the entry stands for. *)
LEMMA EnterPlaced ==
    ASSUME NEW c, Good(c), NEW d, NEW level, NEW cur, NEW b, b = Len(d.nodes),
           IbPlaced(c, level, cur, d, b), IbEntered(c, cur, d, b),
           level \in DOMAIN c.ibParents, ParentsHeld(c), NEW path, cur.type # "Chain",
           path = <<>> => cur.type = "Normal" /\ level = 1,
           path # <<>> => \E q : LastAt(c.nodes, path, q) /\ Fits(c, q, cur)
    PROVE  Placed(d.nodes, b, path, d.ibParents[level])
<1>. DEFINE s == c.nodes
            e == d.nodes
            N == Len(s)
            p == d.ibParents[level]
            type == cur.type
<1>1. /\ N \in Nat /\ b \in Nat /\ b > N /\ IsSeq(s) /\ IsSeq(e) /\ Hangs(s, e)
      /\ \A m \in 1 .. b : m > N => e[m].type # "Packet"
  BY GoodNodes DEF IbEntered, IbPlaced
<1>2. Older(s, e) /\ NoPackets(s, e) /\ b \in 1 .. Len(e) /\ N \in 0 .. Len(e)
  BY <1>1, HangsOlder DEF NoPackets
<1>3. e[b].aux.type = type /\ e[b].aux.addr = GroupAddr(cur)
  BY DEF IbPlaced
<1>4. /\ type = "DrawState" => p = GroupAt(c, cur.ib)
      /\ type \in BinTypes => p = N + 1
      /\ type \notin BinTypes \cup {"DrawState"} =>
            p = IF c.ibPacket = NoNode THEN c.ibParents[level] ELSE c.ibPacket
  BY DEF IbPlaced, ParentSet
<1>5. type \in BinTypes =>
          /\ b = N + 2 /\ BinField(e, N + 1)
          /\ Starter(c, type) \in 1 .. N => N + 1 \in KidsOf(e[Starter(c, type)], "Submit")
  BY DEF IbPlaced
<1>6. /\ NoBin(s, c.ibParents[1]) /\ NoBin(s, c.ibPacket) /\ GroupsHeld(c)
  BY DEF ParentsHeld
<1>. HIDE DEF s, e, N, p, type
<1>7. CASE path = <<>>
  <2>1. type = "Normal" /\ level = 1
    BY <1>7 DEF type
  <2>2. type \notin BinTypes \cup {"DrawState"} /\ type \notin BinTypes
    BY <2>1 DEF BinTypes
  <2>3. NoBin(s, p)
    BY <1>4, <1>6, <2>1, <2>2
  <2>4. NoBin(e, p)
    BY <1>2, <2>3, NoBinKept
  <2>5. ParentKind(e, b, p)
    BY <1>3, <2>2, <2>4 DEF ParentKind, NoBin
  <2>. QED
    BY <1>2, <1>7, <2>4, <2>5 DEF Placed, NoBin, e, p
<1>8. CASE path # <<>>
  <2>1. PICK q : LastAt(s, path, q) /\ Fits(c, q, cur)
    BY <1>8 DEF s
  <2>2. q \in Of(s, "Packet") /\ q \in 1 .. N /\ q \in Nat /\ s[q].aux.insts = path /\ s[q].type = "Packet"
    BY <1>1, <2>1 DEF LastAt, Of, N
  <2>3. \A r \in Of(e, "Packet") : r \in Of(s, "Packet") /\ e[r].aux = s[r].aux
    <3>. TAKE r \in Of(e, "Packet")
    <3>1. r \in 1 .. Len(e) /\ e[r].type = "Packet" /\ Len(e) \in Nat /\ N = Len(s)
      BY <1>2 DEF Of, Older, N
    <3>2. ~(r > N)
      BY <1>2, <3>1 DEF NoPackets
    <3>3. r <= Len(s)
      BY <1>1, <3>1, <3>2
    <3>4. r \in Of(s, "Packet")
      BY <1>2, <3>3, OlderNodes
    <3>. QED
      BY <1>2, <3>4, OlderNodes DEF Of
  <2>4. \A r \in Of(s, "Packet") : r \in Of(e, "Packet") /\ e[r].aux = s[r].aux /\ r < b
    <3>1. \A r \in Of(s, "Packet") : r \in Of(e, "Packet") /\ e[r].aux = s[r].aux /\ r \in 1 .. N
      BY <1>2, OlderNodes DEF Of, N
    <3>. QED
      BY <1>1, <3>1
  <2>5. IsCaller(e, b, path, q)
    BY <2>1, <2>2, <2>3, <2>4 DEF IsCaller, LastAt
  <2>6. type \in NestedTypes
    BY <2>1 DEF Fits, type
  <2>7. ASSUME Unsuperseded(e, q, b) PROVE NoLater(s, q, KindOf(type))
    <3>. SUFFICES ASSUME NEW r \in Of(s, "Packet"), r > q PROVE s[r].aux.op \notin KindOf(type)
      BY DEF NoLater
    <3>1. r \in Of(e, "Packet") /\ e[r].aux = s[r].aux /\ r < b /\ r \in Nat
      BY <2>4 DEF Of
    <3>2. q < r
      BY <2>2, <3>1
    <3>. QED
      BY <1>3, <2>7, <3>1, <3>2 DEF Unsuperseded
  <2>8. CASE type \in CallTypes
    <3>1. c.ibPacket = q /\ q # NoNode
      BY <1>1, <2>1, <2>2, <2>8 DEF Fits, type, NoNode
    <3>2. type \notin BinTypes \cup {"DrawState"} /\ type \notin BinTypes
      BY <2>8 DEF BinTypes, CallTypes
    <3>3. p = q /\ NoBin(s, q)
      BY <1>4, <1>6, <3>1, <3>2
    <3>4. NoBin(e, p)
      BY <1>2, <3>3, NoBinKept
    <3>5. ParentKind(e, b, p)
      BY <1>3, <3>2, <3>4 DEF ParentKind, NoBin
    <3>6. Home(e, q, b, p)
      BY <1>3, <2>6, <2>8, <3>3 DEF Home
    <3>. QED
      BY <1>2, <2>5, <3>4, <3>5, <3>6 DEF Placed, NoBin, e, p
  <2>9. CASE type = "DrawState"
    <3>0. type \notin BinTypes /\ type \notin CallTypes
      BY <2>9 DEF BinTypes, CallTypes
    <3>1. p = GroupAt(c, cur.ib) /\ Len(c.nodes) \in Nat
      BY <1>1, <1>4, <2>9 DEF N, s
    <3>2. /\ NoBin(s, p)
          /\ (\E i \in 1 .. Len(c.groupInfo) : c.groupInfo[i].addr = GroupAddr(cur)) =>
                \E i \in 1 .. Len(c.groupInfo) :
                    /\ p = c.groupInfo[i].node /\ c.groupInfo[i].addr = GroupAddr(cur)
                    /\ GroupNode(s, c.groupInfo[i])
      BY <1>6, <3>1, GroupFound DEF GroupAddr, s
    <3>3. NoBin(e, p)
      BY <1>2, <3>2, NoBinKept
    <3>4. ParentKind(e, b, p)
      BY <1>3, <3>0, <3>3 DEF ParentKind, NoBin
    <3>5. ASSUME Unsuperseded(e, q, b) PROVE UnderField(e, q, b, p)
      <4>1. Cached(c, q, GroupAddr(cur))
        BY <2>1, <2>7, <2>9, <3>5 DEF Fits, Held, type, s
      <4>2. PICK i \in 1 .. Len(c.groupInfo) :
                /\ p = c.groupInfo[i].node /\ c.groupInfo[i].addr = GroupAddr(cur)
                /\ GroupNode(s, c.groupInfo[i])
        BY <3>2, <4>1 DEF Cached
      <4>3. p \in KidsOf(s[q], "Submit")
        BY <4>1, <4>2 DEF Cached, s
      <4>4. p \in KidsOf(e[q], "Submit")
        BY <1>2, <2>2, <4>3 DEF Older, N
      <4>5. p \in 1 .. N /\ s[p].type = "Field" /\ s[p].aux.addr = GroupAddr(cur)
        BY <4>2 DEF GroupNode, N
      <4>6. e[p].type = "Field" /\ e[p].aux.addr = GroupAddr(cur) /\ p # NoNode
        <5>1. e[p].type = s[p].type /\ e[p].aux = s[p].aux
          BY <1>2, <4>5, OlderNodes DEF N
        <5>. QED
          BY <1>1, <4>5, <5>1 DEF NoNode
      <4>. QED
        BY <1>3, <4>4, <4>6 DEF UnderField
    <3>6. Home(e, q, b, p)
      BY <1>3, <2>6, <3>0, <3>5 DEF Home
    <3>. QED
      BY <1>2, <2>5, <3>3, <3>4, <3>6 DEF Placed, NoBin, e, p
  <2>10. CASE type \in BinTypes
    <3>0. type \notin CallTypes /\ type # "DrawState"
      BY <2>10 DEF BinTypes, CallTypes
    <3>1. p = N + 1 /\ b = N + 2 /\ BinField(e, p)
      BY <1>4, <1>5, <2>10
    <3>2. p = b - 1 /\ p \in 0 .. Len(e) /\ p # NoNode
      BY <1>1, <1>2, <3>1 DEF NoNode
    <3>3. ParentKind(e, b, p)
      BY <1>3, <2>10, <3>1, <3>2 DEF ParentKind
    <3>4. ASSUME Unsuperseded(e, q, b) PROVE UnderField(e, q, b, p)
      <4>1. Held(c, q, cur)
        BY <2>1, <2>7, <3>4 DEF Fits, type, s
      <4>2. Starter(c, type) = q
        BY <2>10, <4>1 DEF Held, Starter, BinTypes, type
      <4>3. p \in KidsOf(e[q], "Submit")
        BY <1>5, <2>2, <2>10, <3>1, <4>2
      <4>. QED
        BY <1>3, <3>0, <3>1, <3>2, <4>3 DEF UnderField, BinField
    <3>5. Home(e, q, b, p)
      BY <1>3, <2>6, <3>0, <3>4 DEF Home
    <3>. QED
      BY <1>2, <2>5, <3>2, <3>3, <3>5 DEF Placed, e, p
  <2>. QED
    BY <2>6, <2>8, <2>9, <2>10 DEF NestedTypes
<1>. QED
  BY <1>7, <1>8

-----------------------------------------------------------------------------
(* The IBs that the emulator is in, by number.  Path(stack, k) leads to the IB of
   level k; the one of a packet, and the open one, follow one numbering of all. *)

Path(stack, k) == [i \in 1 .. k - 1 |-> stack[i + 1].inst]

Start(u, j) == [i \in 1 .. j |-> u[i]]

FollowsPath(u, f) == \A j \in 1 .. Len(u) : f[u[j]] = Start(u, j - 1)

PathsKnown(s, stack) ==
    \E f : /\ \A m \in Of(s, "Packet") : FollowsPath(s[m].aux.insts, f)
           /\ FollowsPath(Insts(stack), f)

SameInsts(stack, r, k) == \A i \in 1 .. k : r[i].inst = stack[i].inst

LEMMA PathSame ==
    ASSUME NEW stack, NEW r, NEW n \in Nat, SameInsts(stack, r, n), NEW k \in 1 .. n
    PROVE  Path(r, k) = Path(stack, k)
<1>1. \A i \in 1 .. k - 1 : i + 1 \in 1 .. n
  OBVIOUS
<1>2. \A i \in 1 .. k - 1 : r[i + 1].inst = stack[i + 1].inst
  BY <1>1 DEF SameInsts
<1>. QED
  BY <1>2 DEF Path

LEMMA PathSeq ==
    ASSUME NEW stack, NEW k \in Nat \ {0}, NEW u, u = Path(stack, k)
    PROVE  /\ IsSeq(u) /\ Len(u) = k - 1 /\ (u = <<>> <=> k = 1)
           /\ \A i \in 1 .. k - 1 : u[i] = stack[i + 1].inst
<1>1. \A i \in 1 .. k - 1 : u[i] = stack[i + 1].inst
  BY DEF Path
<1>2. k - 1 \in Nat /\ u = [i \in 1 .. k - 1 |-> u[i]]
  BY DEF Path
<1>3. IsSeq(u) /\ Len(u) = k - 1
  BY <1>2, SeqIntro
<1>4. u = <<>> => k = 1
  BY <1>3, EmptySequence
<1>5. k = 1 => u = <<>>
  BY <1>2
<1>. QED
  BY <1>1, <1>3, <1>4, <1>5

LEMMA PathInsts ==
    ASSUME NEW stack
    PROVE  Insts(stack) = Path(stack, Len(stack))
BY DEF Insts, Path

LEMMA StartOf ==
    ASSUME NEW u, IsSeq(u), Len(u) # 0
    PROVE  /\ Front(u) = Start(u, Len(u) - 1)
           /\ u = Start(u, Len(u))
           /\ \A k \in 1 .. Len(u) : SubSeq(u, 1, k - 1) = Start(u, k - 1)
<1>. DEFINE n == Len(u)
            v == Front(u)
<1>1. n \in Nat /\ n # 0 /\ u = [i \in 1 .. n |-> u[i]]
  BY SeqFacts
<1>2. IsSeq(v) /\ Len(v) = n - 1 /\ \A i \in 1 .. n - 1 : v[i] = u[i]
  BY FrontSeq
<1>3. v = [i \in 1 .. n - 1 |-> v[i]]
  BY <1>2, SeqFacts
<1>. HIDE DEF n, v
<1>4. v = [i \in 1 .. n - 1 |-> u[i]]
  BY <1>2, <1>3
<1>5. \A k \in 1 .. n : SubSeq(u, 1, k - 1) = Start(u, k - 1)
  <2>. TAKE k \in 1 .. n
  <2>1. SubSeq(u, 1, k - 1) = [i \in 1 .. k - 1 |-> u[i]]
    BY <1>1
  <2>. QED
    BY <2>1 DEF Start
<1>. QED
  BY <1>1, <1>4, <1>5 DEF Start, n, v

(* Below the top the path is shorter, and a prefix. *)
LEMMA PathPrefix ==
    ASSUME NEW stack, NEW n \in Nat, NEW k \in 1 .. n, NEW u, u = Path(stack, n)
    PROVE  Start(u, k - 1) = Path(stack, k) /\ (k # n => Path(stack, k) # u)
<1>1. n \in Nat \ {0} /\ k \in Nat \ {0}
  OBVIOUS
<1>2. Len(u) = n - 1 /\ \A i \in 1 .. n - 1 : u[i] = stack[i + 1].inst
  BY <1>1, PathSeq
<1>3. Len(Path(stack, k)) = k - 1
  BY <1>1, PathSeq
<1>4. \A i \in 1 .. k - 1 : i \in 1 .. n - 1
  OBVIOUS
<1>5. Start(u, k - 1) = Path(stack, k)
  BY <1>2, <1>4 DEF Start, Path
<1>. QED
  BY <1>2, <1>3, <1>5

LEMMA PathFront ==
    ASSUME NEW stack, NEW n \in Nat, n >= 2
    PROVE  Front(Path(stack, n)) = Path(stack, n - 1)
<1>. DEFINE u == Path(stack, n)
<1>1. n \in Nat \ {0} /\ n - 1 \in 1 .. n /\ n - 1 # 0 /\ n - 1 - 1 = n - 2
  OBVIOUS
<1>2. IsSeq(u) /\ Len(u) = n - 1
  BY <1>1, PathSeq
<1>3. Len(u) # 0 /\ Len(u) - 1 = n - 2
  BY <1>1, <1>2
<1>4. Front(u) = Start(u, n - 2)
  BY <1>2, <1>3, StartOf
<1>5. Start(u, n - 1 - 1) = Path(stack, n - 1)
  BY <1>1, PathPrefix
<1>. QED
  BY <1>1, <1>4, <1>5

(* Fewer levels follow the same numbering. *)
LEMMA PathsShorter ==
    ASSUME NEW s, NEW d, Older(s, d), NoPackets(s, d), NEW stack, NEW r,
           Len(stack) \in Nat, Len(r) \in 1 .. Len(stack), SameInsts(stack, r, Len(r)),
           PathsKnown(s, stack)
    PROVE  PathsKnown(d, r)
<1>. DEFINE n == Len(stack)
            k == Len(r)
            u == Path(stack, n)
            v == Path(r, k)
<1>1. PICK f : /\ \A m \in Of(s, "Packet") : FollowsPath(s[m].aux.insts, f)
               /\ FollowsPath(u, f)
  BY PathInsts DEF PathsKnown
<1>2. \A m \in Of(d, "Packet") : m \in Of(s, "Packet") /\ d[m].aux = s[m].aux
  <2>. TAKE m \in Of(d, "Packet")
  <2>1. m \in 1 .. Len(d) /\ d[m].type = "Packet" /\ Len(s) \in Nat /\ Len(d) \in Nat
    BY DEF Of, Older
  <2>2. ~(m > Len(s))
    BY <2>1 DEF NoPackets
  <2>3. m <= Len(s)
    BY <2>1, <2>2
  <2>. QED
    BY <2>3, OlderNodes DEF Of
<1>3. n \in Nat /\ k \in 1 .. n /\ k \in Nat \ {0} /\ n \in Nat \ {0} /\ k \in 1 .. k
  <2>. HIDE DEF n, k
  <2>1. n \in Nat /\ k \in 1 .. n
    BY DEF n, k
  <2>. QED
    BY <2>1
<1>4. v = Path(stack, k)
  BY <1>3, PathSame
<1>. HIDE DEF n, k, u, v
<1>5. v = Start(u, k - 1) /\ Len(v) = k - 1 /\ Len(u) = n - 1
  BY <1>3, <1>4, PathPrefix, PathSeq DEF u
<1>6. \A j \in 1 .. k - 1 : v[j] = u[j] /\ j \in 1 .. n - 1
  BY <1>3, <1>5 DEF Start
<1>7. \A j \in 1 .. k - 1 : Start(v, j - 1) = Start(u, j - 1)
  <2>. TAKE j \in 1 .. k - 1
  <2>1. \A i \in 1 .. j - 1 : i \in 1 .. k - 1
    BY <1>3
  <2>. QED
    BY <1>6, <2>1 DEF Start
<1>8. FollowsPath(v, f)
  BY <1>1, <1>5, <1>6, <1>7 DEF FollowsPath
<1>. QED
  BY <1>1, <1>2, <1>8, PathInsts DEF PathsKnown, v, k

-----------------------------------------------------------------------------
(* Every packet has its place, and so will those of the open IBs and of the IBs
   that are pending. *)

LevelHome(c, stack, k) == Placed(c.nodes, c.ibStack[k - 1], Path(stack, k - 1), c.ibParents[k - 1])

PendingFits(c, stack, k) == Waits(c, Path(stack, k), stack[k], k = Len(stack))

LevelsHome(c, stack) ==
    /\ \A k \in 2 .. Len(stack) : LevelHome(c, stack, k) /\ PendingFits(c, stack, k)
    /\ Len(stack) >= 2 => c.ibLevel = Len(stack) - 1

QueuesOk(stack) ==
    /\ \A k \in 1 .. Len(stack) : IsSeq(stack[k].queue) /\ stack[k].next \in Nat \ {0}
    /\ \A j \in 1 .. Len(stack[1].queue) : stack[1].queue[j].type = "Normal"

Homes(c, stack) ==
    /\ ParentsHeld(c) /\ PathsKnown(c.nodes, stack) /\ QueuesOk(stack)
    /\ PacketsHome(c.nodes) /\ LevelsHome(c, stack)

AllRead(pc, stack) == pc \in {"packet", "check"} => Drained(Top(stack))

HomesInv ==
    /\ emu.submit \in Nat \ {0}
    /\ ~emu.chained => Homes(creator, emu.stack) /\ AllRead(emu.pc, emu.stack)

LEMMA WaitsOnTop ==
    ASSUME NEW c, NEW path, NEW level, NEW top, Waits(c, path, level, top)
    PROVE  Waits(c, path, level, TRUE)
BY DEF Waits

(* A step that adds no packet, and closes no IB or the innermost one. *)
Fewer(stack, r) ==
    /\ Len(stack) \in Nat /\ Len(r) \in 1 .. Len(stack)
    /\ \A k \in 1 .. Len(r) : r[k] = stack[k]

LEMMA HomesKept ==
    ASSUME NEW c, NEW d, Good(c), Good(d), Hangs(c.nodes, d.nodes), NoPackets(c.nodes, d.nodes),
           SamePlaces(c, d, {"ibLevel"}), NEW stack, NEW r, Fewer(stack, r), Homes(c, stack),
           \A k \in 1 .. Len(r) - 1 : d.ibStack[k] = c.ibStack[k],
           Len(r) >= 2 => d.ibLevel = Len(r) - 1
    PROVE  Homes(d, r)
<1>. DEFINE n == Len(stack)
            m == Len(r)
<1>1. IsSeq(c.nodes) /\ IsSeq(d.nodes)
  BY GoodNodes
<1>2. Older(c.nodes, d.nodes)
  BY <1>1, HangsOlder
<1>3. ParentsHeld(d)
  BY <1>2, ParentsStillHeld DEF Homes
<1>4. PacketsHome(d.nodes)
  BY <1>1, HangsHomes DEF Homes
<1>5. SameInsts(stack, r, m)
  BY DEF SameInsts, Fewer
<1>6. PathsKnown(d.nodes, r)
  BY <1>2, <1>5, PathsShorter DEF Homes, Fewer
<1>7. n \in Nat /\ m \in Nat /\ m \in 1 .. n /\ \A k \in 1 .. m : k \in 1 .. n
  <2>. HIDE DEF n, m
  <2>1. n \in Nat /\ m \in 1 .. n
    BY DEF n, m, Fewer
  <2>. QED
    BY <2>1
<1>8. QueuesOk(r)
  <2>1. 1 \in 1 .. m
    BY <1>7
  <2>. QED
    BY <1>7, <2>1 DEF Homes, QueuesOk, Fewer
<1>9. d.ibParents = c.ibParents
  BY DEF SamePlaces, PlaceFields
<1>10. SamePlaces(c, d, {"ibParents", "ibLevel"})
  BY DEF SamePlaces
<1>11. ASSUME NEW k \in 2 .. m
       PROVE  LevelHome(d, r, k) /\ PendingFits(d, r, k)
  <2>. HIDE DEF n, m
  <2>1. k \in 2 .. n /\ k - 1 \in 1 .. m /\ k \in 1 .. m /\ k - 1 \in 1 .. m - 1
    BY <1>7
  <2>2. LevelHome(c, stack, k) /\ PendingFits(c, stack, k)
    BY <2>1 DEF Homes, LevelsHome, n
  <2>3. Path(r, k - 1) = Path(stack, k - 1) /\ Path(r, k) = Path(stack, k)
    BY <1>5, <1>7, <2>1, PathSame
  <2>4. r[k] = stack[k] /\ d.ibStack[k - 1] = c.ibStack[k - 1]
    BY <2>1 DEF Fewer, m
  <2>5. Placed(d.nodes, c.ibStack[k - 1], Path(stack, k - 1), c.ibParents[k - 1])
    BY <1>2, <2>2, PlacedKept DEF LevelHome
  <2>6. LevelHome(d, r, k)
    BY <1>9, <2>3, <2>4, <2>5 DEF LevelHome
  <2>7. Waits(d, Path(stack, k), stack[k], k = n)
    <3>1. Waits(c, Path(stack, k), stack[k], k = n)
      BY <2>2 DEF PendingFits, n
    <3>. QED
      BY <1>2, <1>10, <3>1, WaitsKept
  <2>8. CASE k = m
    <3>1. Waits(d, Path(stack, k), stack[k], TRUE)
      BY <2>7, WaitsOnTop
    <3>2. Waits(d, Path(r, k), r[k], k = m)
      BY <2>3, <2>4, <2>8, <3>1
    <3>. QED
      BY <2>6, <3>2 DEF PendingFits, m
  <2>9. CASE k # m
    <3>1. k # n
      BY <1>7, <2>1, <2>9
    <3>2. (k = n) = (k = m)
      BY <2>9, <3>1
    <3>3. Waits(d, Path(r, k), r[k], k = m)
      BY <2>3, <2>4, <2>7, <3>2
    <3>. QED
      BY <2>6, <3>3 DEF PendingFits, m
  <2>. QED
    BY <2>8, <2>9
<1>12. LevelsHome(d, r)
  BY <1>11 DEF LevelsHome
<1>. QED
  BY <1>3, <1>4, <1>6, <1>8, <1>12 DEF Homes

(* The first IBs of a submit are pending. *)
LEMMA SubmitHomes ==
    ASSUME NEW c, NEW d, Good(c), Good(d), NEW n, SubmitPlaced(c, d, n),
           NEW stack, Len(stack) = 1, NEW r, Len(r) = 1, Homes(c, stack), QueuesOk(r)
    PROVE  Homes(d, r)
<1>. DEFINE s == c.nodes
            e == d.nodes
<1>1. IsSeq(s) /\ IsSeq(e) /\ Len(s) \in Nat /\ Hangs(s, e) /\ Len(e) = n /\ n = Len(s) + 1
  BY GoodNodes, SeqFacts DEF SubmitPlaced
<1>2. Older(s, e)
  BY <1>1, HangsOlder
<1>3. NoPackets(s, e)
  <2>1. \A m \in 1 .. Len(e) : m > Len(s) => m = n
    BY <1>1
  <2>. QED
    BY <2>1 DEF NoPackets, SubmitPlaced
<1>4. PacketsHome(e)
  BY <1>1, <1>3, HangsHomes DEF Homes
<1>5. SameInsts(stack, stack, 1) /\ Insts(r) = Insts(stack)
  <2>1. \A z : Path(z, 1) = <<>>
    BY PathSeq
  <2>2. Insts(r) = <<>> /\ Insts(stack) = <<>>
    BY <2>1, PathInsts
  <2>. QED
    BY <2>2 DEF SameInsts
<1>6. PathsKnown(e, r)
  <2>0. Len(stack) \in Nat /\ Len(stack) \in 1 .. Len(stack) /\ SameInsts(stack, stack, Len(stack))
    BY <1>5
  <2>1. PathsKnown(e, stack)
    <3>1. PathsKnown(s, stack)
      BY DEF Homes
    <3>. QED
      BY <1>2, <1>3, <2>0, <3>1, PathsShorter
  <2>. QED
    BY <1>5, <2>1 DEF PathsKnown
<1>7. ParentsHeld(d)
  <2>1. d.groupInfo = c.groupInfo /\ d.ibPacket = 0 /\ d.ibParents = [c.ibParents EXCEPT ![1] = n]
    BY DEF SubmitPlaced, NoNode
  <2>2. DOMAIN c.ibParents = 0 .. kTotalIbLevels - 1 /\ GroupsHeld(c)
    BY DEF Homes, ParentsHeld
  <2>3. 1 \in 0 .. kTotalIbLevels - 1
    BY LevelsAssumption
  <2>4. d.ibParents[1] = n /\ DOMAIN d.ibParents = 0 .. kTotalIbLevels - 1
    BY <2>1, <2>2, <2>3
  <2>5. NoBin(e, n)
    BY <1>1 DEF SubmitPlaced, NoBin, BinField
  <2>6. NoBin(e, 0)
    BY <1>1 DEF NoBin, BinField
  <2>7. GroupsHeld(d)
    BY <1>2, <2>1, <2>2, GroupsStillHeld
  <2>. QED
    BY <2>1, <2>4, <2>5, <2>6, <2>7 DEF ParentsHeld
<1>8. LevelsHome(d, r)
  BY DEF LevelsHome
<1>. QED
  BY <1>4, <1>6, <1>7, <1>8 DEF Homes

(* The packets of the innermost IB have their place. *)
LEMMA TopPlaced ==
    ASSUME NEW c, NEW stack, NEW n \in Nat, n = Len(stack), n >= 2, Homes(c, stack)
    PROVE  /\ c.ibLevel = n - 1
           /\ Placed(c.nodes, c.ibStack[n - 1], Path(stack, n - 1), c.ibParents[c.ibLevel])
           /\ c.ibParents[c.ibLevel] \in 0 .. Len(c.nodes)
<1>1. n \in 2 .. Len(stack) /\ Len(stack) >= 2
  OBVIOUS
<1>2. c.ibLevel = n - 1 /\ LevelHome(c, stack, n)
  BY <1>1 DEF Homes, LevelsHome
<1>3. Placed(c.nodes, c.ibStack[n - 1], Path(stack, n - 1), c.ibParents[c.ibLevel])
  BY <1>2 DEF LevelHome
<1>. QED
  BY <1>2, <1>3 DEF Placed

(* The packet is read, and r is the stack after it. *)
Retopped(stack, r) ==
    /\ Len(r) = Len(stack) /\ SameInsts(stack, r, Len(stack))
    /\ \A k \in 1 .. Len(stack) : k # Len(stack) => r[k] = stack[k]

LEMMA RetoppedPaths ==
    ASSUME NEW stack, NEW n \in Nat, n = Len(stack), n >= 1, NEW r, Retopped(stack, r)
    PROVE  Insts(r) = Insts(stack) /\ \A k \in 1 .. n : Path(r, k) = Path(stack, k)
<1>1. \A k \in 1 .. n : Path(r, k) = Path(stack, k)
  BY PathSame DEF Retopped
<1>2. n \in 1 .. n /\ Len(r) = n
  BY DEF Retopped
<1>3. Path(r, n) = Path(stack, n)
  BY <1>1, <1>2
<1>. QED
  BY <1>1, <1>2, <1>3, PathInsts

(* A packet that is not reported queues nothing. *)
LEMMA UnreportedHomes ==
    ASSUME NEW c, NEW p, p.op = "type2", NEW stack, NEW n \in Nat, n = Len(stack), n >= 2,
           NEW r, Retopped(stack, r), Homes(c, stack), QueuesOk(r), Left(p, Top(r))
    PROVE  Homes(c, r)
<1>1. /\ Insts(r) = Insts(stack) /\ Len(r) = n
      /\ \A k \in 1 .. n : Path(r, k) = Path(stack, k)
  BY RetoppedPaths DEF Retopped
<1>2. PathsKnown(c.nodes, r)
  BY <1>1 DEF Homes, PathsKnown
<1>3. \A e : ~Issued(p, e)
  BY DEF Issued
<1>4. \A path : Waits(c, path, r[n], TRUE)
  BY <1>1, <1>3 DEF Left, Waits, Top
<1>5. ASSUME NEW k \in 2 .. n PROVE LevelHome(c, r, k) /\ PendingFits(c, r, k)
  <2>1. k \in 1 .. n /\ k - 1 \in 1 .. n
    OBVIOUS
  <2>2. LevelHome(c, stack, k) /\ PendingFits(c, stack, k)
    BY DEF Homes, LevelsHome
  <2>3. LevelHome(c, r, k)
    BY <1>1, <2>1, <2>2 DEF LevelHome
  <2>4. CASE k = n
    BY <1>1, <1>4, <2>3, <2>4 DEF PendingFits
  <2>5. CASE k # n
    <3>1. r[k] = stack[k] /\ Path(r, k) = Path(stack, k)
      BY <1>1, <2>1, <2>5 DEF Retopped
    <3>. QED
      BY <1>1, <2>2, <2>3, <3>1 DEF PendingFits
  <2>. QED
    BY <2>4, <2>5
<1>6. LevelsHome(c, r)
  BY <1>1, <1>5 DEF LevelsHome, Homes
<1>. QED
  BY <1>2, <1>6 DEF Homes

LEMMA TwoAddr == ASSUME NEW g PROVE GroupAddr(g) # <<>>
<1>1. Len(<<g.ib.buf, g.ib.at>>) = 2 /\ Len(<<>>) = 0
  OBVIOUS
<1>. QED
  BY <1>1 DEF GroupAddr

LEMMA PacketParents ==
    ASSUME NEW c, NEW d, NEW p, NEW n, n = Len(c.nodes) + 1, Older(c.nodes, d.nodes),
           n \in Of(d.nodes, "Packet"), PacketCached(c, p, n, d), ParentsHeld(c)
    PROVE  ParentsHeld(d)
<1>. DEFINE e == d.nodes
<1>1. d.ibParents = c.ibParents /\ d.ibPacket \in {n, c.ibPacket}
  BY DEF PacketCached
<1>2. NoBin(e, n)
  BY DEF Of, NoBin, BinField, Older
<1>3. NoBin(e, d.ibPacket)
  BY <1>1, <1>2, NoBinKept DEF ParentsHeld
<1>4. NoBin(e, d.ibParents[1])
  BY <1>1, NoBinKept DEF ParentsHeld
<1>5. CASE p.op # "drawState"
  <2>1. d.groupInfo = c.groupInfo
    BY <1>5 DEF PacketCached
  <2>2. GroupsHeld(d)
    BY <2>1, GroupsStillHeld DEF ParentsHeld
  <2>. QED
    BY <1>1, <1>3, <1>4, <2>2 DEF ParentsHeld
<1>6. CASE p.op = "drawState"
  <2>1. GroupsCached(d, n, p.groups) /\ GroupNodes(e, n, p.groups)
    BY <1>6 DEF PacketCached
  <2>2. IsSeq(d.groupInfo) /\ Len(d.groupInfo) = Len(p.groups)
    BY <2>1 DEF GroupsCached
  <2>3. ASSUME NEW i \in 1 .. Len(d.groupInfo) PROVE GroupNode(e, d.groupInfo[i])
    <3>. DEFINE g == d.groupInfo[i]
                k == n + i
    <3>1. g.node = k /\ g.addr = GroupAddr(p.groups[i])
      BY <2>1, <2>2 DEF GroupsCached
    <3>2. k \in 1 .. Len(e) /\ e[k].type = "Field" /\ e[k].aux.addr = GroupAddr(p.groups[i])
      BY <2>1, <2>2 DEF GroupNodes
    <3>. HIDE DEF g, k
    <3>3. GroupNode(e, g)
      BY <3>1, <3>2, TwoAddr DEF GroupNode
    <3>. QED
      BY <3>3 DEF g
  <2>4. GroupsHeld(d)
    BY <2>2, <2>3 DEF GroupsHeld
  <2>. QED
    BY <1>1, <1>3, <1>4, <2>4 DEF ParentsHeld
<1>. QED
  BY <1>5, <1>6

(* A packet is reported: it gets the place of the innermost IB, and what it has
   queued is pending at the top. *)
LEMMA ReportedHomes ==
    ASSUME NEW c, NEW d, Good(c), Good(d), NEW p, p.op = "drawState" => IsSeq(p.groups),
           NEW stack, NEW K \in Nat, K = Len(stack), K >= 2, NEW r, Retopped(stack, r),
           NEW n, n = Len(c.nodes) + 1, NEW insts, insts = Insts(stack),
           NewPacket(c.nodes, d.nodes, n, p.op, insts, HandledTypes, "Submit"),
           Attached(c.nodes, d.nodes, c.ibParents[c.ibLevel], n), PacketCached(c, p, n, d),
           d.ibStack = c.ibStack, OpenIbs(c, stack), Homes(c, stack), QueuesOk(r), Left(p, Top(r))
    PROVE  Homes(d, r)
<1>. DEFINE s == c.nodes
            e == d.nodes
            P == c.ibParents[c.ibLevel]
            b == c.ibStack[K - 1]
<1>1. IsSeq(s) /\ IsSeq(e) /\ Forest(s)
  BY GoodNodes DEF Good
<1>2. Older(s, e)
  BY <1>1, AttachedOlder
<1>3. /\ n \in Of(e, "Packet") /\ e[n].aux.op = p.op /\ e[n].aux.insts = insts
      /\ \A m \in 1 .. Len(e) : m > n => e[m].type # "Packet"
  BY DEF NewPacket, Of, HandledTypes
<1>15. Reported(c, d, p, n, insts)
  BY <1>2, <1>3 DEF Reported
<1>4. c.ibLevel = K - 1 /\ Placed(s, b, Path(stack, K - 1), P) /\ P \in 0 .. Len(s)
  BY TopPlaced
<1>5. IsSeq(insts) /\ insts # <<>> /\ Last(insts) = stack[K].inst /\ insts = Path(stack, K)
  BY InstsOf, PathInsts DEF Top
<1>6. Front(insts) = Path(stack, K - 1)
  BY <1>5, PathFront
<1>7. b \in Of(s, "Ib") /\ s[b].aux.inst = stack[K].inst
  <2>1. K - 1 \in 1 .. Len(stack) - 1 /\ K - 1 + 1 = K
    OBVIOUS
  <2>. QED
    BY <2>1 DEF OpenIbs
<1>8. PacketsHome(e)
  <2>1. PacketsHome(s)
    BY DEF Homes
  <2>. HIDE DEF s, e, P, b
  <2>2. s[b].aux.inst = Last(e[n].aux.insts) /\ Placed(s, b, Front(e[n].aux.insts), P) /\ e[n].aux.insts # <<>>
    BY <1>3, <1>4, <1>5, <1>6, <1>7
  <2>3. Attached(s, e, P, n) /\ n = Len(s) + 1
    BY DEF s, e, P
  <2>. QED
    BY <1>1, <1>3, <1>4, <1>7, <2>1, <2>2, <2>3, AttachedHomes
<1>9. ParentsHeld(d)
  BY <1>2, <1>3, PacketParents DEF Homes
<1>10. Insts(r) = insts /\ Len(r) = K /\ \A k \in 1 .. K : Path(r, k) = Path(stack, k)
  <2>1. K >= 1
    OBVIOUS
  <2>. QED
    BY <2>1, RetoppedPaths DEF Retopped
<1>11. PathsKnown(e, r)
  <2>1. PICK f : /\ \A m \in Of(s, "Packet") : FollowsPath(s[m].aux.insts, f)
                 /\ FollowsPath(insts, f)
    BY DEF Homes, PathsKnown
  <2>2. \A m \in Of(e, "Packet") : m = n \/ (m \in Of(s, "Packet") /\ e[m].aux = s[m].aux)
    <3>. TAKE m \in Of(e, "Packet")
    <3>1. m \in 1 .. Len(e) /\ e[m].type = "Packet" /\ Len(s) \in Nat /\ Len(e) \in Nat
      BY <1>2 DEF Of, Older
    <3>2. ~(m > n)
      BY <1>3, <3>1
    <3>3. m = n \/ m <= Len(s)
      BY <3>1, <3>2
    <3>. QED
      BY <1>2, <3>3, OlderNodes DEF Of
  <2>3. \A m \in Of(e, "Packet") : FollowsPath(e[m].aux.insts, f)
    BY <1>3, <2>1, <2>2
  <2>. QED
    BY <1>10, <2>1, <2>3 DEF PathsKnown
<1>12. d.ibParents = c.ibParents /\ d.ibLevel = c.ibLevel
  BY DEF PacketCached
<1>13. ASSUME NEW k \in 2 .. K PROVE LevelHome(d, r, k) /\ PendingFits(d, r, k)
  <2>1. k \in 1 .. K /\ k - 1 \in 1 .. K /\ K \in Nat \ {0}
    OBVIOUS
  <2>2. LevelHome(c, stack, k) /\ PendingFits(c, stack, k)
    BY DEF Homes, LevelsHome
  <2>3. Placed(e, c.ibStack[k - 1], Path(stack, k - 1), c.ibParents[k - 1])
    BY <1>2, <2>2, PlacedKept DEF LevelHome
  <2>4. LevelHome(d, r, k)
    BY <1>10, <1>12, <2>1, <2>3 DEF LevelHome
  <2>5. CASE k = K
    <3>1. Left(p, r[K])
      BY <1>10 DEF Top
    <3>2. Waits(d, insts, r[K], TRUE)
      BY <1>2, <1>3, <3>1, WaitsQueued
    <3>3. Path(r, K) = insts
      BY <1>5, <1>10, <2>1, <2>5
    <3>4. Waits(d, Path(r, k), r[k], k = Len(r))
      BY <1>10, <2>5, <3>2, <3>3
    <3>. QED
      BY <2>4, <3>4 DEF PendingFits
  <2>6. CASE k # K
    <3>1. r[k] = stack[k] /\ Path(r, k) = Path(stack, k) /\ Len(r) = Len(stack)
      BY <1>10, <2>1, <2>6 DEF Retopped
    <3>. DEFINE path == Path(stack, k)
                level == stack[k]
                top == k = Len(stack)
    <3>2. path # insts /\ ~top
      BY <1>5, <2>1, <2>6, PathPrefix
    <3>3. Waits(c, path, level, top)
      BY <2>2 DEF PendingFits
    <3>. HIDE DEF path, level, top
    <3>4. Waits(d, path, level, top)
      BY <1>15, <3>2, <3>3, WaitsBelow
    <3>. QED
      BY <2>4, <3>1, <3>4 DEF PendingFits, path, level, top
  <2>. QED
    BY <2>5, <2>6
<1>14. LevelsHome(d, r)
  BY <1>4, <1>10, <1>12, <1>13 DEF LevelsHome
<1>. QED
  BY <1>8, <1>9, <1>11, <1>14 DEF Homes

(* The IB that is entered has a number of its own, and with it a path. *)
LEMMA PathsLonger ==
    ASSUME NEW c, NEW d, Older(c.nodes, d.nodes), NoPackets(c.nodes, d.nodes),
           NEW entered, IbNumbers(c.nodes, entered), InstsKnown(c.nodes),
           NEW stack, NEW K \in Nat, K = Len(stack), K >= 1, OpenIbs(c, stack),
           NEW r, Len(r) = K + 1, SameInsts(stack, r, K), r[K + 1].inst = entered + 1,
           PathsKnown(c.nodes, stack)
    PROVE  PathsKnown(d.nodes, r)
<1>. DEFINE s == c.nodes
            e == d.nodes
            u == Path(stack, K)
            v == Path(r, K + 1)
            N == entered + 1
<1>1. PICK f : /\ \A m \in Of(s, "Packet") : FollowsPath(s[m].aux.insts, f)
               /\ FollowsPath(u, f)
  BY PathInsts DEF PathsKnown
<1>. DEFINE g == [i \in 1 .. N |-> IF i = N THEN u ELSE f[i]]
<1>2. entered \in Nat /\ N \in 1 .. N /\ \A i \in 1 .. entered : i \in 1 .. N /\ i # N
  BY DEF IbNumbers
<1>3. g[N] = u /\ \A i \in 1 .. entered : g[i] = f[i]
  BY <1>2
<1>4. ASSUME NEW m \in Of(e, "Packet") PROVE FollowsPath(e[m].aux.insts, g)
  <2>1. m \in 1 .. Len(e) /\ e[m].type = "Packet" /\ Len(s) \in Nat /\ Len(e) \in Nat
    BY DEF Of, Older
  <2>2. ~(m > Len(s))
    BY <2>1 DEF NoPackets
  <2>3. m <= Len(s)
    BY <2>1, <2>2
  <2>4. m \in Of(s, "Packet")
    BY <2>3, OlderNodes
  <2>. DEFINE w == s[m].aux.insts
  <2>5. e[m].aux.insts = w
    BY <2>4, OlderNodes DEF Of
  <2>6. IsSeq(w) /\ \A i \in Range(w) : i \in 1 .. entered
    BY <2>4, KnownInsts DEF InstsKnown
  <2>7. FollowsPath(w, f)
    BY <1>1, <2>4
  <2>. HIDE DEF w, g
  <2>8. \A j \in 1 .. Len(w) : w[j] \in 1 .. entered
    BY <2>6, SeqFacts
  <2>9. FollowsPath(w, g)
    BY <1>3, <2>7, <2>8 DEF FollowsPath
  <2>. QED
    BY <2>5, <2>9
<1>5. FollowsPath(v, g)
  <2>. HIDE DEF g, u, v, N
  <2>1. /\ K \in Nat \ {0} /\ K + 1 \in Nat \ {0} /\ K \in 1 .. K /\ K + 1 - 1 = K
        /\ K \in 1 .. K + 1
    OBVIOUS
  <2>2. Len(u) = K - 1 /\ \A i \in 1 .. K - 1 : u[i] = stack[i + 1].inst
    <3>1. u = Path(stack, K)
      BY DEF u
    <3>2. K \in Nat \ {0}
      BY <2>1
    <3>3. Len(u) = K - 1
      BY <3>1, <3>2, PathSeq
    <3>4. \A i \in 1 .. K - 1 : u[i] = stack[i + 1].inst
      BY <3>1, <3>2, PathSeq
    <3>. QED
      BY <3>3, <3>4
  <2>3. Len(v) = K /\ \A i \in 1 .. K : v[i] = r[i + 1].inst
    BY <2>1, PathSeq DEF v
  <2>4. Start(v, K - 1) = u
    <3>1. Start(v, K - 1) = Path(r, K)
      BY <2>1, PathPrefix DEF v
    <3>. QED
      BY <2>1, <3>1, PathSame DEF u
  <2>. SUFFICES ASSUME NEW j \in 1 .. K PROVE g[v[j]] = Start(v, j - 1)
    BY <2>3 DEF FollowsPath
  <2>5. CASE j = K
    <3>1. v[K] = N
      BY <2>1, <2>3 DEF N
    <3>. QED
      BY <1>3, <2>4, <2>5, <3>1
  <2>6. CASE j # K
    <3>1. j \in 1 .. K - 1 /\ j + 1 \in 1 .. K
      BY <2>6
    <3>2. \A i \in 1 .. K - 1 : v[i] = u[i]
      BY <2>4 DEF Start
    <3>3. v[j] = u[j] /\ u[j] = stack[j + 1].inst
      BY <2>2, <3>1, <3>2
    <3>4. stack[j + 1].inst \in 1 .. entered
      <4>1. c.ibStack[j] \in Of(s, "Ib") /\ s[c.ibStack[j]].aux.inst = stack[j + 1].inst
        BY <3>1 DEF OpenIbs
      <4>. QED
        BY <4>1 DEF IbNumbers
    <3>5. f[u[j]] = Start(u, j - 1)
      BY <1>1, <2>2, <3>1 DEF FollowsPath
    <3>6. Start(u, j - 1) = Start(v, j - 1)
      <4>1. \A i \in 1 .. j - 1 : i \in 1 .. K - 1
        OBVIOUS
      <4>. QED
        BY <3>2, <4>1 DEF Start
    <3>. QED
      BY <1>3, <3>3, <3>4, <3>5, <3>6
  <2>. QED
    BY <2>5, <2>6
<1>6. Insts(r) = v
  BY PathInsts
<1>. HIDE DEF g, v
<1>. QED
  BY <1>4, <1>5, <1>6 DEF PathsKnown

(* The rest of a queue, when its next entry has been taken. *)
LEMMA WaitsNext ==
    ASSUME NEW c, NEW path, NEW level, NEW rest, NEW top, NEW above, Waits(c, path, level, above),
           level.next \in Nat \ {0}, rest.queue = level.queue, rest.next = level.next + 1
    PROVE  Waits(c, path, rest, top)
<1>. SUFFICES ASSUME NEW j \in 1 .. Len(rest.queue), j >= rest.next
              PROVE  /\ \E q : LastAt(c.nodes, path, q) /\ Fits(c, q, rest.queue[j])
                     /\ rest.queue[j].type \in SoleTypes => Len(rest.queue) = 1 /\ top
  BY DEF Waits
<1>1. j \in 1 .. Len(level.queue) /\ j >= level.next /\ j >= 2
  OBVIOUS
<1>2. rest.queue[j].type \notin SoleTypes
  BY <1>1 DEF Waits
<1>. QED
  BY <1>1, <1>2 DEF Waits

(* The emulator enters the next pending IB. *)
Called(stack, r, cur) ==
    /\ Grown(stack, r, cur) /\ cur.queue = <<>> /\ cur.next = 1
    /\ \A k \in 1 .. Len(stack) : k # Len(stack) => r[k] = stack[k]
    /\ r[Len(stack)].queue = Top(stack).queue /\ r[Len(stack)].next = Top(stack).next + 1
    /\ Top(stack).next <= Len(Top(stack).queue)
    /\ cur.type = Top(stack).queue[Top(stack).next].type
    /\ cur.ib = Top(stack).queue[Top(stack).next].ib

LEMMA CalledQueues ==
    ASSUME NEW stack, NEW K \in Nat, K = Len(stack), K >= 1, NEW r, NEW cur, Called(stack, r, cur),
           QueuesOk(stack)
    PROVE  QueuesOk(r)
<1>1. Len(r) = K + 1 /\ r[K + 1] = cur
  BY DEF Called, Grown
<1>2. IsSeq(cur.queue) /\ cur.next \in Nat \ {0}
  BY EmptySequence DEF Called
<1>3. IsSeq(stack[K].queue) /\ stack[K].next \in Nat \ {0}
  BY DEF QueuesOk
<1>4. r[K].queue = stack[K].queue /\ r[K].next = stack[K].next + 1
  BY DEF Called, Top
<1>5. \A k \in 1 .. K : k # K => r[k] = stack[k]
  BY DEF Called
<1>6. ASSUME NEW k \in 1 .. K + 1 PROVE IsSeq(r[k].queue) /\ r[k].next \in Nat \ {0}
  <2>1. CASE k = K + 1
    BY <1>1, <1>2, <2>1
  <2>2. CASE k = K
    BY <1>3, <1>4, <2>2
  <2>3. CASE k # K /\ k # K + 1
    <3>1. k \in 1 .. K
      BY <2>3
    <3>. QED
      BY <1>5, <2>3, <3>1 DEF QueuesOk
  <2>. QED
    BY <2>1, <2>2, <2>3
<1>7. r[1].queue = stack[1].queue
  <2>1. 1 \in 1 .. K
    OBVIOUS
  <2>. QED
    BY <1>4, <1>5, <2>1
<1>. QED
  BY <1>1, <1>6, <1>7 DEF QueuesOk

LEMMA CalledHomes ==
    ASSUME NEW c, NEW d, Good(c), Good(d), NEW stack, NEW K \in Nat, K = Len(stack), K >= 1,
           K < kTotalIbLevels, NEW r, NEW cur, Called(stack, r, cur), cur.type # "Chain",
           NEW entered, cur.inst = entered + 1, History(c, stack, entered),
           NEW b, b = Len(d.nodes), IbPlaced(c, K, cur, d, b), IbEntered(c, cur, d, b),
           Homes(c, stack)
    PROVE  Homes(d, r) /\ Drained(Top(r))
<1>. DEFINE s == c.nodes
            e == d.nodes
            path == Path(stack, K)
            top == Top(stack)
            n == top.next
<1>1. /\ IsSeq(s) /\ IsSeq(e) /\ Hangs(s, e) /\ SamePlaces(c, d, {"ibParents", "ibLevel"})
      /\ d.ibLevel = K
  BY GoodNodes DEF IbPlaced
<1>2. Older(s, e)
  BY <1>1, HangsOlder
<1>3. NoPackets(s, e)
  BY DEF NoPackets, IbEntered
<1>4. Len(r) = K + 1 /\ r[K + 1] = cur /\ SameInsts(stack, r, K)
  BY DEF Called, Grown, SameInsts
<1>5. IbNumbers(s, entered) /\ InstsKnown(s) /\ OpenIbs(c, stack)
  BY DEF History
<1>6. PathsKnown(e, r)
  <2>1. r[K + 1].inst = entered + 1
    BY <1>4
  <2>2. PathsKnown(s, stack)
    BY DEF Homes
  <2>. QED
    BY <1>2, <1>3, <1>4, <1>5, <2>1, <2>2, PathsLonger
<1>7. QueuesOk(r)
  BY CalledQueues DEF Homes
<1>8. PacketsHome(e)
  BY <1>1, <1>3, HangsHomes DEF Homes
<1>9. ParentsHeld(c) /\ DOMAIN c.ibParents = 0 .. kTotalIbLevels - 1 /\ K \in DOMAIN c.ibParents
  BY LevelsAssumption DEF Homes, ParentsHeld
<1>10. /\ top = stack[K] /\ IsSeq(top.queue) /\ n \in Nat \ {0} /\ n <= Len(top.queue)
       /\ n \in 1 .. Len(top.queue)
  <2>1. top = stack[K] /\ IsSeq(top.queue) /\ n \in Nat \ {0} /\ n <= Len(top.queue)
    BY DEF Homes, QueuesOk, Top, Called
  <2>2. Len(top.queue) \in Nat
    BY <2>1, SeqFacts
  <2>. QED
    BY <2>1, <2>2
<1>11. cur.type = top.queue[n].type /\ cur.ib = top.queue[n].ib
  BY DEF Called
<1>12. path = <<>> => K = 1 /\ cur.type = "Normal"
  <2>. SUFFICES ASSUME path = <<>> PROVE K = 1 /\ cur.type = "Normal"
    OBVIOUS
  <2>1. K \in Nat \ {0}
    OBVIOUS
  <2>2. K = 1
    BY <2>1, PathSeq
  <2>. QED
    BY <1>10, <1>11, <2>2 DEF Homes, QueuesOk
<1>13. K >= 2 => PendingFits(c, stack, K)
  BY DEF Homes, LevelsHome
<1>14. path # <<>> => \E q : LastAt(s, path, q) /\ Fits(c, q, cur)
  <2>. SUFFICES ASSUME path # <<>> PROVE \E q : LastAt(s, path, q) /\ Fits(c, q, cur)
    OBVIOUS
  <2>1. K \in Nat \ {0}
    OBVIOUS
  <2>2. K # 1
    BY <2>1, PathSeq
  <2>3. K >= 2
    BY <2>2
  <2>4. PICK q : LastAt(s, path, q) /\ Fits(c, q, top.queue[n])
    BY <1>10, <1>13, <2>3 DEF PendingFits, Waits
  <2>5. Fits(c, q, cur)
    BY <1>11, <2>4 DEF Fits, Held, GroupAddr
  <2>. QED
    BY <2>4, <2>5
<1>. DEFINE p == d.ibParents[K]
<1>15. Placed(e, b, path, p)
  <2>. HIDE DEF path
  <2>. QED
    BY <1>9, <1>12, <1>14, EnterPlaced
<1>16. /\ DOMAIN d.ibParents = DOMAIN c.ibParents
       /\ \A l \in DOMAIN c.ibParents : l # K => d.ibParents[l] = c.ibParents[l]
  BY DEF IbPlaced, ParentSet
<1>17. ParentsHeld(d)
  <2>1. d.groupInfo = c.groupInfo /\ d.ibPacket = c.ibPacket
    BY <1>1 DEF SamePlaces, PlaceFields
  <2>2. GroupsHeld(d) /\ NoBin(e, d.ibPacket)
    BY <1>2, <1>9, <2>1, GroupsStillHeld, NoBinKept DEF ParentsHeld
  <2>3. CASE K = 1
    <3>1. path = <<>>
      BY <2>3, PathSeq
    <3>2. e[b].aux.type \notin BinTypes
      BY <1>12, <3>1 DEF IbPlaced, BinTypes
    <3>3. NoBin(e, p)
      BY <1>15, <3>2 DEF Placed, ParentKind, NoBin
    <3>. QED
      BY <1>9, <1>16, <2>2, <2>3, <3>3 DEF ParentsHeld
  <2>4. CASE K # 1
    <3>1. 1 \in DOMAIN c.ibParents
      BY <1>9, LevelsAssumption
    <3>2. d.ibParents[1] = c.ibParents[1]
      BY <1>16, <2>4, <3>1
    <3>3. NoBin(e, d.ibParents[1])
      BY <1>2, <1>9, <3>2, NoBinKept DEF ParentsHeld
    <3>. QED
      BY <1>9, <1>16, <2>2, <3>3 DEF ParentsHeld
  <2>. QED
    BY <2>3, <2>4
<1>18. /\ Len(c.ibStack) = K - 1 /\ d.ibStack = Append(c.ibStack, b) /\ IsSeq(c.ibStack)
  BY <1>5 DEF OpenIbs, IbEntered, Good, IbsHeld
<1>19. d.ibStack[K] = b /\ \A k \in 1 .. K - 1 : d.ibStack[k] = c.ibStack[k]
  <2>1. K - 1 + 1 = K
    OBVIOUS
  <2>. QED
    BY <1>18, <2>1, AppendSeq
<1>20. \A k \in 1 .. K : Path(r, k) = Path(stack, k)
  BY <1>4, PathSame
<1>21. ASSUME NEW k \in 2 .. K + 1 PROVE LevelHome(d, r, k) /\ PendingFits(d, r, k)
  <2>. HIDE DEF s, e, top, n, path, p
  <2>1. CASE k = K + 1
    <3>1. k - 1 = K /\ K \in 1 .. K
      BY <2>1
    <3>2. LevelHome(d, r, k)
      BY <1>15, <1>19, <1>20, <3>1 DEF LevelHome, path, p, e
    <3>3. Len(r[k].queue) = 0
      BY <1>4, <2>1, EmptySequence DEF Called
    <3>4. PendingFits(d, r, k)
      BY <3>3 DEF PendingFits, Waits
    <3>. QED
      BY <3>2, <3>4
  <2>2. CASE k # K + 1
    <3>1. k \in 2 .. K /\ k - 1 \in 1 .. K - 1 /\ k \in 1 .. K /\ k - 1 \in 1 .. K /\ k - 1 # K
      BY <2>2
    <3>2. LevelHome(c, stack, k) /\ PendingFits(c, stack, k)
      BY <3>1 DEF Homes, LevelsHome
    <3>3. k - 1 \in DOMAIN c.ibParents
      BY <1>9, <3>1, LevelsAssumption
    <3>4. d.ibParents[k - 1] = c.ibParents[k - 1] /\ d.ibStack[k - 1] = c.ibStack[k - 1]
      BY <1>16, <1>19, <3>1, <3>3
    <3>5. Placed(e, c.ibStack[k - 1], Path(stack, k - 1), c.ibParents[k - 1])
      BY <1>2, <3>2, PlacedKept DEF LevelHome, s
    <3>6. LevelHome(d, r, k)
      BY <1>20, <3>1, <3>4, <3>5 DEF LevelHome, e
    <3>. DEFINE w == Path(stack, k)
                last == k = Len(r)
                above == k = Len(stack)
                level == stack[k]
                rest == r[k]
    <3>7. Waits(c, w, level, above)
      BY <3>2 DEF PendingFits
    <3>8. CASE k = K
      <4>1. /\ level.next \in Nat \ {0} /\ rest.queue = level.queue
            /\ rest.next = level.next + 1
        BY <1>10, <3>8 DEF Called, top, n
      <4>. HIDE DEF w, last, above, level, rest
      <4>2. Waits(c, w, rest, last)
        BY <3>7, <4>1, WaitsNext
      <4>3. Waits(d, w, rest, last)
        BY <1>1, <1>2, <1>3, <4>2, WaitsKept DEF s, e
      <4>. QED
        BY <1>20, <3>1, <3>6, <4>3 DEF PendingFits, w, last, rest
    <3>9. CASE k # K
      <4>1. rest = level /\ last = above
        BY <1>4, <2>2, <3>1, <3>9 DEF Called
      <4>. HIDE DEF w, last, above, level, rest
      <4>2. Waits(d, w, rest, last)
        BY <1>1, <1>2, <1>3, <3>7, <4>1, WaitsKept DEF s, e
      <4>. QED
        BY <1>20, <3>1, <3>6, <4>2 DEF PendingFits, w, last, rest
    <3>. QED
      BY <3>8, <3>9
  <2>. QED
    BY <2>1, <2>2
<1>22. LevelsHome(d, r)
  BY <1>1, <1>4, <1>21 DEF LevelsHome
<1>23. Drained(Top(r))
  BY <1>4, EmptySequence DEF Top, Drained, Called
<1>. QED
  BY <1>6, <1>7, <1>8, <1>17, <1>22, <1>23 DEF Homes

-----------------------------------------------------------------------------
(* The actions. *)

LEMMA InitHomes == ASSUME Init PROVE HomesInv
<1>. DEFINE c == creator
            stack == emu.stack
            r == Node("Root", [id |-> 0])
<1>1. /\ stack = <<Ring>> /\ Len(stack) = 1 /\ stack[1] = Ring /\ c = NewCreator
      /\ emu.submit = 1 /\ emu.pc = "submit"
  BY DEF Init, EmuInit
<1>2. r.type = "Root"
  BY DEF Node
<1>3. /\ c.nodes = <<r>> /\ c.ibParents = [l \in 0 .. kTotalIbLevels - 1 |-> 1]
      /\ c.groupInfo = <<>> /\ c.ibPacket = 1
  BY <1>1 DEF NewCreator, kRootNodeIndex
<1>. HIDE DEF r
<1>4. Len(c.nodes) = 1 /\ c.nodes[1] = r
  BY <1>3
<1>5. Of(c.nodes, "Packet") = {}
  <2>1. \A n \in 1 .. 1 : n = 1
    OBVIOUS
  <2>. QED
    BY <1>2, <1>4, <2>1 DEF Of
<1>6. Ring.queue = <<>> /\ Ring.next = 1
  BY DEF Ring
<1>. HIDE DEF c, stack
<1>7. QueuesOk(stack)
  <2>1. \A k \in 1 .. Len(stack) : stack[k] = Ring
    BY <1>1
  <2>. QED
    BY <1>1, <1>6, <2>1, EmptySequence DEF QueuesOk
<1>8. ParentsHeld(c)
  <2>1. c.ibParents[1] = 1 /\ DOMAIN c.ibParents = 0 .. kTotalIbLevels - 1
    BY <1>3, LevelsAssumption
  <2>2. NoBin(c.nodes, 1)
    BY <1>2, <1>4 DEF NoBin, BinField
  <2>3. GroupsHeld(c)
    BY <1>3, EmptySequence DEF GroupsHeld
  <2>. QED
    BY <1>3, <2>1, <2>2, <2>3 DEF ParentsHeld
<1>9. PathsKnown(c.nodes, stack)
  <2>1. Path(stack, 1) = <<>>
    BY PathSeq
  <2>2. Insts(stack) = <<>>
    BY <1>1, <2>1, PathInsts
  <2>3. FollowsPath(Insts(stack), <<>>)
    BY <2>2, EmptySequence DEF FollowsPath
  <2>4. \A m \in Of(c.nodes, "Packet") : FollowsPath(c.nodes[m].aux.insts, <<>>)
    BY <1>5
  <2>. QED
    BY <2>3, <2>4, Zenon DEF PathsKnown
<1>10. PacketsHome(c.nodes) /\ LevelsHome(c, stack)
  BY <1>1, <1>5 DEF PacketsHome, LevelsHome
<1>11. Homes(c, stack)
  BY <1>7, <1>8, <1>9, <1>10 DEF Homes
<1>. QED
  BY <1>1, <1>11 DEF HomesInv, AllRead, c, stack

(* The ring's queue holds the IBs of the submit. *)
LEMMA SubmitQueue ==
    ASSUME NEW ibs, IsSeq(ibs), \A i \in 1 .. Len(ibs) : ibs[i].type = "Normal",
           NEW r, r = <<Ring>> \/ r = <<QueueIB(Ring, ibs)>>
    PROVE  QueuesOk(r) /\ Len(r) = 1
<1>. DEFINE v == NonEmpty(ibs)
            Fine(level) == /\ IsSeq(level.queue) /\ level.next \in Nat \ {0}
                           /\ \A j \in 1 .. Len(level.queue) : level.queue[j].type = "Normal"
<1>1. Picked(v, ibs)
  BY NonEmptyPicks
<1>2. IsSeq(v) /\ \A j \in 1 .. Len(v) : v[j].type = "Normal"
  BY <1>1 DEF Picked
<1>3. Ring.queue = <<>> /\ Ring.next = 1
  BY DEF Ring
<1>4. QueueIB(Ring, ibs).queue = <<>> \o v /\ QueueIB(Ring, ibs).next = 1
  BY DEF QueueIB, Ring
<1>. HIDE DEF v
<1>5. IsSeq(<<>>) /\ Len(<<>>) = 0
  BY EmptySequence
<1>6. Fine(Ring)
  BY <1>3, <1>5
<1>7. /\ IsSeq(<<>> \o v) /\ Len(<<>> \o v) = 0 + Len(v)
      /\ \A i \in 1 .. Len(v) : (<<>> \o v)[0 + i] = v[i]
  BY <1>2, <1>5, ConcatSeq
<1>8. Len(v) \in Nat
  BY <1>2, SeqFacts
<1>9. \A i \in 1 .. Len(<<>> \o v) : (<<>> \o v)[i].type = "Normal"
  BY <1>2, <1>7, <1>8
<1>10. Fine(QueueIB(Ring, ibs))
  BY <1>4, <1>7, <1>9
<1>. HIDE DEF Fine
<1>11. PICK level : r = <<level>> /\ Fine(level)
  BY <1>6, <1>10
<1>12. Len(r) = 1 /\ r[1] = level /\ \A k \in 1 .. 1 : k = 1
  BY <1>11
<1>. QED
  BY <1>11, <1>12 DEF QueuesOk, Fine

LEMMA StartSubmitHomes == ASSUME HierarchyInv, HistoryInv, HomesInv, StartSubmit PROVE HomesInv'
<1>. DEFINE c == creator
            d == creator'
            r == emu'.stack
            w == Submit.ibs
            ibs == [i \in DOMAIN w |-> Pending(w[i].ib, w[i].skip, "Normal", AllMask)]
<1>1. /\ emu.pc = "submit" /\ emu'.chained = emu.chained /\ emu'.submit = emu.submit
      /\ emu'.pc \notin {"packet", "check"}
  BY DEF StartSubmit, SubmitStart, HierarchyInv, EmuInv, EmuFields
<1>2. Len(emu.stack) = 1
  BY <1>1 DEF HistoryInv
<1>3. r = <<Ring>> \/ r = <<QueueIB(Ring, ibs)>>
  BY DEF StartSubmit, SubmitStart, HierarchyInv, EmuInv, EmuFields
<1>4. IsSeq(w)
  <2>1. capture \in Captures
    BY DEF HierarchyInv, EmuInv
  <2>2. IsSeq(capture.submits) /\ \A i \in DOMAIN capture.submits : IsSeq(capture.submits[i].ibs)
    BY <2>1, CapturesAssumption
  <2>3. emu.submit \in Nat \ {0} /\ emu.submit <= Len(capture.submits)
    BY DEF HomesInv, StartSubmit, SubmitStart
  <2>4. emu.submit \in DOMAIN capture.submits
    BY <2>2, <2>3, SeqFacts
  <2>. QED
    BY <2>2, <2>4 DEF Submit
<1>5. IsSeq(ibs) /\ \A i \in 1 .. Len(ibs) : ibs[i].type = "Normal"
  <2>1. Len(w) \in Nat /\ DOMAIN w = 1 .. Len(w)
    BY <1>4, SeqFacts
  <2>2. ibs = [i \in 1 .. Len(w) |-> ibs[i]] /\ \A i \in 1 .. Len(w) : ibs[i].type = "Normal"
    BY <2>1 DEF Pending
  <2>. HIDE DEF ibs
  <2>. QED
    BY <2>1, <2>2, SeqIntro
<1>. HIDE DEF ibs
<1>6. QueuesOk(r) /\ Len(r) = 1
  BY <1>3, <1>5, SubmitQueue
<1>7. Good(c) /\ d = OnSubmitStart(c, emu.submit)
  BY DEF HierarchyInv, StartSubmit
<1>8. ASSUME ~emu'.chained PROVE Homes(d, r)
  <2>. DEFINE n == Len(c.nodes) + 1
  <2>1. Homes(c, emu.stack)
    BY <1>1, <1>8 DEF HomesInv
  <2>. HIDE DEF c, d, r
  <2>2. Good(d) /\ SubmitPlaced(c, d, n)
    BY <1>7, OnSubmitStartGood, OnSubmitStartPlaces DEF Started
  <2>. HIDE DEF n
  <2>. QED
    BY <1>2, <1>6, <1>7, <2>1, <2>2, SubmitHomes
<1>. QED
  BY <1>1, <1>8 DEF HomesInv, AllRead

LEMMA EndSubmitHomes == ASSUME HierarchyInv, HistoryInv, HomesInv, EndSubmit PROVE HomesInv'
<1>. DEFINE c        == creator
            d        == creator'
            stack    == emu.stack
            presents == capture.presents
            submit   == emu.submit
            T        == {"Present"}
            F        == {}
<1>1. /\ emu'.chained = emu.chained /\ emu'.submit = emu.submit + 1
      /\ emu.pc = "end" /\ emu'.stack = stack /\ emu'.pc = "submit"
  BY DEF EndSubmit, SubmitEnd, HierarchyInv, EmuInv, EmuFields
<1>2. PICK ibs \in SortedIbs(c) : d = OnSubmitEnd(c, submit, presents, ibs)
  BY DEF EndSubmit
<1>3. Good(c) /\ IsSeq(presents)
  BY CapturesAssumption DEF HierarchyInv, EmuInv
<1>4. Len(stack) = 1
  BY <1>1 DEF HistoryInv
<1>. HIDE DEF d, submit, presents, T, F
<1>5. Builds(c, d, T, "Submit") /\ Places(c, d, F)
  BY <1>2, <1>3, OnSubmitEndBuilds, OnSubmitEndPlaces DEF T, F
<1>6. NoPackets(c.nodes, d.nodes)
  BY <1>5 DEF Builds, AddsOnly, NoPackets, T
<1>7. Good(d) /\ Hangs(c.nodes, d.nodes) /\ SamePlaces(c, d, {"ibLevel"})
  BY <1>5 DEF Places, SamePlaces, F
<1>8. ASSUME ~emu'.chained PROVE Homes(d, stack)
  <2>1. Homes(c, stack)
    BY <1>1, <1>8 DEF HomesInv
  <2>. HIDE DEF c, stack
  <2>2. Fewer(stack, stack)
    BY <1>4 DEF Fewer
  <2>3. \A k \in 1 .. Len(stack) - 1 : d.ibStack[k] = c.ibStack[k]
    BY <1>4
  <2>4. Len(stack) >= 2 => d.ibLevel = Len(stack) - 1
    BY <1>4
  <2>. QED
    BY <1>3, <1>6, <1>7, <2>1, <2>2, <2>3, <2>4, HomesKept
<1>9. emu'.submit \in Nat \ {0}
  BY <1>1 DEF HomesInv
<1>. QED
  BY <1>1, <1>8, <1>9 DEF HomesInv, AllRead, d

LEMMA OtherHomes == ASSUME HierarchyInv, HomesInv, Internal PROVE HomesInv'
<1>1. /\ emu'.chained = emu.chained /\ emu'.submit = emu.submit
      /\ emu'.stack = emu.stack /\ creator' = creator
      /\ \/ emu'.pc \notin {"packet", "check"}
         \/ emu'.pc = "packet" /\ emu.pc = "check"
         \/ emu'.pc = "check" /\ Top(emu.stack).next > Len(Top(emu.stack).queue)
  BY DEF Internal, BadPacket, NothingQueued, MisplacedChain, StayInIb, AllSubmitsDone, CurIb,
         HierarchyInv, EmuInv, EmuFields
<1>2. ~emu.chained => AllRead(emu'.pc, emu.stack)
  BY <1>1 DEF HomesInv, AllRead, Drained
<1>. QED
  BY <1>1, <1>2 DEF HomesInv

LEMMA StutterHomes == ASSUME HomesInv, UNCHANGED vars PROVE HomesInv'
BY DEF HomesInv, vars, emuVars

LEMMA FollowChainHomes == ASSUME HierarchyInv, HomesInv, FollowChain PROVE HomesInv'
BY DEF FollowChain, ChainIb, HierarchyInv, EmuInv, EmuFields, HomesInv

LEMMA ReturnFromIbHomes == ASSUME HierarchyInv, HistoryInv, HomesInv, ReturnFromIb PROVE HomesInv'
<1>. DEFINE c     == creator
            d     == creator'
            stack == emu.stack
            r     == emu'.stack
            level == Len(stack) - 2
            F     == {"ibLevel"}
            L     == Len(stack)
<1>1. /\ emu'.chained = emu.chained /\ emu'.submit = emu.submit
      /\ emu'.pc = "enter" /\ r = Front(stack) /\ L # 1
  BY DEF ReturnFromIb, LeaveIb, HierarchyInv, EmuInv, EmuFields, AtRing
<1>2. L \in Nat /\ L >= 1 /\ IsSeq(stack)
  BY TopOfStack DEF HierarchyInv, EmuInv, StackOk
<1>3. d = OnIbEnd(c, level) /\ Good(c)
  BY DEF ReturnFromIb, HierarchyInv
<1>4. Len(c.ibStack) # 0 => c.ibStack # <<>>
  BY EmptySequence
<1>5. (~c.newIb => Len(c.startStack["Submit"]) = Len(c.ibStack)) /\ c.newIb \in BOOLEAN
  BY DEF HierarchyInv, Heights, Starts, Ibs
<1>. HIDE DEF stack, r, L
<1>6. L >= 2 /\ L # 0 /\ L - 1 # 0 /\ L - 1 \in 1 .. L /\ L - 1 - 1 = L - 2 /\ L - 1 \in Nat
  BY <1>1, <1>2
<1>7. Len(r) = L - 1 /\ \A k \in 1 .. L - 1 : r[k] = stack[k]
  BY <1>1, <1>2, <1>6, FrontSeq DEF L
<1>8. ASSUME ~emu'.chained PROVE Homes(d, r)
  <2>1. History(c, stack, emu.entered) /\ Homes(c, stack)
    BY <1>1, <1>8 DEF HistoryInv, HomesInv, stack
  <2>2. Len(c.ibStack) = L - 1 /\ IsSeq(c.ibStack)
    BY <1>3, <2>1 DEF History, OpenIbs, L, Good, IbsHeld
  <2>. HIDE DEF c, d, level, F
  <2>3. IbClosed(c, d)
    BY <1>3, <1>4, <1>5, <1>6, <2>2, OnIbEndBuilds
  <2>4. Places(c, d, F) /\ d.ibLevel = level /\ Len(d.nodes) = Len(c.nodes)
    BY <1>3, <1>4, <1>5, <1>6, <2>2, OnIbEndPlaces DEF F
  <2>5. NoPackets(c.nodes, d.nodes)
    <3>1. Len(c.nodes) \in Nat
      BY <1>3, GoodNodes, SeqFacts
    <3>2. \A m \in 1 .. Len(d.nodes) : ~(m > Len(c.nodes))
      BY <2>4, <3>1
    <3>. QED
      BY <3>2 DEF NoPackets
  <2>6. d.ibStack = Front(c.ibStack)
    BY <2>3 DEF IbClosed
  <2>7. \A k \in 1 .. Len(r) - 1 : d.ibStack[k] = c.ibStack[k]
    <3>1. \A k \in 1 .. Len(c.ibStack) - 1 : Front(c.ibStack)[k] = c.ibStack[k]
      BY <1>6, <2>2, FrontSeq
    <3>. QED
      BY <1>7, <2>2, <2>6, <3>1
  <2>8. d.ibLevel = Len(r) - 1
    BY <1>6, <1>7, <2>4 DEF level, L
  <2>9. Fewer(stack, r)
    BY <1>2, <1>6, <1>7 DEF Fewer, L
  <2>10. Good(d) /\ Hangs(c.nodes, d.nodes) /\ SamePlaces(c, d, {"ibLevel"})
    BY <2>4 DEF Places, F
  <2>. QED
    BY <1>3, <2>1, <2>5, <2>7, <2>8, <2>9, <2>10, HomesKept
<1>. QED
  BY <1>1, <1>8 DEF HomesInv, AllRead, r

LEMMA EmulatePacketHomes ==
    ASSUME HierarchyInv, HistoryInv, HomesInv, EmulatePacket PROVE HomesInv'
<1>. DEFINE p     == CurPacket
            c     == creator
            d     == creator'
            stack == emu.stack
            r     == emu'.stack
            insts == Insts(stack)
            L     == Len(stack)
            cur   == CurIb
            level == QueueIB(Prepared(p, cur), Queued(p, cur))
<1>1. /\ emu.pc = "packet" /\ emu'.chained = emu.chained /\ emu'.submit = emu.submit
      /\ emu'.pc # "packet" /\ (emu'.pc = "check" => ~Enters(p))
      /\ r = [stack EXCEPT ![L] = level]
  BY DEF EmulatePacket, Packet, HierarchyInv, EmuInv, EmuFields
<1>2. PacketOk(p) /\ (p.op = "drawState" => IsSeq(p.groups)) /\ DOMAIN cur = LevelFields
  BY <1>1, PacketInCapture DEF HierarchyInv, LevelOk
<1>3. d = OnPacket(c, p, insts) /\ Good(c)
  BY DEF EmulatePacket, HierarchyInv
<1>4. Mirrors(stack, r)
  BY PacketMirrors DEF HierarchyInv, EmulatePacket
<1>5. L # 1 /\ L \in Nat /\ L >= 1 /\ IsSeq(stack)
  BY <1>1, TopOfStack DEF HierarchyInv, EmuInv, AtRing, StackOk
<1>6. cur = stack[L]
  BY DEF CurIb, Top
<1>7. ASSUME ~emu'.chained PROVE Homes(d, r) /\ AllRead(emu'.pc, r)
  <2>1. History(c, stack, emu.entered) /\ Homes(c, stack) /\ AllRead(emu.pc, stack)
    BY <1>1, <1>7 DEF HistoryInv, HomesInv
  <2>. HIDE DEF p, c, d, stack, r, insts, L, cur, level
  <2>2. L >= 2 /\ L \in 1 .. L /\ 1 \in 1 .. L /\ L # 1
    BY <1>5
  <2>3. IsSeq(cur.queue) /\ cur.next \in Nat \ {0} /\ Drained(cur)
    BY <1>1, <1>6, <2>1, <2>2 DEF Homes, QueuesOk, AllRead, Top, L
  <2>4. /\ IsSeq(level.queue) /\ level.next \in Nat \ {0} /\ Left(p, level)
        /\ ~Enters(p) => Drained(level)
    BY <1>2, <2>3, PacketQueue DEF level
  <2>5. DOMAIN stack = 1 .. L
    BY <1>5, SeqFacts DEF L
  <2>6. r[L] = level /\ (\A k \in 1 .. L : k # L => r[k] = stack[k]) /\ Len(r) = L
    BY <1>1, <1>4, <2>2, <2>5 DEF Mirrors, L
  <2>7. Top(r) = level
    BY <2>6 DEF Top
  <2>8. Retopped(stack, r)
    BY <1>4, <2>6 DEF Retopped, Mirrors, SameInsts, L
  <2>9. QueuesOk(r)
    <3>1. ASSUME NEW k \in 1 .. L PROVE IsSeq(r[k].queue) /\ r[k].next \in Nat \ {0}
      <4>1. CASE k = L
        BY <2>4, <2>6, <4>1
      <4>2. CASE k # L
        BY <2>1, <2>6, <4>2 DEF Homes, QueuesOk, L
      <4>. QED
        BY <4>1, <4>2
    <3>2. r[1] = stack[1]
      BY <2>2, <2>6
    <3>. QED
      BY <2>1, <2>6, <3>1, <3>2 DEF Homes, QueuesOk
  <2>10. AllRead(emu'.pc, r)
    BY <1>1, <2>4, <2>7 DEF AllRead
  <2>11. Left(p, Top(r)) /\ L = Len(stack)
    BY <2>4, <2>7 DEF L
  <2>12. CASE p.op = "type2"
    <3>1. d = c
      BY <1>3, <2>12 DEF OnPacket
    <3>2. Homes(c, r)
      BY <1>5, <2>1, <2>2, <2>8, <2>9, <2>11, <2>12, UnreportedHomes
    <3>. QED
      BY <2>10, <3>1, <3>2
  <2>13. CASE p.op # "type2"
    <3>. DEFINE n == Len(c.nodes) + 1
    <3>1. PacketAdded(c, p, insts, d, n)
      BY <1>2, <1>3, <2>13, OnPacketBuilds
    <3>2. c.ibParents[c.ibLevel] \in 0 .. Len(c.nodes)
      BY <1>5, <2>1, <2>2, <2>11, TopPlaced
    <3>. HIDE DEF n
    <3>0. n = Len(c.nodes) + 1 /\ insts = Insts(stack)
      BY DEF n, insts
    <3>3. Attached(c.nodes, d.nodes, c.ibParents[c.ibLevel], n) /\ PacketCached(c, p, n, d)
      BY <1>2, <1>3, <2>13, <3>0, <3>2, OnPacketPlaces
    <3>4. /\ Good(d) /\ d.ibStack = c.ibStack
          /\ NewPacket(c.nodes, d.nodes, n, p.op, insts, HandledTypes, "Submit")
      BY <3>1 DEF PacketAdded
    <3>5. OpenIbs(c, stack)
      BY <2>1 DEF History
    <3>6. Homes(d, r)
      BY <1>2, <1>3, <1>5, <2>1, <2>2, <2>8, <2>9, <2>11, <3>0, <3>3, <3>4, <3>5, ReportedHomes
    <3>. QED
      BY <2>10, <3>6
  <2>. QED
    BY <2>12, <2>13
<1>. QED
  BY <1>1, <1>7 DEF HomesInv

LEMMA CallIbCalled ==
    ASSUME EmuInv, EnterIb
    PROVE  Called(emu.stack, emu'.stack, Top(emu'.stack)) /\ Top(emu'.stack).inst = emu.entered + 1
<1>. DEFINE stack == emu.stack
            r     == emu'.stack
            L     == Len(stack)
            q     == CurIb.queue[CurIb.next]
            new   == Level(q, q.skip \/ ~IsValid(q.ib), emu.entered + 1)
            top   == [CurIb EXCEPT !.next = CurIb.next + 1]
            held  == [stack EXCEPT ![Len(stack)] = top]
<1>1. L \in Nat /\ L >= 1 /\ DOMAIN CurIb = LevelFields /\ IsSeq(stack)
  BY TopOfStack DEF EmuInv, CurIb, StackOk
<1>2. r = Append(held, new) /\ CurIb.next <= Len(CurIb.queue)
  BY Zenon DEF EnterIb, EmuInv, EmuFields, CurIb, Top
<1>3. /\ new.inst = emu.entered + 1 /\ new.queue = <<>> /\ new.next = 1
      /\ new.type = q.type /\ new.ib = q.ib
  BY DEF Level
<1>4. /\ top.inst = CurIb.inst /\ top.mask = CurIb.mask /\ top.queue = CurIb.queue
      /\ top.next = CurIb.next + 1
  BY <1>1 DEF LevelFields
<1>5. CurIb = stack[L] /\ CurIb = Top(stack) /\ DOMAIN stack = 1 .. L
  BY <1>1, SeqFacts DEF CurIb, Top
<1>. HIDE DEF new, top, q
<1>6. IsSeq(held) /\ Len(held) = L
  <2>. HIDE DEF L
  <2>1. held = [i \in 1 .. L |-> held[i]]
    BY <1>5
  <2>. HIDE DEF held
  <2>. QED
    BY <1>1, <2>1, SeqIntro
<1>7. \A k \in 1 .. L : held[k] = IF k = L THEN top ELSE stack[k]
  BY <1>5
<1>. HIDE DEF held
<1>8. /\ Len(r) = L + 1 /\ r[L + 1] = new
      /\ \A k \in 1 .. L : r[k] = held[k]
  BY <1>2, <1>6, AppendSeq
<1>9. Top(r) = new
  BY <1>8 DEF Top
<1>10. L \in 1 .. L
  BY <1>1
<1>. HIDE DEF L, r, stack
<1>11. r[L] = top /\ \A k \in 1 .. L : k # L => r[k] = stack[k]
  BY <1>7, <1>8, <1>10
<1>12. \A k \in 1 .. L : r[k].inst = stack[k].inst /\ r[k].mask = stack[k].mask
  BY <1>4, <1>5, <1>11
<1>13. Grown(stack, r, new)
  BY <1>8, <1>12 DEF Grown, L
<1>14. Called(stack, r, new)
  BY <1>2, <1>3, <1>4, <1>5, <1>11, <1>13 DEF Called, L, q
<1>. QED
  BY <1>3, <1>9, <1>14 DEF stack, r

LEMMA CallIbHomes == ASSUME HierarchyInv, HistoryInv, HomesInv, CallIb PROVE HomesInv'
<1>. DEFINE c     == creator
            d     == creator'
            stack == emu.stack
            r     == emu'.stack
            cur   == Top(r)
            level == Len(stack)
            index == emu'.ibIndex
            enter == emu.entered
<1>1. /\ emu'.chained = emu.chained /\ emu'.submit = emu.submit /\ emu'.pc = "check"
      /\ level < kTotalIbLevels
  BY DEF CallIb, EnterIb, HierarchyInv, EmuInv, EmuFields
<1>2. cur.type # "Chain"
  BY EnterIbEmu DEF HierarchyInv, CallIb, LevelOk
<1>3. level \in Nat /\ level >= 1
  BY TopOfStack DEF HierarchyInv, EmuInv
<1>4. Called(stack, r, cur) /\ cur.inst = enter + 1
  BY CallIbCalled DEF HierarchyInv, CallIb
<1>5. d = OnIbStart(c, level, cur, index) /\ Good(c)
  BY DEF CallIb, HierarchyInv
<1>6. ASSUME ~emu'.chained PROVE Homes(d, r) /\ Drained(Top(r))
  <2>1. History(c, stack, enter) /\ Homes(c, stack)
    BY <1>1, <1>6 DEF HistoryInv, HomesInv
  <2>. DEFINE b == Len(d.nodes)
  <2>. HIDE DEF c, d, stack, r, cur, index, enter
  <2>2. IbEntered(c, cur, d, b) /\ IbPlaced(c, level, cur, d, b)
    BY <1>2, <1>5, OnIbStartBuilds, OnIbStartPlaces
  <2>3. Good(d) /\ b = Len(d.nodes) /\ level = Len(stack)
    BY <2>2 DEF IbEntered
  <2>. HIDE DEF b, level
  <2>. QED
    BY <1>1, <1>2, <1>3, <1>4, <1>5, <2>1, <2>2, <2>3, CalledHomes
<1>. QED
  BY <1>1, <1>6 DEF HomesInv, AllRead

(* Where no chain was followed, the packets are attached where they belong, the
   open IBs have the parent that the packet which called them gives their packets,
   and the creator still remembers that packet for every IB that is pending. *)
THEOREM HomesInvariance == Spec => []HomesInv
<1>1. Init => HomesInv
  BY InitHomes
<1>2. HierarchyInv /\ HistoryInv /\ HomesInv /\ [Next]_vars => HomesInv'
  <2>. SUFFICES ASSUME HierarchyInv, HistoryInv, HomesInv, [Next]_vars PROVE HomesInv'
    OBVIOUS
  <2>1. CASE StartSubmit
    BY <2>1, StartSubmitHomes
  <2>2. CASE EmulatePacket
    BY <2>2, EmulatePacketHomes
  <2>3. CASE CallIb
    BY <2>3, CallIbHomes
  <2>4. CASE FollowChain
    BY <2>4, FollowChainHomes
  <2>5. CASE ReturnFromIb
    BY <2>5, ReturnFromIbHomes
  <2>6. CASE EndSubmit
    BY <2>6, EndSubmitHomes
  <2>7. CASE Internal
    BY <2>7, OtherHomes
  <2>8. CASE Returned
    BY <2>8, StutterHomes DEF Returned
  <2>9. CASE UNCHANGED vars
    BY <2>9, StutterHomes
  <2>. QED
    BY <2>1, <2>2, <2>3, <2>4, <2>5, <2>6, <2>7, <2>8, <2>9 DEF Next
<1>. QED
  BY <1>1, <1>2, Invariance, HistoryInvariance, PTL DEF Spec

LEMMA IbNodeIs ==
    ASSUME Good(creator), NEW entered, IbNumbers(creator.nodes, entered),
           NEW b \in Of(creator.nodes, "Ib"), NEW i, i = creator.nodes[b].aux.inst
    PROVE  IbNode(i) = b
<1>. DEFINE s == creator.nodes
            I == Of(s, "Ib")
<1>1. IbNode(i) = CHOOSE n \in I : s[n].aux.inst = i
  BY NodesAre DEF IbNode, Aux
<1>2. \A n \in I : s[n].aux.inst = i => n = b
  BY DEF IbNumbers
<1>. HIDE DEF I, s
<1>3. b \in I /\ s[b].aux.inst = i
  BY DEF I, s
<1>. QED
  BY <1>1, <1>2, <1>3

(* The packet that Caller chooses is the last one of the path before the IB. *)
LEMMA CallerIs ==
    ASSUME Good(creator), InstsKnown(creator.nodes), NEW stack, PathsKnown(creator.nodes, stack),
           NEW n \in Of(creator.nodes, "Packet"), NEW u, u = creator.nodes[n].aux.insts,
           Len(u) >= 2, NEW i, i = Last(u), NEW b, IbNode(i) = b, NEW q,
           IsCaller(creator.nodes, b, Front(u), q)
    PROVE  Caller(i) = q
<1>. DEFINE s == creator.nodes
            P == Of(s, "Packet")
            path == Front(u)
            S == {m \in P : /\ m < b
                            /\ \E x \in Inside(s, i) : \E k \in 2 .. Len(s[x].aux.insts) :
                                  /\ s[x].aux.insts[k] = i
                                  /\ s[m].aux.insts = SubSeq(s[x].aux.insts, 1, k - 1)}
<1>1. Caller(i) = Max(S)
  <2>1. NodesOf("Packet") = P /\ InsideOf(i) = Inside(s, i)
    BY NodesAre
  <2>. QED
    BY <2>1 DEF Caller, Aux
<1>2. PICK f : \A m \in P : FollowsPath(s[m].aux.insts, f)
  BY DEF PathsKnown
<1>3. IsSeq(u) /\ Len(u) \in Nat
  BY SeqFacts DEF InstsKnown
<1>. DEFINE L == Len(u)
<1>4. L \in Nat /\ L >= 2 /\ L # 0 /\ L \in 1 .. L /\ L \in 2 .. L
  <2>1. L \in Nat /\ L >= 2
    BY <1>3
  <2>. HIDE DEF L
  <2>. QED
    BY <2>1
<1>5. u[L] = i /\ path = Start(u, L - 1) /\ SubSeq(u, 1, L - 1) = path /\ i \in Range(u)
  <2>1. path = Start(u, L - 1) /\ \A k \in 1 .. L : SubSeq(u, 1, k - 1) = Start(u, k - 1)
    BY <1>3, <1>4, StartOf
  <2>2. u[L] = i
    BY DEF Last
  <2>3. i \in Range(u)
    BY <1>3, <1>4, <2>2, SeqFacts
  <2>. QED
    BY <1>4, <2>1, <2>2, <2>3
<1>6. f[i] = path
  <2>1. FollowsPath(u, f)
    BY <1>2
  <2>. QED
    BY <1>4, <1>5, <2>1 DEF FollowsPath
<1>7. ASSUME NEW m \in S PROVE m \in P /\ m < b /\ s[m].aux.insts = path
  <2>1. PICK x \in Inside(s, i) : \E k \in 2 .. Len(s[x].aux.insts) :
            s[x].aux.insts[k] = i /\ s[m].aux.insts = SubSeq(s[x].aux.insts, 1, k - 1)
    OBVIOUS
  <2>. DEFINE w == s[x].aux.insts
  <2>2. PICK k \in 2 .. Len(w) : w[k] = i /\ s[m].aux.insts = SubSeq(w, 1, k - 1)
    BY <2>1
  <2>3. x \in P /\ IsSeq(w) /\ FollowsPath(w, f)
    BY <1>2 DEF Inside, InstsKnown
  <2>. HIDE DEF w
  <2>4. Len(w) \in Nat /\ k \in 1 .. Len(w) /\ Len(w) # 0
    <3>1. Len(w) \in Nat
      BY <2>3, SeqFacts
    <3>. QED
      BY <3>1
  <2>5. SubSeq(w, 1, k - 1) = Start(w, k - 1)
    BY <2>3, <2>4, StartOf
  <2>6. f[i] = Start(w, k - 1)
    BY <2>2, <2>3, <2>4 DEF FollowsPath
  <2>. QED
    BY <1>6, <2>2, <2>5, <2>6
<1>8. q \in P /\ q < b /\ s[q].aux.insts = path
  BY DEF IsCaller
<1>9. q \in S
  <2>1. n \in Inside(s, i)
    BY <1>5 DEF Inside
  <2>2. L \in 2 .. Len(s[n].aux.insts) /\ s[n].aux.insts[L] = i
    BY <1>4, <1>5
  <2>3. s[q].aux.insts = SubSeq(s[n].aux.insts, 1, L - 1)
    BY <1>5, <1>8
  <2>. HIDE DEF L, path
  <2>. QED
    BY <1>8, <2>1, <2>2, <2>3
<1>10. \A m \in S : m <= q
  BY <1>7 DEF IsCaller
<1>11. S \subseteq Nat
  BY <1>7 DEF Of
<1>. HIDE DEF S
<1>12. Max(S) = q
  BY <1>9, <1>10, <1>11, MaxIs
<1>. QED
  BY <1>1, <1>12

LEMMA ParentsAre ==
    ASSUME Good(creator), NEW n, NEW p \in 1 .. Len(creator.nodes),
           OnlyParent(creator.nodes, n, p), creator.nodes[p].type # "RenderMarker"
    PROVE  SharedParentOf(n, "Submit") = {p}
<1>. DEFINE s == creator.nodes
            N == Nodes \ NodesOf("RenderMarker")
<1>1. Nodes = 1 .. Len(s) /\ NodesOf("RenderMarker") = Of(s, "RenderMarker")
  BY GoodNodes, SeqFacts, NodesAre DEF Nodes
<1>2. p \in N /\ \A m \in N : m \in 1 .. Len(s)
  BY <1>1 DEF Of
<1>3. SharedParentOf(n, "Submit") = {m \in N : n \in SharedOf(s[m], "Submit")}
  BY DEF SharedParentOf, SharedOf
<1>4. \A m \in N : n \in SharedOf(s[m], "Submit") <=> m = p
  BY <1>2 DEF OnlyParent
<1>. HIDE DEF N
<1>. QED
  BY <1>2, <1>3, <1>4

(* A field node of a bin is the parent of the packets of one IB only. *)
LEMMA OneBin ==
    ASSUME Good(creator), PacketsHome(creator.nodes), InstsKnown(creator.nodes),
           NEW b \in Of(creator.nodes, "Ib"), NEW p, BinField(creator.nodes, p), p = b - 1,
           NEW m \in Of(creator.nodes, "Packet"), SharedParentOf(m, "Submit") = {p}
    PROVE  m \in Inside(creator.nodes, creator.nodes[b].aux.inst)
<1>. DEFINE s == creator.nodes
            u == s[m].aux.insts
<1>1. PacketHome(s, m)
  BY DEF PacketsHome
<1>2. PICK a \in Of(s, "Ib") : /\ s[a].aux.inst = Last(u)
                               /\ \E k : OnlyParent(s, m, k) /\ Placed(s, a, Front(u), k)
  BY <1>1 DEF PacketHome
<1>3. PICK k : OnlyParent(s, m, k) /\ Placed(s, a, Front(u), k)
  BY <1>2
<1>4. p \in 1 .. Len(s) /\ m \in SharedOf(s[p], "Submit")
  BY DEF SharedParentOf, SharedOf, BinField
<1>5. k = p
  BY <1>3, <1>4 DEF OnlyParent
<1>6. ParentKind(s, a, p)
  BY <1>3, <1>5 DEF Placed
<1>7. p = a - 1
  BY <1>6 DEF ParentKind
<1>8. a = b
  <2>1. a \in Nat /\ b \in Nat
    BY DEF Of
  <2>. QED
    BY <1>7, <2>1
<1>9. IsSeq(u) /\ u # <<>>
  BY <1>1 DEF PacketHome, InstsKnown
<1>. HIDE DEF u
<1>10. Last(u) \in Range(u)
  BY <1>9, NonEmptySeq, SeqFacts
<1>. QED
  BY <1>2, <1>8, <1>10 DEF Inside, u

(* Whatever the command buffers hold, where no chain was followed every packet of
   a nested IB hangs where OnPacket should attach it: below the packet that called
   the IB, below the group of the draw state that has the IB's address, or below a
   field node that this bin's or draw-table entry's IB has for itself. *)
THEOREM SharedParentsHolds == Spec => []SharedParents
<1>1. HierarchyInv /\ HistoryInv /\ HomesInv => SharedParents
  <2>. DEFINE s == creator.nodes
              Parents(n) == SharedParentOf(n, "Submit")
              Fields(q) == Range(creator.nodes[q].kids["Submit"])
  <2>. SUFFICES ASSUME HierarchyInv, HistoryInv, HomesInv, ~emu.chained,
                       NEW n \in NodesOf("Packet"), Len(Aux(n).insts) >= 2,
                       NEW i, i = Last(Aux(n).insts), ~Superseded(i),
                       NEW ib, ib = Aux(IbNode(i))
                PROVE  CASE ib.type \in {"Call", "ContextSwitch"} -> Parents(n) = {Caller(i)}
                         [] ib.type = "DrawState" ->
                              \E f \in Fields(Caller(i)) : Parents(n) = {f} /\ Aux(f).addr = ib.addr
                         [] OTHER ->
                              \E f \in Fields(Caller(i)) :
                                 /\ Parents(n) = {f}
                                 /\ \A m \in NodesOf("Packet") \ InsideOf(i) : Parents(m) # {f}
    BY DEF SharedParents
  <2>. DEFINE u == s[n].aux.insts
  <2>1. Good(creator) /\ History(creator, emu.stack, emu.entered) /\ Homes(creator, emu.stack)
    BY DEF HierarchyInv, HistoryInv, HomesInv
  <2>2. /\ IbNumbers(s, emu.entered) /\ InstsKnown(s)
        /\ PathsKnown(s, emu.stack) /\ PacketsHome(s)
    BY <2>1 DEF History, Homes
  <2>3. /\ NodesOf("Packet") = Of(s, "Packet") /\ InsideOf(i) = Inside(s, i)
        /\ \A m : Aux(m) = s[m].aux
    BY <2>1, NodesAre DEF Aux
  <2>4. n \in Of(s, "Packet") /\ Len(u) >= 2 /\ i = Last(u)
    BY <2>3
  <2>5. PICK b \in Of(s, "Ib") : /\ s[b].aux.inst = i
                                 /\ \E p : OnlyParent(s, n, p) /\ Placed(s, b, Front(u), p)
    BY <2>2, <2>4 DEF PacketsHome, PacketHome
  <2>6. PICK p : OnlyParent(s, n, p) /\ Placed(s, b, Front(u), p)
    BY <2>5
  <2>7. IbNode(i) = b
    BY <2>1, <2>2, <2>5, IbNodeIs
  <2>8. Front(u) # <<>>
    <3>1. IsSeq(u) /\ Len(u) \in Nat
      BY <2>2, <2>4, SeqFacts DEF InstsKnown
    <3>. DEFINE L == Len(u)
    <3>2. L \in Nat /\ L >= 2
      BY <2>4, <3>1
    <3>3. L # 0 => Len(Front(u)) = L - 1
      BY <3>1, FrontSeq
    <3>. HIDE DEF L
    <3>4. Len(Front(u)) # 0
      BY <3>2, <3>3
    <3>. QED
      BY <3>4, EmptySequence
  <2>9. PICK q : IsCaller(s, b, Front(u), q) /\ Home(s, q, b, p)
    BY <2>6, <2>8 DEF Placed
  <2>10. Caller(i) = q
    BY <2>1, <2>2, <2>4, <2>7, <2>9, CallerIs
  <2>11. ib = s[b].aux /\ Fields(q) = KidsOf(s[q], "Submit")
    BY <2>3, <2>7 DEF KidsOf
  <2>12. Unsuperseded(s, q, b)
    BY <2>3, <2>7, <2>10 DEF Superseded, Unsuperseded
  <2>13. q \in 1 .. Len(s) /\ s[q].type = "Packet"
    BY <2>9 DEF IsCaller, Of
  <2>14. p \in 0 .. Len(s) /\ ParentKind(s, b, p) /\ Len(s) \in Nat
    BY <2>1, <2>6, GoodNodes, SeqFacts DEF Placed
  <2>15. p # 0 => p \in 1 .. Len(s)
    BY <2>14
  <2>16. ib.type \in NestedTypes
    BY <2>9, <2>11 DEF Home
  <2>17. p \in 1 .. Len(s) /\ s[p].type # "RenderMarker" => Parents(n) = {p}
    BY <2>1, <2>6, ParentsAre
  <2>18. CASE ib.type \in CallTypes
    <3>1. p = q
      BY <2>9, <2>11, <2>18 DEF Home
    <3>2. Parents(n) = {Caller(i)}
      BY <2>10, <2>13, <2>17, <3>1
    <3>. HIDE DEF Parents, Fields
    <3>. QED
      BY <2>18, <3>2 DEF CallTypes
  <2>19. CASE ib.type \notin CallTypes
    <3>1. UnderField(s, q, b, p)
      BY <2>9, <2>11, <2>12, <2>19 DEF Home
    <3>2. p \in Fields(Caller(i)) /\ s[p].type = "Field" /\ p \in 1 .. Len(s)
      BY <2>10, <2>11, <2>15, <3>1 DEF UnderField, NoNode
    <3>3. Parents(n) = {p}
      BY <2>17, <3>2
    <3>4. CASE ib.type = "DrawState"
      <4>1. Aux(p).addr = ib.addr
        BY <2>3, <2>11, <3>1, <3>4 DEF UnderField
      <4>. HIDE DEF Parents, Fields
      <4>. QED
        BY <3>2, <3>3, <3>4, <4>1
    <3>5. CASE ib.type # "DrawState"
      <4>1. ib.type \in BinTypes
        BY <2>16, <2>19, <3>5 DEF NestedTypes
      <4>2. p = b - 1 /\ BinField(s, p)
        BY <2>11, <2>14, <4>1 DEF ParentKind
      <4>3. \A m \in NodesOf("Packet") \ InsideOf(i) : Parents(m) # {p}
        BY <2>1, <2>2, <2>3, <2>5, <4>2, OneBin
      <4>. HIDE DEF Parents, Fields
      <4>4. ib.type \notin {"Call", "ContextSwitch"}
        BY <2>19 DEF CallTypes
      <4>. QED
        BY <3>2, <3>3, <3>5, <4>3, <4>4
    <3>. QED
      BY <3>4, <3>5
  <2>. QED
    BY <2>18, <2>19
<1>. QED
  BY <1>1, Invariance, HistoryInvariance, HomesInvariance, PTL

=============================================================================
