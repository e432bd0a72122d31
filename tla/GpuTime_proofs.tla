--------------------------- MODULE GpuTime_proofs ---------------------------
(***************************************************************************)
(* Query slots are exclusive and are not lost, the frame's buffers are     *)
(* cached and a frame that is measured is complete, for every number of    *)
(* slots, command buffers, pools and threads.  The last part is about the nested  *)
(* class FrameMetrics, for any window, any number of frames and any shapes *)
(* of frames.                                                              *)
(***************************************************************************)
EXTENDS GpuTime, FrameMetrics, FiniteSetTheorems, WellFoundedInduction, TLAPS

\* The part of the type invariant the slots need.
SlotTypes ==
  /\ used \subseteq Slots
  /\ cached \subseteq allocated
  /\ allocated \subseteq Cmds
  /\ begin_timestamp_offset \in [Cmds -> Slots]
  /\ end_timestamp_offset \in [Cmds -> Slots]
  /\ renderpass_slots \in [Cmds -> Seq(Slots \cup {NoSlot})]

\* The inductive invariant: the exclusive ownership needs no more than the
\* types, and that no slot is lost rests on nothing else.
SlotInv == SlotTypes /\ SlotsExclusive /\ NoSlotLost

\* Zero, the value of a field that is not in use, is a slot.
LEMMA ZeroSlot == 0 \in Slots
BY SlotsAssumption DEF Slots

\* kInvalidIndex is not a slot.
LEMMA NoSlotOutside == NoSlot \notin Slots
BY SlotsAssumption DEF Slots, NoSlot

\* An empty list holds no slot.
LEMMA RangeEmpty == Range(<< >>) = {}
BY DEF Range

\* push_back adds one slot to a list.
LEMMA RangeAppend ==
  ASSUME NEW S, NEW q \in Seq(S), NEW x \in S
  PROVE  Range(Append(q, x)) = Range(q) \cup {x}
<1>1. DOMAIN q = 1 .. Len(q) /\ DOMAIN Append(q, x) = 1 .. Len(q) + 1
  OBVIOUS
<1>2. Append(q, x)[Len(q) + 1] = x
  OBVIOUS
<1>3. \A i \in 1 .. Len(q) : Append(q, x)[i] = q[i]
  OBVIOUS
<1>4. Len(q) \in Nat
  OBVIOUS
<1> QED
  BY <1>1, <1>2, <1>3, <1>4 DEF Range

\* The initial state.
LEMMA InitSlotInv == Init => SlotInv
BY ZeroSlot, RangeEmpty DEF Init, SlotInv, SlotTypes, SlotsExclusive, NoSlotLost

\* A step that leaves the slots and the cache alone.
LEMMA OtherSlotInv ==
  ASSUME SlotInv,
         UNCHANGED <<used, cached, begin_timestamp_offset,
                     end_timestamp_offset, renderpass_slots>>,
         allocated \subseteq allocated',
         allocated' \subseteq Cmds,
         leaked \subseteq leaked'
  PROVE  SlotInv'
<1>1. \A c : Info(c)' = Info(c) /\ PassSlots(c)' = PassSlots(c)
  BY DEF Info, PassSlots
<1>2. \A c : Owned(c)' = Owned(c)
  BY <1>1 DEF Owned
<1>3. SlotTypes'
  BY DEF SlotInv, SlotTypes
<1>4. SlotsExclusive'
  BY <1>1, <1>2 DEF SlotInv, SlotsExclusive
<1>5. NoSlotLost'
  BY <1>2 DEF SlotInv, NoSlotLost
<1> QED
  BY <1>3, <1>4, <1>5 DEF SlotInv

\* Slots are given back: the buffers F free their render pass slots, the
\* buffers E among them leave the cache and free their other two as well.
LEMMA FreeSlotInv ==
  ASSUME SlotInv,
         NEW F \in SUBSET cached, NEW E \in SUBSET F,
         used' = used \ ((UNION {Range(renderpass_slots[c]) : c \in F})
                           \cup (UNION {Info(c) : c \in E})),
         cached' = cached \ E,
         renderpass_slots' = Forget(renderpass_slots, F, << >>),
         \A c \in cached \ E :
           /\ begin_timestamp_offset'[c] = begin_timestamp_offset[c]
           /\ end_timestamp_offset'[c] = end_timestamp_offset[c],
         SlotTypes',
         leaked' = leaked
  PROVE  SlotInv'
<1> USE DEF SlotInv
<1>1. \A c \in cached' : c \in cached /\ c \in Cmds /\ c \notin E
  BY DEF SlotTypes
<1>2. \A c \in cached' : Info(c)' = Info(c)
  BY <1>1 DEF Info
<1>3. \A c \in cached' : renderpass_slots'[c] =
                           IF c \in F THEN << >> ELSE renderpass_slots[c]
  BY <1>1 DEF Forget
<1>4. \A c \in cached' : PassSlots(c)' = IF c \in F THEN {} ELSE PassSlots(c)
  BY <1>3, RangeEmpty DEF PassSlots
<1>5. \A c \in cached : Info(c) \cap Range(renderpass_slots[c]) = {}
  <2> TAKE c \in cached
  <2>1. NoSlot \notin Info(c)
    BY NoSlotOutside DEF Info, SlotTypes
  <2> QED
    BY <2>1 DEF SlotsExclusive, PassSlots
<1>6. \A c, d \in cached : c # d =>
        /\ Owned(c) \cap Info(d) = {}
        /\ Owned(c) \cap Range(renderpass_slots[d]) = {}
  <2> SUFFICES ASSUME NEW c \in cached, NEW d \in cached, c # d
               PROVE  /\ Owned(c) \cap Info(d) = {}
                      /\ Owned(c) \cap Range(renderpass_slots[d]) = {}
    OBVIOUS
  <2>1. NoSlot \notin Owned(c)
    BY NoSlotOutside DEF Owned, Info, PassSlots, SlotTypes
  <2> QED
    BY <2>1 DEF SlotsExclusive, Owned, PassSlots
<1>7. \A c \in cached' : Owned(c)' \subseteq used'
  <2> SUFFICES ASSUME NEW c \in cached', NEW s \in Owned(c)' PROVE s \in used'
    OBVIOUS
  <2>1. s \in Owned(c) /\ s \in used
    BY <1>1, <1>2, <1>4 DEF Owned, SlotsExclusive
  <2>2. \A d \in E : s \notin Info(d)
    BY <1>1, <1>6, <2>1
  <2>3. \A d \in F : s \notin Range(renderpass_slots[d])
    <3> TAKE d \in F
    <3>1. CASE d # c
      BY <3>1, <1>1, <1>6, <2>1
    <3>2. CASE d = c
      BY <3>2, <1>1, <1>2, <1>4, <1>5 DEF Owned
    <3> QED
      BY <3>1, <3>2
  <2> QED
    BY <2>1, <2>2, <2>3
<1>8. \A c \in cached' : Owned(c)' \subseteq Owned(c)
  BY <1>2, <1>4 DEF Owned
<1>9. \A c, d \in cached' : c # d => Owned(c)' \cap Owned(d)' = {}
  BY <1>1, <1>8 DEF SlotsExclusive
<1>10. \A c \in cached' :
         /\ begin_timestamp_offset'[c] # end_timestamp_offset'[c]
         /\ Info(c)' \cap PassSlots(c)' = {}
  BY <1>1, <1>2, <1>4 DEF SlotsExclusive
<1>11. \A c \in cached' : \A i, j \in 1 .. Len(renderpass_slots'[c]) :
         i # j /\ renderpass_slots'[c][i] # NoSlot
           => renderpass_slots'[c][i] # renderpass_slots'[c][j]
  BY <1>1, <1>3 DEF SlotsExclusive
<1>12. SlotsExclusive'
  BY <1>7, <1>9, <1>10, <1>11 DEF SlotsExclusive
<1>13. NoSlotLost'
  <2> SUFFICES ASSUME NEW s \in used', s \notin leaked
               PROVE  \E c \in cached' : s \in Owned(c)'
    BY DEF NoSlotLost
  <2>1. PICK c \in cached : s \in Owned(c)
    BY DEF NoSlotLost
  <2>2. c \notin E
    BY <2>1 DEF Owned, PassSlots
  <2>3. c \in cached'
    BY <2>2
  <2>4. s \in Owned(c)'
    BY <2>1, <2>3, <1>2, <1>4 DEF Owned, PassSlots
  <2> QED
    BY <2>3, <2>4
<1> QED
  BY <1>12, <1>13

\* Two free slots go to a buffer that enters the cache.
LEMMA AllocateSlotInv ==
  ASSUME SlotInv,
         NEW c \in Cmds \ allocated, NEW b \in Slots \ used,
         NEW e \in Slots \ (used \cup {b}),
         used' = used \cup {b, e},
         cached' = cached \cup {c},
         begin_timestamp_offset' = [begin_timestamp_offset EXCEPT ![c] = b],
         end_timestamp_offset' = [end_timestamp_offset EXCEPT ![c] = e],
         renderpass_slots' = [renderpass_slots EXCEPT ![c] = << >>],
         allocated' = allocated \cup {c},
         leaked' = leaked
  PROVE  SlotInv'
<1> USE DEF SlotInv
<1>1. SlotTypes'
  <2>1. << >> \in Seq(Slots \cup {NoSlot})
    OBVIOUS
  <2> QED
    BY <2>1 DEF SlotTypes
<1>2. c \notin cached /\ cached \subseteq Cmds
  BY DEF SlotTypes
<1>3. \A d \in cached : /\ Info(d)' = Info(d)
                        /\ renderpass_slots'[d] = renderpass_slots[d]
                        /\ PassSlots(d)' = PassSlots(d)
  BY <1>2 DEF SlotTypes, Info, PassSlots
<1>4. /\ begin_timestamp_offset'[c] = b
      /\ end_timestamp_offset'[c] = e
      /\ renderpass_slots'[c] = << >>
  BY DEF SlotTypes
<1>5. Info(c)' = {b, e} /\ PassSlots(c)' = {}
  BY <1>4, RangeEmpty DEF Info, PassSlots
<1>6. Owned(c)' = {b, e} /\ \A d \in cached : Owned(d)' = Owned(d)
  BY <1>3, <1>5 DEF Owned
<1>7. \A d \in cached : Owned(d) \subseteq used
  BY DEF SlotsExclusive
<1>8. \A d \in cached' : Owned(d)' \subseteq used'
  BY <1>6, <1>7
<1>9. \A d, f \in cached' : d # f => Owned(d)' \cap Owned(f)' = {}
  <2> SUFFICES ASSUME NEW d \in cached', NEW f \in cached', d # f
               PROVE  Owned(d)' \cap Owned(f)' = {}
    OBVIOUS
  <2>1. CASE d \in cached /\ f \in cached
    BY <2>1, <1>6 DEF SlotsExclusive
  <2>2. CASE d = c
    BY <2>2, <1>6, <1>7
  <2>3. CASE f = c
    BY <2>3, <1>6, <1>7
  <2> QED
    BY <2>1, <2>2, <2>3
<1>10. \A d \in cached' : Info(d)' \cap PassSlots(d)' = {}
  BY <1>3, <1>5 DEF SlotsExclusive
<1>11. \A d \in cached' : begin_timestamp_offset'[d] # end_timestamp_offset'[d]
  BY <1>2, <1>4 DEF SlotsExclusive, SlotTypes
<1>12. \A d \in cached' : \A i, j \in 1 .. Len(renderpass_slots'[d]) :
         i # j /\ renderpass_slots'[d][i] # NoSlot
           => renderpass_slots'[d][i] # renderpass_slots'[d][j]
  BY <1>3, <1>4 DEF SlotsExclusive
<1>13. SlotsExclusive'
  BY <1>8, <1>9, <1>10, <1>11, <1>12 DEF SlotsExclusive
<1>14. NoSlotLost'
  BY <1>6 DEF NoSlotLost
<1> QED
  BY <1>1, <1>13, <1>14

\* A render pass begins or ends: a free slot, or kInvalidIndex when there is
\* none, is appended to the buffer's list.
LEMMA PushSlotInv ==
  ASSUME SlotInv,
         NEW c \in cached, NEW x \in (Slots \ used) \cup {NoSlot},
         used' = used \cup ({x} \ {NoSlot}),
         renderpass_slots' = [renderpass_slots EXCEPT ![c] = Append(@, x)],
         UNCHANGED <<cached, allocated, begin_timestamp_offset,
                     end_timestamp_offset, leaked>>
  PROVE  SlotInv'
<1> USE DEF SlotInv
<1> DEFINE q == renderpass_slots[c]
<1>1. c \in Cmds /\ q \in Seq(Slots \cup {NoSlot}) /\ Len(q) \in Nat
  BY DEF SlotTypes
<1>2. renderpass_slots'[c] = Append(q, x)
  BY <1>1 DEF SlotTypes
<1>3. SlotTypes'
  BY <1>1 DEF SlotTypes
<1>4. \A d \in cached : Info(d)' = Info(d)
  BY DEF Info
<1>5. \A d \in cached : d # c => renderpass_slots'[d] = renderpass_slots[d]
                                   /\ PassSlots(d)' = PassSlots(d)
  BY DEF SlotTypes, PassSlots
<1>6. Range(Append(q, x)) = Range(q) \cup {x}
  BY <1>1, RangeAppend
<1>7. PassSlots(c)' = PassSlots(c) \cup ({x} \ {NoSlot})
  BY <1>2, <1>6 DEF PassSlots
<1>8. /\ \A d \in cached : d # c => Owned(d)' = Owned(d)
      /\ Owned(c)' = Owned(c) \cup ({x} \ {NoSlot})
  BY <1>4, <1>5, <1>7 DEF Owned
<1>9. \A d \in cached : Owned(d) \subseteq used
  BY DEF SlotsExclusive
<1>10. x = NoSlot \/ \A d \in cached : x \notin Owned(d)
  BY <1>9
<1>11. \A d \in cached' : Owned(d)' \subseteq used'
  BY <1>8, <1>9
<1>12. \A d, f \in cached' : d # f => Owned(d)' \cap Owned(f)' = {}
  BY <1>8, <1>10 DEF SlotsExclusive
<1>13. \A d \in cached' : Info(d)' \cap PassSlots(d)' = {}
  <2> TAKE d \in cached'
  <2>1. CASE d # c
    BY <2>1, <1>4, <1>5 DEF SlotsExclusive
  <2>2. CASE d = c
    <3>1. x = NoSlot \/ x \notin Info(c)
      BY <1>10 DEF Owned
    <3> QED
      BY <2>2, <3>1, <1>4, <1>7 DEF SlotsExclusive
  <2> QED
    BY <2>1, <2>2
<1>14. \A i \in 1 .. Len(q) : q[i] \in Range(q)
  BY <1>1 DEF Range
<1>15. \A i \in 1 .. Len(q) : q[i] # x \/ x = NoSlot
  BY <1>10, <1>14 DEF Owned, PassSlots
<1>16. \A i, j \in 1 .. Len(Append(q, x)) :
         i # j /\ Append(q, x)[i] # NoSlot => Append(q, x)[i] # Append(q, x)[j]
  <2>1. /\ Len(Append(q, x)) = Len(q) + 1
        /\ Append(q, x)[Len(q) + 1] = x
        /\ \A i \in 1 .. Len(q) : Append(q, x)[i] = q[i]
    BY <1>1
  <2>2. \A i, j \in 1 .. Len(q) : i # j /\ q[i] # NoSlot => q[i] # q[j]
    BY DEF SlotsExclusive
  <2> SUFFICES ASSUME NEW i \in 1 .. Len(q) + 1, NEW j \in 1 .. Len(q) + 1,
                      i # j, Append(q, x)[i] # NoSlot
               PROVE  Append(q, x)[i] # Append(q, x)[j]
    BY <2>1
  <2>3. CASE i \in 1 .. Len(q) /\ j \in 1 .. Len(q)
    BY <2>1, <2>2, <2>3
  <2>4. CASE i = Len(q) + 1 /\ j \in 1 .. Len(q)
    BY <2>1, <2>4, <1>15
  <2>5. CASE j = Len(q) + 1 /\ i \in 1 .. Len(q)
    BY <2>1, <2>5, <1>15
  <2> QED
    BY <2>3, <2>4, <2>5, <1>1
<1>17. \A d \in cached' : \A i, j \in 1 .. Len(renderpass_slots'[d]) :
         i # j /\ renderpass_slots'[d][i] # NoSlot
           => renderpass_slots'[d][i] # renderpass_slots'[d][j]
  <2> TAKE d \in cached'
  <2>1. CASE d = c
    BY <2>1, <1>2, <1>16
  <2>2. CASE d # c
    BY <2>2, <1>5 DEF SlotsExclusive
  <2> QED
    BY <2>1, <2>2
<1>18. \A d \in cached' : begin_timestamp_offset'[d] # end_timestamp_offset'[d]
  BY DEF SlotsExclusive
<1>19. SlotsExclusive'
  BY <1>11, <1>12, <1>13, <1>17, <1>18 DEF SlotsExclusive
<1>20. NoSlotLost'
  <2> SUFFICES ASSUME NEW s \in used', s \notin leaked'
               PROVE  \E d \in cached' : s \in Owned(d)'
    BY DEF NoSlotLost
  <2>1. CASE s \in used
    BY <2>1, <1>8 DEF NoSlotLost
  <2>2. CASE s \in {x} \ {NoSlot}
    BY <2>2, <1>8
  <2> QED
    BY <2>1, <2>2
<1> QED
  BY <1>3, <1>19, <1>20

-----------------------------------------------------------------------------
(* One lemma per action that disturbs the slots. *)

\* vkAllocateCommandBuffers: two slots, or the first of two is lost, or none
\* is left.
LEMMA AllocateStep ==
  ASSUME SlotInv, NEW c \in Cmds, NEW p \in Pools, OnAllocateCommandBuffers(c, p)
  PROVE  SlotInv'
<1> USE DEF OnAllocateCommandBuffers
<1>1. allocated \subseteq allocated' /\ allocated' \subseteq Cmds
  BY DEF SlotInv, SlotTypes
<1>2. CASE leaked' = leaked /\ cached' = cached \cup {c}
            /\ \E b \in Slots, e \in Slots :
                 /\ FirstFree(b, used, m_cur)
                 /\ FirstFree(e, used \cup {b}, After(b))
                 /\ used' = used \cup {b, e}
                 /\ begin_timestamp_offset' =
                      [begin_timestamp_offset EXCEPT ![c] = b]
                 /\ end_timestamp_offset' =
                      [end_timestamp_offset EXCEPT ![c] = e]
                 /\ renderpass_slots' = [renderpass_slots EXCEPT ![c] = << >>]
  <2>1. PICK b \in Slots, e \in Slots :
          /\ FirstFree(b, used, m_cur)
          /\ FirstFree(e, used \cup {b}, After(b))
          /\ used' = used \cup {b, e}
          /\ begin_timestamp_offset' = [begin_timestamp_offset EXCEPT ![c] = b]
          /\ end_timestamp_offset' = [end_timestamp_offset EXCEPT ![c] = e]
          /\ renderpass_slots' = [renderpass_slots EXCEPT ![c] = << >>]
    BY <1>2
  <2>2. b \in Slots \ used /\ e \in Slots \ (used \cup {b})
    BY <2>1 DEF FirstFree
  <2>3. c \in Cmds \ allocated
    OBVIOUS
  <2> HIDE DEF OnAllocateCommandBuffers
  <2>4. allocated' = allocated \cup {c}
    BY DEF OnAllocateCommandBuffers
  <2> QED
    BY <1>2, <2>1, <2>2, <2>3, <2>4, AllocateSlotInv
<1>3. CASE /\ UNCHANGED <<cached, begin_timestamp_offset,
                          end_timestamp_offset, renderpass_slots>>
           /\ \E b \in Slots : used' = Slots /\ Slots \ used = {b}
                                 /\ leaked' = leaked \cup {b}
  <2>1. \A d : Info(d)' = Info(d) /\ PassSlots(d)' = PassSlots(d)
    BY <1>3 DEF Info, PassSlots
  <2>2. \A d : Owned(d)' = Owned(d)
    BY <2>1 DEF Owned
  <2>3. used \subseteq used' /\ used' \subseteq used \cup leaked'
    BY <1>3 DEF SlotInv, SlotTypes
  <2>4. SlotTypes'
    BY <1>1, <1>3 DEF SlotInv, SlotTypes
  <2>5. SlotsExclusive'
    BY <1>3, <2>1, <2>2, <2>3 DEF SlotInv, SlotsExclusive
  <2>6. NoSlotLost'
    BY <1>3, <2>2, <2>3 DEF SlotInv, NoSlotLost
  <2> QED
    BY <2>4, <2>5, <2>6 DEF SlotInv
<1>4. CASE UNCHANGED <<used, leaked, cached, begin_timestamp_offset,
                       end_timestamp_offset, renderpass_slots>>
  BY <1>1, <1>4, OtherSlotInv
<1> QED
  BY <1>2, <1>3, <1>4 DEF AllocateSlots, slotVars

\* Fields that are reset keep their types.
LEMMA ForgetType ==
  ASSUME NEW S, NEW f \in [Cmds -> S], NEW D, NEW default \in S
  PROVE  Forget(f, D, default) \in [Cmds -> S]
BY DEF Forget

\* vkFreeCommandBuffers and vkDestroyCommandPool.
LEMMA EraseStep ==
  ASSUME SlotInv, NEW D, EraseCmds(D)
  PROVE  SlotInv'
<1> DEFINE E == D \cap cached
<1>1. E \in SUBSET cached /\ E \in SUBSET E
  OBVIOUS
<1>2. /\ used' = used \ ((UNION {Range(renderpass_slots[c]) : c \in E})
                           \cup (UNION {Info(c) : c \in E}))
      /\ cached' = cached \ E
      /\ renderpass_slots' = Forget(renderpass_slots, E, << >>)
      /\ leaked' = leaked
  BY DEF EraseCmds, RemoveFromFrameCache, FreeSlots
<1>3. SlotTypes'
  <2>1. << >> \in Seq(Slots \cup {NoSlot})
    OBVIOUS
  <2>2. renderpass_slots' \in [Cmds -> Seq(Slots \cup {NoSlot})]
    BY <1>2, <2>1, ForgetType DEF SlotInv, SlotTypes
  <2>3. begin_timestamp_offset' \in [Cmds -> Slots]
    BY ZeroSlot, ForgetType DEF EraseCmds, SlotInv, SlotTypes
  <2>4. end_timestamp_offset' \in [Cmds -> Slots]
    BY ZeroSlot, ForgetType DEF EraseCmds, SlotInv, SlotTypes
  <2>5. used' \subseteq Slots
    BY <1>2 DEF SlotInv, SlotTypes
  <2>6. cached' \subseteq allocated' /\ allocated' \subseteq Cmds
    BY DEF EraseCmds, SlotInv, SlotTypes
  <2> QED
    BY <2>2, <2>3, <2>4, <2>5, <2>6 DEF SlotTypes
<1>4. \A c \in cached \ E :
        /\ begin_timestamp_offset'[c] = begin_timestamp_offset[c]
        /\ end_timestamp_offset'[c] = end_timestamp_offset[c]
  BY DEF EraseCmds, Forget, SlotInv, SlotTypes
<1> HIDE DEF E
<1> QED
  BY <1>1, <1>2, <1>3, <1>4, FreeSlotInv

\* vkResetCommandBuffer and vkResetCommandPool.
LEMMA ResetStep ==
  ASSUME SlotInv, NEW D, ResetCmds(D)
  PROVE  SlotInv'
<1> DEFINE F == D \cap cached
<1>1. F \in SUBSET cached /\ {} \in SUBSET F
  OBVIOUS
<1>2. /\ used' = used \ ((UNION {Range(renderpass_slots[c]) : c \in F})
                           \cup (UNION {Info(c) : c \in {}}))
      /\ cached' = cached \ {}
      /\ renderpass_slots' = Forget(renderpass_slots, F, << >>)
      /\ leaked' = leaked
  BY DEF ResetCmds, RemoveFromFrameCache, FreeSlots
<1>3. UNCHANGED <<begin_timestamp_offset, end_timestamp_offset, allocated>>
  BY DEF ResetCmds
<1>4. SlotTypes'
  <2>1. << >> \in Seq(Slots \cup {NoSlot})
    OBVIOUS
  <2>2. renderpass_slots' \in [Cmds -> Seq(Slots \cup {NoSlot})]
    BY <1>2, <2>1, ForgetType DEF SlotInv, SlotTypes
  <2> QED
    BY <1>2, <1>3, <2>2 DEF SlotInv, SlotTypes
<1> HIDE DEF F
<1> QED
  BY <1>1, <1>2, <1>3, <1>4, FreeSlotInv

\* vkBeginCommandBuffer: the slots of the former recording's passes.
LEMMA BeginStep ==
  ASSUME SlotInv, NEW c \in Cmds, NEW simultaneous \in BOOLEAN,
         OnBeginCommandBuffer(c, simultaneous)
  PROVE  SlotInv'
<1>1. UNCHANGED <<cached, begin_timestamp_offset, end_timestamp_offset,
                  allocated, leaked>>
  BY DEF OnBeginCommandBuffer
<1>2. CASE Timed(c)
  <2>1. {c} \in SUBSET cached /\ {} \in SUBSET {c}
    BY <1>2 DEF Timed
  <2>2. /\ used' = used \ Range(renderpass_slots[c])
        /\ renderpass_slots' = [renderpass_slots EXCEPT ![c] = << >>]
    BY <1>2 DEF OnBeginCommandBuffer, FreeSlots
  <2>3. renderpass_slots' = Forget(renderpass_slots, {c}, << >>)
    BY <2>2 DEF Forget, SlotInv, SlotTypes
  <2>4. used' = used \ ((UNION {Range(renderpass_slots[d]) : d \in {c}})
                          \cup (UNION {Info(d) : d \in {}}))
    BY <2>2
  <2>5. SlotTypes'
    <3>1. << >> \in Seq(Slots \cup {NoSlot})
      OBVIOUS
    <3> QED
      BY <1>1, <2>2, <3>1 DEF SlotInv, SlotTypes
  <2>6. cached' = cached \ {}
    BY <1>1
  <2> QED
    BY <1>1, <2>1, <2>3, <2>4, <2>5, <2>6, FreeSlotInv
<1>3. CASE ~Timed(c)
  <2>1. UNCHANGED <<used, renderpass_slots>>
    BY <1>3 DEF OnBeginCommandBuffer, slotVars
  <2>2. allocated' \subseteq Cmds
    BY <1>1 DEF SlotInv, SlotTypes
  <2> QED
    BY <1>1, <2>1, <2>2, OtherSlotInv
<1> QED
  BY <1>2, <1>3

\* vkCmdBeginRenderPass and vkCmdEndRenderPass.
LEMMA PushStep ==
  ASSUME SlotInv, NEW c \in Cmds, PushSlot(c)
  PROVE  SlotInv'
<1>1. UNCHANGED <<cached, begin_timestamp_offset, end_timestamp_offset,
                  allocated, leaked>>
  BY DEF PushSlot
<1>2. CASE Timed(c)
  <2>1. c \in cached
    BY <1>2 DEF Timed
  <2>2. \E x \in (Slots \ used) \cup {NoSlot} :
          /\ used' = used \cup ({x} \ {NoSlot})
          /\ renderpass_slots' = [renderpass_slots EXCEPT ![c] = Append(@, x)]
    BY <1>2, NoSlotOutside DEF PushSlot, FirstFree, slotVars
  <2> QED
    BY <1>1, <2>1, <2>2, PushSlotInv
<1>3. CASE ~Timed(c)
  <2>1. UNCHANGED <<used, renderpass_slots>>
    BY <1>3 DEF PushSlot, slotVars
  <2>2. allocated' \subseteq Cmds
    BY <1>1 DEF SlotInv, SlotTypes
  <2> QED
    BY <1>1, <2>1, <2>2, OtherSlotInv
<1> QED
  BY <1>2, <1>3

\* Every step of the system preserves the invariant.
LEMMA NextSlotInv == SlotInv /\ [Next]_vars => SlotInv'
<1> SUFFICES ASSUME SlotInv, [Next]_vars PROVE SlotInv'
  OBVIOUS
<1> DEFINE Untouched == UNCHANGED <<slotVars, cmdVars, allocated, leaked>>
<1>1. Untouched => SlotInv'
  <2>1. allocated \subseteq Cmds
    BY DEF SlotInv, SlotTypes
  <2> QED
    BY <2>1, OtherSlotInv DEF slotVars, cmdVars
<1>2. ASSUME NEW c \in Cmds, CmdStep(c) PROVE SlotInv'
  <2>1. ASSUME NEW p \in Pools, OnAllocateCommandBuffers(c, p) PROVE SlotInv'
    BY <2>1, AllocateStep
  <2>2. CASE OnFreeCommandBuffers(c)
    BY <2>2, EraseStep DEF OnFreeCommandBuffers
  <2>3. CASE OnResetCommandBuffer(c)
    BY <2>3, ResetStep DEF OnResetCommandBuffer
  <2>4. ASSUME NEW simultaneous \in BOOLEAN,
               OnBeginCommandBuffer(c, simultaneous)
        PROVE  SlotInv'
    BY <2>4, BeginStep
  <2>5. CASE OnEndCommandBuffer(c)
    BY <2>5, <1>1 DEF OnEndCommandBuffer
  <2>6. CASE BeginRenderPass(c) \/ EndRenderPass(c)
    BY <2>6, PushStep DEF BeginRenderPass, EndRenderPass
  <2> QED
    BY <1>2, <2>1, <2>2, <2>3, <2>4, <2>5, <2>6 DEF CmdStep
<1>3. ASSUME NEW p \in Pools, PoolStep(p) PROVE SlotInv'
  BY <1>3, EraseStep, ResetStep
     DEF PoolStep, OnDestroyCommandPool, OnResetCommandPool
<1>4. OnFrameBoundary => Untouched
  BY DEF OnFrameBoundary
<1>5. ASSUME NEW t \in Threads, SubmitStep(t) PROVE SlotInv'
  <2>1. ASSUME NEW b, NEW boundary, QueueSubmit(t, b, boundary) PROVE Untouched
    BY <2>1 DEF QueueSubmit
  <2>2. OnQueueSubmit(t) => Untouched
    BY DEF OnQueueSubmit
  <2>3. OnQueueSubmitBoundary(t) => Untouched
    BY <1>4 DEF OnQueueSubmitBoundary
  <2> QED
    BY <1>1, <1>5, <2>1, <2>2, <2>3 DEF SubmitStep
<1>6. CASE OnQueuePresent
  BY <1>1, <1>4, <1>6 DEF OnQueuePresent
<1>7. CASE ClearFrameCache
  BY <1>1, <1>7 DEF ClearFrameCache
<1>8. CASE UNCHANGED vars
  BY <1>1, <1>8 DEF vars
<1> QED
  BY <1>2, <1>3, <1>5, <1>6, <1>7, <1>8 DEF Next

-----------------------------------------------------------------------------
(* The theorems *)

\* The allocator and the cache agree in every reachable state.
LEMMA SlotInvariance == Spec => []SlotInv
BY InitSlotInv, NextSlotInv, PTL DEF Spec

\* No two timestamps of the GPU share a query slot, whatever the application
\* allocates, resets, re-records, frees and submits, and in which order.
THEOREM SlotsExclusiveHolds == Spec => []SlotsExclusive
<1>1. SlotInv => SlotsExclusive
  BY DEF SlotInv
<1> QED
  BY <1>1, SlotInvariance, PTL

\* Every query slot in use belongs to a buffer whose release frees it, or was
\* lost by an allocation of command buffers that ran out of slots.
THEOREM NoSlotLostHolds == Spec => []NoSlotLost
<1>1. SlotInv => NoSlotLost
  BY DEF SlotInv
<1> QED
  BY <1>1, SlotInvariance, PTL

-----------------------------------------------------------------------------
(* The buffers of the frame *)

\* Every set of natural numbers with an element has a least one.
LEMMA LeastNumber ==
  ASSUME NEW T \in SUBSET Nat, T # {}
  PROVE  \E m \in T : \A n \in T : m <= n
<1>1. PICK m \in T : \A n \in T : ~(<<n, m>> \in OpToRel(<, Nat))
  BY WFMin, NatLessThanWellFounded
<1>2. \A n \in T : ~(n < m)
  BY <1>1 DEF OpToRel
<1> QED
  BY <1>2

\* The equation of the recursive function in Without, up to last.
Keeps(kept, s, D, last) ==
  \A n \in 0 .. last :
    kept[n] = IF n = 0 THEN << >>
              ELSE IF s[n] \in D THEN kept[n - 1] ELSE Append(kept[n - 1], s[n])

\* It has a solution, by the least last for which it has none.
LEMMA KeepsSolved ==
  ASSUME NEW s, NEW D, NEW last \in Nat
  PROVE  \E kept : kept = [n \in 0 .. last |-> kept[n]] /\ Keeps(kept, s, D, last)
<1> DEFINE Solved(l) == \E kept : kept = [n \in 0 .. l |-> kept[n]] /\ Keeps(kept, s, D, l)
           Bad == {l \in Nat : ~Solved(l)}
<1> SUFFICES ASSUME Bad # {} PROVE FALSE
  OBVIOUS
<1>1. PICK m \in Bad : \A n \in Bad : m <= n
  BY LeastNumber
<1>2. m \in Nat /\ ~Solved(m)
  OBVIOUS
<1>3. CASE m = 0
  <2> DEFINE f == [n \in 0 .. 0 |-> << >>]
  <2>1. f = [n \in 0 .. 0 |-> f[n]] /\ Keeps(f, s, D, 0)
    BY DEF Keeps
  <2> QED
    BY <1>2, <1>3, <2>1
<1>4. CASE m # 0
  <2>1. m - 1 \in Nat /\ m - 1 \notin Bad
    BY <1>1, <1>4
  <2>2. PICK f : f = [n \in 0 .. m - 1 |-> f[n]] /\ Keeps(f, s, D, m - 1)
    BY <2>1
  <2> DEFINE g == [n \in 0 .. m |->
                     IF n = m THEN IF s[m] \in D THEN f[m - 1] ELSE Append(f[m - 1], s[m])
                              ELSE f[n]]
  <2>3. g = [n \in 0 .. m |-> g[n]]
    OBVIOUS
  <2>4. ASSUME NEW n \in 0 .. m
        PROVE  g[n] = IF n = 0 THEN << >>
                      ELSE IF s[n] \in D THEN g[n - 1] ELSE Append(g[n - 1], s[n])
    <3>1. CASE n = m
      <4>1. g[m - 1] = f[m - 1]
        BY <2>1, <1>2
      <4> QED
        BY <1>4, <3>1, <4>1
    <3>2. CASE n # m
      <4>1. n \in 0 .. m - 1 /\ g[n] = f[n]
        BY <1>2, <3>2
      <4>2. n # 0 => g[n - 1] = f[n - 1]
        BY <1>2, <4>1
      <4> QED
        BY <2>2, <4>1, <4>2 DEF Keeps
    <3> QED
      BY <3>1, <3>2
  <2>5. Keeps(g, s, D, m)
    BY <2>4 DEF Keeps
  <2> HIDE DEF g
  <2> QED
    BY <1>2, <2>3, <2>5
<1> QED
  BY <1>3, <1>4

Kept(s, D) ==
  CHOOSE kept : kept = [n \in 0 .. Len(s) |->
                  IF n = 0 THEN << >>
                  ELSE IF s[n] \in D THEN kept[n - 1] ELSE Append(kept[n - 1], s[n])]

LEMMA WithoutIsKept ==
  ASSUME NEW s, NEW D PROVE Without(s, D) = Kept(s, D)[Len(s)]
BY DEF Without, Kept

LEMMA KeptKeeps ==
  ASSUME NEW S, NEW s \in Seq(S), NEW D
  PROVE  Keeps(Kept(s, D), s, D, Len(s))
<1>1. Len(s) \in Nat
  OBVIOUS
<1>2. PICK f : f = [n \in 0 .. Len(s) |-> f[n]] /\ Keeps(f, s, D, Len(s))
  BY <1>1, KeepsSolved
<1>3. f = [n \in 0 .. Len(s) |->
             IF n = 0 THEN << >>
             ELSE IF s[n] \in D THEN f[n - 1] ELSE Append(f[n - 1], s[n])]
  BY <1>2 DEF Keeps
<1>4. Kept(s, D) = [n \in 0 .. Len(s) |->
             IF n = 0 THEN << >>
             ELSE IF s[n] \in D THEN Kept(s, D)[n - 1] ELSE Append(Kept(s, D)[n - 1], s[n])]
  BY <1>3 DEF Kept
<1> QED
  BY <1>4 DEF Keeps

\* Erasing the members of D leaves members of the list that are not in D.
LEMMA WithoutRange ==
  ASSUME NEW S, NEW s \in Seq(S), NEW D
  PROVE  Without(s, D) \in Seq(S) /\ Range(Without(s, D)) \subseteq Range(s) \ D
<1> DEFINE kept == Kept(s, D)
           Good(n) == kept[n] \in Seq(S) /\ Range(kept[n]) \subseteq Range(s) \ D
           Bad == {n \in 0 .. Len(s) : ~Good(n)}
<1>1. Len(s) \in Nat /\ Keeps(kept, s, D, Len(s))
  BY KeptKeeps
<1> HIDE DEF kept
<1>2. CASE Bad = {}
  BY <1>1, <1>2, WithoutIsKept DEF kept
<1>3. CASE Bad # {}
  <2>0. Bad \in SUBSET Nat
    BY <1>1
  <2>1. PICK m \in Bad : \A n \in Bad : m <= n
    <3> HIDE DEF Bad
    <3> QED
      BY <1>3, <2>0, LeastNumber
  <2>2. m \in 0 .. Len(s) /\ ~Good(m)
    OBVIOUS
  <2>3. m # 0
    <3>1. 0 \in 0 .. Len(s)
      BY <1>1
    <3>2. kept[0] = << >>
      BY <1>1, <3>1 DEF Keeps
    <3>3. Good(0)
      BY <3>2, RangeEmpty
    <3> QED
      BY <2>2, <3>3
  <2>4. m - 1 \in 0 .. Len(s) /\ m - 1 \notin Bad
    BY <1>1, <2>1, <2>2, <2>3
  <2>5. Good(m - 1)
    BY <2>4
  <2>6. s[m] \in S /\ s[m] \in Range(s)
    BY <1>1, <2>2, <2>3 DEF Range
  <2>7. CASE s[m] \in D
    BY <1>1, <2>2, <2>3, <2>5, <2>7 DEF Keeps
  <2>8. CASE s[m] \notin D
    <3>1. kept[m] = Append(kept[m - 1], s[m])
      BY <1>1, <2>2, <2>3, <2>8 DEF Keeps
    <3>2. Range(kept[m]) = Range(kept[m - 1]) \cup {s[m]}
      BY <2>5, <2>6, <3>1, RangeAppend
    <3> QED
      BY <2>2, <2>5, <2>6, <2>8, <3>1, <3>2
  <2> QED
    BY <2>7, <2>8
<1> QED
  BY <1>2, <1>3

\* The inductive invariant: what the frame and the batches hold are sequences,
\* and the frame's buffers are in the cache.
CacheTypes ==
  /\ cached \subseteq Cmds
  /\ m_frame_cmds \in Seq(Cmds)
  /\ batch \in [Threads -> Seq(Cmds)]

CacheInv == CacheTypes /\ FrameCmdsCached

\* Freed or reset: the buffers leave the frame before the cache.
LEMMA RemoveStep ==
  ASSUME CacheInv, NEW D, NEW E \in SUBSET D, NEW more,
         RemoveFromFrameCache(D, more), cached' = cached \ E, batch' = batch
  PROVE  CacheInv'
<1>1. m_frame_cmds' \in Seq(Cmds) /\ Range(m_frame_cmds') \subseteq Range(m_frame_cmds) \ D
  BY WithoutRange DEF CacheInv, CacheTypes, RemoveFromFrameCache
<1> QED
  BY <1>1 DEF CacheInv, CacheTypes, FrameCmdsCached

\* The application submits buffers it has.
LEMMA BatchesAreSequences ==
  ASSUME allocated \subseteq Cmds, NEW b \in Batches PROVE b \in Seq(Cmds)
<1>1. PICK n \in 1 .. MaxBatch : b \in [1 .. n -> {c \in allocated : rec[c] = "executable"}]
  BY DEF Batches
<1>2. b \in [1 .. n -> Cmds] /\ n \in Nat
  BY <1>1, BoundsAssumption
<1> QED
  BY <1>2

\* OnQueueSubmit appends buffers of the cache only.
LEMMA SubmitCacheInv ==
  ASSUME CacheInv, NEW t \in Threads, OnQueueSubmit(t)
  PROVE  CacheInv'
<1>1. PICK k \in 0 .. Len(batch[t]) :
        /\ \A i \in 1 .. k : Supported(batch[t][i])
        /\ m_frame_cmds' = m_frame_cmds \o SubSeq(batch[t], 1, k)
  BY DEF OnQueueSubmit
<1>2. PICK b \in Seq(Cmds), f \in Seq(Cmds) : b = batch[t] /\ f = m_frame_cmds
  BY DEF CacheInv, CacheTypes
<1> DEFINE front == SubSeq(b, 1, k)
<1>3. front \in Seq(Cmds) /\ DOMAIN front = 1 .. k /\ \A i \in 1 .. k : front[i] = b[i]
  BY <1>2
<1>4. Range(front) \subseteq cached
  BY <1>1, <1>2, <1>3 DEF Range, Supported
<1>5. Range(f) \subseteq cached
  BY <1>2 DEF CacheInv, FrameCmdsCached
<1> HIDE DEF front
<1>6. f \o front \in Seq(Cmds) /\ Range(f \o front) \subseteq cached
  <2>1. \A i \in DOMAIN (f \o front) :
          \/ i \in DOMAIN f /\ (f \o front)[i] = f[i]
          \/ i - Len(f) \in DOMAIN front /\ (f \o front)[i] = front[i - Len(f)]
    BY <1>3
  <2>2. f \o front \in Seq(Cmds)
    BY <1>3
  <2> QED
    BY <1>4, <1>5, <2>1, <2>2 DEF Range
<1>7. m_frame_cmds' = f \o front /\ cached' = cached
      /\ batch' = [batch EXCEPT ![t] = << >>]
  BY <1>1, <1>2 DEF OnQueueSubmit, front, cmdVars
<1>8. batch' \in [Threads -> Seq(Cmds)]
  BY <1>7 DEF CacheInv, CacheTypes
<1> QED
  BY <1>6, <1>7, <1>8 DEF CacheInv, CacheTypes, FrameCmdsCached

LEMMA CacheInvariance == Spec => []CacheInv
<1>1. Init => CacheInv
  BY RangeEmpty DEF Init, CacheInv, CacheTypes, FrameCmdsCached
<1>2. CacheInv /\ SlotInv /\ [Next]_vars => CacheInv'
  <2> SUFFICES ASSUME CacheInv, SlotInv, [Next]_vars PROVE CacheInv'
    OBVIOUS
  <2>0. allocated \subseteq Cmds
    BY DEF SlotInv, SlotTypes
  <2>1. ASSUME UNCHANGED <<m_frame_cmds, batch>>, cached \subseteq cached', cached' \subseteq Cmds
        PROVE  CacheInv'
    BY <2>1 DEF CacheInv, CacheTypes, FrameCmdsCached
  <2>2. ASSUME m_frame_cmds' = << >>, UNCHANGED <<cached, batch>> PROVE CacheInv'
    BY <2>2, RangeEmpty DEF CacheInv, CacheTypes, FrameCmdsCached
  <2>3. ASSUME NEW D, EraseCmds(D) PROVE CacheInv'
    <3>1. PICK E, more : E = D \cap cached /\ RemoveFromFrameCache(E, more)
      BY <2>3 DEF EraseCmds
    <3>2. cached' = cached \ E /\ batch' = batch
      BY <2>3, <3>1 DEF EraseCmds, subVars
    <3> QED
      BY <3>1, <3>2, RemoveStep
  <2>4. ASSUME NEW D, ResetCmds(D) PROVE CacheInv'
    <3>1. PICK E, more : RemoveFromFrameCache(E, more)
      BY <2>4 DEF ResetCmds
    <3>2. cached' = cached \ {} /\ batch' = batch
      BY <2>4 DEF ResetCmds, subVars
    <3> QED
      BY <3>1, <3>2, RemoveStep
  <2>5. ASSUME NEW c \in Cmds, CmdStep(c) PROVE CacheInv'
    <3>1. ASSUME NEW p \in Pools, OnAllocateCommandBuffers(c, p) PROVE CacheInv'
      <4>1. cached' = cached \/ cached' = cached \cup {c}
        BY <3>1 DEF OnAllocateCommandBuffers, AllocateSlots
      <4>2. UNCHANGED <<m_frame_cmds, batch>>
        BY <3>1 DEF OnAllocateCommandBuffers, frameVars, subVars
      <4>3. cached \subseteq Cmds
        BY DEF CacheInv, CacheTypes
      <4> QED
        BY <2>1, <4>1, <4>2, <4>3
    <3>2. CASE OnFreeCommandBuffers(c)
      BY <2>3, <3>2 DEF OnFreeCommandBuffers
    <3>3. CASE OnResetCommandBuffer(c)
      BY <2>4, <3>3 DEF OnResetCommandBuffer
    <3>4. ASSUME NEW simultaneous \in BOOLEAN, OnBeginCommandBuffer(c, simultaneous)
          PROVE  CacheInv'
      BY <2>1, <3>4 DEF OnBeginCommandBuffer, frameVars, subVars, CacheInv, CacheTypes
    <3>5. CASE OnEndCommandBuffer(c)
      BY <2>1, <3>5 DEF OnEndCommandBuffer, frameVars, cmdVars, subVars, CacheInv, CacheTypes
    <3>6. CASE BeginRenderPass(c) \/ EndRenderPass(c)
      BY <2>1, <3>6 DEF BeginRenderPass, EndRenderPass, PushSlot, frameVars, subVars,
                        CacheInv, CacheTypes
    <3> QED
      BY <2>5, <3>1, <3>2, <3>3, <3>4, <3>5, <3>6 DEF CmdStep
  <2>6. ASSUME NEW p \in Pools, PoolStep(p) PROVE CacheInv'
    BY <2>3, <2>4, <2>6 DEF PoolStep, OnDestroyCommandPool, OnResetCommandPool
  <2>7. ASSUME NEW t \in Threads, SubmitStep(t) PROVE CacheInv'
    <3>1. ASSUME NEW b \in Batches, NEW boundary \in BOOLEAN, QueueSubmit(t, b, boundary)
          PROVE  CacheInv'
      <4>1. b \in Seq(Cmds)
        BY <2>0, BatchesAreSequences
      <4> QED
        BY <3>1, <4>1 DEF QueueSubmit, frameVars, cmdVars, CacheInv, CacheTypes, FrameCmdsCached
    <3>2. CASE OnQueueSubmit(t)
      BY <3>2, SubmitCacheInv
    <3>3. CASE OnQueueSubmitBoundary(t)
      BY <2>2, <3>3 DEF OnQueueSubmitBoundary, OnFrameBoundary, cmdVars
    <3> QED
      BY <2>7, <3>1, <3>2, <3>3 DEF SubmitStep
  <2>8. CASE OnQueuePresent
    BY <2>2, <2>8 DEF OnQueuePresent, OnFrameBoundary, cmdVars, subVars
  <2>9. CASE ClearFrameCache
    BY <2>2, <2>9 DEF ClearFrameCache, cmdVars, subVars
  <2>10. CASE UNCHANGED vars
    BY <2>1, <2>10 DEF vars, frameVars, cmdVars, subVars, CacheInv, CacheTypes
  <2> QED
    BY <2>5, <2>6, <2>7, <2>8, <2>9, <2>10 DEF Next
<1> QED
  BY <1>1, <1>2, SlotInvariance, PTL DEF Spec

\* The frame's buffers are in the cache: a frame that is open while buffers
\* are freed, reset and submitted by other threads, and pools are destroyed,
\* never keeps a buffer that m_cmds has dropped.
THEOREM FrameCmdsCachedHolds == Spec => []FrameCmdsCached
<1>1. CacheInv => FrameCmdsCached
  BY DEF CacheInv
<1> QED
  BY <1>1, CacheInvariance, PTL

-----------------------------------------------------------------------------
(* The frame is complete *)

\* The equation of the recursive function in Without has one solution.
LEMMA KeepsUnique ==
  ASSUME NEW s, NEW D, NEW last \in Nat, NEW f, NEW g,
         Keeps(f, s, D, last), Keeps(g, s, D, last)
  PROVE  f[last] = g[last]
<1> DEFINE Bad == {n \in 0 .. last : f[n] # g[n]}
<1> SUFFICES ASSUME Bad # {} PROVE FALSE
  OBVIOUS
<1>1. Bad \in SUBSET Nat
  OBVIOUS
<1>2. PICK m \in Bad : \A n \in Bad : m <= n
  <2> HIDE DEF Bad
  <2> QED
    BY <1>1, LeastNumber
<1>3. m \in 0 .. last /\ f[m] # g[m]
  OBVIOUS
<1>4. m # 0
  BY <1>3 DEF Keeps
<1>5. m - 1 \in 0 .. last /\ m - 1 \notin Bad
  BY <1>2, <1>3, <1>4
<1>6. f[m - 1] = g[m - 1]
  BY <1>5
<1> QED
  BY <1>3, <1>4, <1>6 DEF Keeps

\* Of a list of members of C, only the members of C can be erased.
LEMMA WithoutSame ==
  ASSUME NEW S, NEW s \in Seq(S), NEW C, NEW D, Range(s) \subseteq C
  PROVE  Without(s, D \cap C) = Without(s, D)
<1> DEFINE f == Kept(s, D \cap C)
           g == Kept(s, D)
<1>1. Len(s) \in Nat
  OBVIOUS
<1>2. Keeps(f, s, D \cap C, Len(s)) /\ Keeps(g, s, D, Len(s))
  BY KeptKeeps
<1> HIDE DEF f, g
<1>3. \A n \in 1 .. Len(s) : s[n] \in D \cap C <=> s[n] \in D
  BY <1>1 DEF Range
<1>4. \A n \in 0 .. Len(s) : n # 0 => n \in 1 .. Len(s)
  BY <1>1
<1>5. Keeps(f, s, D, Len(s))
  BY <1>2, <1>3, <1>4 DEF Keeps
<1>6. f[Len(s)] = g[Len(s)]
  BY <1>1, <1>2, <1>5, KeepsUnique
<1> QED
  BY <1>6, WithoutIsKept DEF f, g

\* What erasing the buffers D of the cache does to the frame and to the record.
LEMMA RemoveComplete ==
  ASSUME CacheInv, FrameComplete, NEW D, m_valid_frame' = m_valid_frame,
         m_frame_cmds' = Without(m_frame_cmds, D \cap cached),
         reported' = Without(reported, D)
  PROVE  FrameComplete'
<1>1. Without(m_frame_cmds, D \cap cached) = Without(m_frame_cmds, D)
  BY WithoutSame DEF CacheInv, CacheTypes, FrameCmdsCached
<1> QED
  BY <1>1 DEF FrameComplete

\* OnQueueSubmit leaves the frame valid only if it has appended the whole batch.
LEMMA SubmitComplete ==
  ASSUME CacheInv, FrameComplete, NEW t \in Threads, OnQueueSubmit(t)
  PROVE  FrameComplete'
<1> SUFFICES ASSUME m_valid_frame' PROVE m_frame_cmds' = reported'
  BY DEF FrameComplete
<1>1. PICK k \in 0 .. Len(batch[t]) :
        /\ m_frame_cmds' = m_frame_cmds \o SubSeq(batch[t], 1, k)
        /\ IF k = Len(batch[t]) THEN UNCHANGED m_valid_frame ELSE m_valid_frame' = FALSE
  BY DEF OnQueueSubmit
<1>2. k = Len(batch[t]) /\ m_valid_frame
  BY <1>1
<1>3. batch[t] \in Seq(Cmds)
  BY DEF CacheInv, CacheTypes
<1>4. SubSeq(batch[t], 1, k) = batch[t]
  BY <1>2, <1>3
<1>5. m_frame_cmds = reported
  BY <1>2 DEF FrameComplete
<1>6. reported' = reported \o batch[t]
  BY DEF OnQueueSubmit
<1> QED
  BY <1>1, <1>4, <1>5, <1>6

\* A frame that will be measured lists exactly the buffers that OnQueueSubmit was
\* told of since the last boundary and that were not reset or freed since, for any
\* threads and batches.  FrameComplete is inductive, given CacheInv: taking a buffer
\* of m_cmds out of the frame takes it out of the record too only because the frame
\* has no other buffers.
THEOREM FrameCompleteHolds == Spec => []FrameComplete
<1>1. Init => FrameComplete
  BY DEF Init, FrameComplete
<1>2. CacheInv /\ FrameComplete /\ [Next]_vars => FrameComplete'
  <2> SUFFICES ASSUME CacheInv, FrameComplete, [Next]_vars PROVE FrameComplete'
    OBVIOUS
  <2>1. UNCHANGED <<frameVars, reported>> => FrameComplete'
    BY DEF FrameComplete, frameVars
  <2>2. ASSUME m_frame_cmds' = << >>, reported' = << >> PROVE FrameComplete'
    BY <2>2 DEF FrameComplete
  <2>3. ASSUME NEW D, EraseCmds(D) PROVE FrameComplete'
    BY <2>3, RemoveComplete DEF EraseCmds, RemoveFromFrameCache
  <2>4. ASSUME NEW D, ResetCmds(D) PROVE FrameComplete'
    BY <2>4, RemoveComplete DEF ResetCmds, RemoveFromFrameCache
  <2>5. ASSUME NEW c \in Cmds, CmdStep(c) PROVE FrameComplete'
    <3>1. CASE OnFreeCommandBuffers(c)
      BY <2>3, <3>1 DEF OnFreeCommandBuffers
    <3>2. CASE OnResetCommandBuffer(c)
      BY <2>4, <3>2 DEF OnResetCommandBuffer
    <3>3. CASE ~OnFreeCommandBuffers(c) /\ ~OnResetCommandBuffer(c)
      <4>1. UNCHANGED <<frameVars, reported>>
        BY <2>5, <3>3 DEF CmdStep, OnAllocateCommandBuffers, OnBeginCommandBuffer,
           OnEndCommandBuffer, BeginRenderPass, EndRenderPass, PushSlot
      <4> QED
        BY <2>1, <4>1
    <3> QED
      BY <3>1, <3>2, <3>3
  <2>6. ASSUME NEW p \in Pools, PoolStep(p) PROVE FrameComplete'
    BY <2>3, <2>4, <2>6 DEF PoolStep, OnDestroyCommandPool, OnResetCommandPool
  <2>7. ASSUME NEW t \in Threads, SubmitStep(t) PROVE FrameComplete'
    <3>1. ASSUME NEW b, NEW boundary, QueueSubmit(t, b, boundary) PROVE FrameComplete'
      BY <2>1, <3>1 DEF QueueSubmit
    <3>2. CASE OnQueueSubmit(t)
      BY <3>2, SubmitComplete
    <3>3. CASE OnQueueSubmitBoundary(t)
      BY <2>2, <3>3 DEF OnQueueSubmitBoundary, OnFrameBoundary
    <3> QED
      BY <2>7, <3>1, <3>2, <3>3 DEF SubmitStep
  <2>8. CASE OnQueuePresent
    BY <2>2, <2>8 DEF OnQueuePresent, OnFrameBoundary
  <2>9. CASE ClearFrameCache
    BY <2>2, <2>9 DEF ClearFrameCache
  <2>10. CASE UNCHANGED vars
    BY <2>1, <2>10 DEF vars
  <2> QED
    BY <2>5, <2>6, <2>7, <2>8, <2>9, <2>10 DEF Next
<1> QED
  BY <1>1, <1>2, CacheInvariance, PTL DEF Spec

-----------------------------------------------------------------------------
(* FrameMetrics.  The number of render passes of a frame is a fold, a recursive
   function on sets of indices: first, that it is a natural number, by induction
   on the size of the sets in the form of the least counterexample. *)

Pick(s) == CHOOSE x \in s : TRUE

\* The equation of the fold that adds up counts, on the sets of a family.
AddsUp(f, counts, family) ==
  \A s \in family : f[s] = IF s = {} THEN 0 ELSE counts[Pick(s)] + f[s \ {Pick(s)}]

Sums(counts) ==
  CHOOSE f : f = [s \in SUBSET DOMAIN counts |->
                    IF s = {} THEN 0 ELSE counts[Pick(s)] + f[s \ {Pick(s)}]]

LEMMA TotalIsSum ==
  ASSUME NEW counts
  PROVE  Total(counts) = Sums(counts)[DOMAIN counts]
  BY SMT DEF Total, FoldSeq, FoldFunction, FoldFunctionOnSet, MapThenFoldSet, Sums, Pick

\* The sets of indices with at most n elements.
Small(counts, n) == {s \in SUBSET DOMAIN counts : Cardinality(s) <= n}

LEMMA SetsOfIndices ==
  ASSUME NEW counts \in Seq(Nat)
  PROVE  /\ IsFiniteSet(DOMAIN counts)
         /\ \A s \in SUBSET DOMAIN counts :
              /\ IsFiniteSet(s)
              /\ Cardinality(s) \in Nat
              /\ Cardinality(s) <= Cardinality(DOMAIN counts)
              /\ Cardinality(s) = 0 <=> s = {}
              /\ s # {} => /\ Pick(s) \in s
                           /\ counts[Pick(s)] \in Nat
                           /\ s \ {Pick(s)} \in SUBSET DOMAIN counts
                           /\ Cardinality(s \ {Pick(s)}) = Cardinality(s) - 1
  <1>1. IsFiniteSet(DOMAIN counts)
    BY FS_Interval
  <1> SUFFICES ASSUME NEW s \in SUBSET DOMAIN counts
               PROVE  /\ IsFiniteSet(s)
                      /\ Cardinality(s) \in Nat
                      /\ Cardinality(s) <= Cardinality(DOMAIN counts)
                      /\ Cardinality(s) = 0 <=> s = {}
                      /\ s # {} => /\ Pick(s) \in s
                                   /\ counts[Pick(s)] \in Nat
                                   /\ s \ {Pick(s)} \in SUBSET DOMAIN counts
                                   /\ Cardinality(s \ {Pick(s)}) = Cardinality(s) - 1
    BY <1>1
  <1>2. IsFiniteSet(s) /\ Cardinality(s) <= Cardinality(DOMAIN counts)
    BY <1>1, FS_Subset
  <1>3. Cardinality(s) \in Nat /\ (Cardinality(s) = 0 <=> s = {})
    BY <1>2, FS_CardinalityType, FS_EmptySet
  <1>4. ASSUME s # {}
        PROVE  /\ Pick(s) \in s
               /\ counts[Pick(s)] \in Nat
               /\ s \ {Pick(s)} \in SUBSET DOMAIN counts
               /\ Cardinality(s \ {Pick(s)}) = Cardinality(s) - 1
    <2>1. Pick(s) \in s
      BY <1>4 DEF Pick
    <2>2. Cardinality(s \ {Pick(s)}) = Cardinality(s) - 1
      BY <1>2, <2>1, FS_RemoveElement
    <2>3. counts[Pick(s)] \in Nat
      BY <2>1
    <2> QED BY <2>1, <2>2, <2>3
  <1> QED BY <1>2, <1>3, <1>4

\* The equation has a solution on the sets of every size.
LEMMA SolvedUpTo ==
  ASSUME NEW counts \in Seq(Nat), NEW size \in Nat
  PROVE  \E f \in [Small(counts, size) -> Nat] : AddsUp(f, counts, Small(counts, size))
  <1> DEFINE Solved(n) == \E f \in [Small(counts, n) -> Nat] : AddsUp(f, counts, Small(counts, n))
             Bad == {n \in Nat : ~Solved(n)}
  <1> SUFFICES ASSUME Bad # {} PROVE FALSE
    OBVIOUS
  <1>1. PICK m \in Bad : \A n \in Bad : m <= n
    BY LeastNumber
  <1>2. m \in Nat /\ ~Solved(m)
    OBVIOUS
  <1>3. CASE m = 0
    <2>1. ASSUME NEW s \in Small(counts, 0) PROVE s = {}
      <3>1. s \in SUBSET DOMAIN counts /\ Cardinality(s) <= 0
        BY DEF Small
      <3>2. Cardinality(s) \in Nat /\ (Cardinality(s) = 0 <=> s = {})
        BY <3>1, SetsOfIndices
      <3> QED BY <3>1, <3>2
    <2> DEFINE f == [s \in Small(counts, 0) |-> 0]
    <2>2. f \in [Small(counts, 0) -> Nat] /\ AddsUp(f, counts, Small(counts, 0))
      BY <2>1 DEF AddsUp
    <2> QED BY <1>2, <1>3, <2>2
  <1>4. CASE m # 0
    <2>1. m - 1 \in Nat /\ m - 1 \notin Bad
      BY <1>1, <1>4
    <2>2. Solved(m - 1)
      BY <2>1
    <2>3. PICK f \in [Small(counts, m - 1) -> Nat] : AddsUp(f, counts, Small(counts, m - 1))
      BY <2>2
    <2> DEFINE g == [s \in Small(counts, m) |->
                       IF s = {} THEN 0 ELSE counts[Pick(s)] + f[s \ {Pick(s)}]]
    <2>4. ASSUME NEW s \in Small(counts, m), s # {}
          PROVE  /\ s \ {Pick(s)} \in Small(counts, m - 1)
                 /\ s \ {Pick(s)} \in Small(counts, m)
                 /\ counts[Pick(s)] \in Nat
      <3>1. s \in SUBSET DOMAIN counts /\ Cardinality(s) <= m
        BY DEF Small
      <3>2. /\ Cardinality(s) \in Nat
            /\ counts[Pick(s)] \in Nat
            /\ s \ {Pick(s)} \in SUBSET DOMAIN counts
            /\ Cardinality(s \ {Pick(s)}) = Cardinality(s) - 1
        BY <2>4, <3>1, SetsOfIndices
      <3>3. Cardinality(s \ {Pick(s)}) <= m - 1 /\ Cardinality(s \ {Pick(s)}) <= m
        BY <1>2, <3>1, <3>2
      <3> QED BY <3>2, <3>3 DEF Small
    <2>5. g \in [Small(counts, m) -> Nat]
      BY <2>4
    <2>6. \A s \in Small(counts, m - 1) : g[s] = f[s]
      <3> SUFFICES ASSUME NEW s \in Small(counts, m - 1) PROVE g[s] = f[s]
        OBVIOUS
      <3>1. s \in SUBSET DOMAIN counts /\ Cardinality(s) <= m - 1
        BY DEF Small
      <3>2. Cardinality(s) \in Nat
        BY <3>1, SetsOfIndices
      <3>3. Cardinality(s) <= m
        BY <1>2, <3>1, <3>2
      <3>4. s \in Small(counts, m)
        BY <3>1, <3>3 DEF Small
      <3> QED BY <2>3, <3>4 DEF AddsUp
    <2>7. AddsUp(g, counts, Small(counts, m))
      BY <2>4, <2>6 DEF AddsUp
    <2> QED BY <1>2, <2>5, <2>7
  <1> QED BY <1>3, <1>4

\* So the fold is a solution on all sets of indices.
LEMMA SumsAddUp ==
  ASSUME NEW counts \in Seq(Nat)
  PROVE  AddsUp(Sums(counts), counts, SUBSET DOMAIN counts)
  <1> DEFINE all == SUBSET DOMAIN counts
             size == Cardinality(DOMAIN counts)
  <1>1. size \in Nat /\ \A s \in all : Cardinality(s) <= size
    BY SetsOfIndices
  <1>2. Small(counts, size) = all
    BY <1>1 DEF Small
  <1>3. PICK f \in [all -> Nat] : AddsUp(f, counts, all)
    <2>1. \E f \in [Small(counts, size) -> Nat] : AddsUp(f, counts, Small(counts, size))
      BY <1>1, SolvedUpTo
    <2> QED BY <1>2, <2>1
  <1>4. f = [s \in all |-> IF s = {} THEN 0 ELSE counts[Pick(s)] + f[s \ {Pick(s)}]]
    BY <1>3 DEF AddsUp
  <1>5. Sums(counts) = [s \in all |-> IF s = {} THEN 0
                          ELSE counts[Pick(s)] + Sums(counts)[s \ {Pick(s)}]]
    BY <1>4 DEF Sums
  <1> QED BY <1>5 DEF AddsUp

\* And its values are natural numbers.
LEMMA TotalIsNat ==
  ASSUME NEW counts \in Seq(Nat)
  PROVE  Total(counts) \in Nat
  <1> DEFINE sum == Sums(counts)
             Bad == {n \in Nat : \E s \in SUBSET DOMAIN counts :
                                   Cardinality(s) = n /\ sum[s] \notin Nat}
  <1>1. CASE Bad # {}
    <2>1. PICK m \in Bad : \A n \in Bad : m <= n
      BY <1>1, LeastNumber
    <2>2. PICK s \in SUBSET DOMAIN counts : Cardinality(s) = m /\ sum[s] \notin Nat
      BY <2>1
    <2>3. sum[s] = IF s = {} THEN 0 ELSE counts[Pick(s)] + sum[s \ {Pick(s)}]
      BY SumsAddUp DEF AddsUp
    <2>4. s # {}
      BY <2>2, <2>3
    <2>5. /\ counts[Pick(s)] \in Nat
          /\ s \ {Pick(s)} \in SUBSET DOMAIN counts
          /\ Cardinality(s \ {Pick(s)}) = m - 1
          /\ m \in Nat \ {0}
      BY <2>2, <2>4, SetsOfIndices
    <2>6. m - 1 \notin Bad
      BY <2>1, <2>5
    <2>7. sum[s \ {Pick(s)}] \in Nat
      BY <2>5, <2>6
    <2> QED BY <2>2, <2>3, <2>4, <2>5, <2>7
  <1>2. CASE Bad = {}
    <2>1. Cardinality(DOMAIN counts) \in Nat
      BY SetsOfIndices
    <2>2. sum[DOMAIN counts] \in Nat
      BY <1>2, <2>1
    <2> QED BY <2>2, TotalIsSum
  <1> QED BY <1>1, <1>2

\* A frame without command buffers has no render passes.
LEMMA TotalOfNone == Total(<< >>) = 0
  <1>1. << >> \in Seq(Nat) /\ DOMAIN << >> = {}
    OBVIOUS
  <1>2. Sums(<< >>)[{}] = 0
    BY <1>1, SumsAddUp DEF AddsUp
  <1> QED BY <1>1, <1>2, TotalIsSum

-----------------------------------------------------------------------------
(* The deques *)

Deque == Seq(Nat)

DequeTypes ==
  /\ frame \in Nat
  /\ m_frame_time \in Deque
  /\ m_cmd_time_vec \in Seq(Deque)
  /\ m_renderpass_time_vec \in Seq(Deque)
  /\ m_cmd_renderpass_count_vec \in Seq(Nat)
  /\ lastCounts \in Seq(Nat)

MetricsInv == DequeTypes /\ SameFrames /\ EveryPassAttributed

LEMMA ShapesAreSequences == \A counts \in Shapes : counts \in Seq(Nat)
  <1> SUFFICES ASSUME NEW n \in 0 .. MaxCmds, NEW counts \in [1 .. n -> 0 .. MaxPasses]
               PROVE  counts \in Seq(Nat)
    BY DEF Shapes
  <1>1. counts \in [1 .. n -> Nat] /\ n \in Nat
    BY MetricsBoundsAssumption
  <1> QED BY <1>1

\* The window that AddFrameData leaves: of the last frames, the new one
\* included.  A window that is not full grows, a full one slides.
IsWindow(deque, f) ==
  \A i \in 1 .. Len(deque) : deque[i] = f - Len(deque) + i

LEMMA WindowGrows ==
  ASSUME NEW deque \in Seq(Nat), NEW f \in Nat, IsWindow(deque, f)
  PROVE  IsWindow(Append(deque, f + 1), f + 1)
  <1> DEFINE new == Append(deque, f + 1)
  <1>1. PICK n \in Nat : n = Len(deque)
    OBVIOUS
  <1>2. Len(new) = n + 1 /\ new[n + 1] = f + 1 /\ \A i \in 1 .. n : new[i] = deque[i]
    BY <1>1
  <1>3. \A i \in 1 .. n : deque[i] = f - n + i
    BY <1>1 DEF IsWindow
  <1> HIDE DEF new
  <1>4. ASSUME NEW i \in 1 .. n + 1 PROVE new[i] = f + 1 - (n + 1) + i
    <2>1. CASE i = n + 1
      BY <1>2, <2>1
    <2>2. CASE i # n + 1
      <3>1. i \in 1 .. n
        BY <2>2
      <3>2. new[i] = f - n + i
        BY <1>2, <1>3, <3>1
      <3> QED BY <3>1, <3>2
    <2> QED BY <2>1, <2>2
  <1> QED BY <1>2, <1>4 DEF IsWindow, new

LEMMA WindowShrinks ==
  ASSUME NEW deque \in Seq(Nat), deque # << >>, NEW f \in Nat, IsWindow(deque, f)
  PROVE  Tail(deque) \in Seq(Nat) /\ Len(Tail(deque)) = Len(deque) - 1
         /\ IsWindow(Tail(deque), f)
  <1> DEFINE tail == Tail(deque)
  <1>1. PICK n \in Nat : n = Len(deque)
    OBVIOUS
  <1>2. tail \in Seq(Nat) /\ Len(tail) = n - 1 /\ n > 0
        /\ \A i \in 1 .. n - 1 : tail[i] = deque[i + 1]
    BY <1>1
  <1>3. \A i \in 1 .. n : deque[i] = f - n + i
    BY <1>1 DEF IsWindow
  <1> HIDE DEF tail
  <1>4. ASSUME NEW i \in 1 .. n - 1 PROVE tail[i] = f - (n - 1) + i
    <2>1. i + 1 \in 1 .. n
      BY <1>2
    <2>2. tail[i] = f - n + (i + 1)
      BY <1>2, <1>3, <2>1
    <2> QED BY <2>2
  <1>5. IsWindow(tail, f)
    BY <1>2, <1>4 DEF IsWindow
  <1> QED BY <1>1, <1>2, <1>5 DEF tail

LEMMA ConstantSequence ==
  ASSUME NEW n \in Nat, NEW S, NEW x \in S, NEW seq, seq = [i \in 1 .. n |-> x]
  PROVE  seq \in Seq(S) /\ Len(seq) = n /\ DOMAIN seq = 1 .. n
  <1>1. seq \in [1 .. n -> S]
    OBVIOUS
  <1> QED BY <1>1

LEMMA AddFirstFrameInv ==
  ASSUME MetricsInv, NEW counts \in Seq(Nat), frame' = frame + 1, lastCounts' = counts,
         AddFirstFrame(counts)
  PROVE  MetricsInv'
  <1> USE DEF MetricsInv, DequeTypes, Deque
  <1>1. Total(counts) \in Nat
    BY TotalIsNat
  <1>2. PICK f \in Nat : f = frame'
    OBVIOUS
  <1>3. /\ m_frame_time' = <<f>>
        /\ m_cmd_time_vec' = [i \in 1 .. Len(counts) |-> <<f>>]
        /\ m_renderpass_time_vec' = [i \in 1 .. Total(counts) |-> <<f>>]
        /\ m_cmd_renderpass_count_vec' = counts
    BY <1>2 DEF AddFirstFrame
  <1>4. <<f>> \in Seq(Nat) /\ Len(<<f>>) = 1 /\ DOMAIN <<f>> = {1}
    OBVIOUS
  <1>5. /\ m_cmd_time_vec' \in Seq(Seq(Nat)) /\ Len(m_cmd_time_vec') = Len(counts)
        /\ m_renderpass_time_vec' \in Seq(Seq(Nat)) /\ Len(m_renderpass_time_vec') = Total(counts)
    <2>1. Len(counts) \in Nat
      OBVIOUS
    <2>2. PICK p \in Nat : p = Total(counts)
      BY <1>1
    <2>3. PICK cmds, passes : cmds = [i \in 1 .. Len(counts) |-> <<f>>]
                              /\ passes = [i \in 1 .. p |-> <<f>>]
      OBVIOUS
    <2>4. cmds \in Seq(Seq(Nat)) /\ Len(cmds) = Len(counts)
      BY <1>4, <2>1, <2>3, ConstantSequence
    <2>5. passes \in Seq(Seq(Nat)) /\ Len(passes) = p
      BY <1>4, <2>3, ConstantSequence
    <2> QED BY <1>3, <2>2, <2>3, <2>4, <2>5
  <1>6. DequeTypes'
    BY <1>2, <1>3, <1>4, <1>5
  <1>7. SameFrames'
    BY <1>1, <1>2, <1>3, <1>4, LimitAssumption DEF SameFrames
  <1>8. EveryPassAttributed'
    BY <1>3, <1>5 DEF EveryPassAttributed
  <1> QED BY <1>6, <1>7, <1>8

LEMMA AddToDequesInv ==
  ASSUME MetricsInv, NEW counts \in Seq(Nat), frame' = frame + 1, lastCounts' = counts,
         AddToDeques(counts)
  PROVE  MetricsInv'
  <1> USE DEF MetricsInv, DequeTypes, Deque
  <1> DEFINE n == Len(m_cmd_time_vec)
             p == Len(m_renderpass_time_vec)
  <1>1. PICK new : new = Append(PopFront(m_frame_time), frame + 1)
    OBVIOUS
  <1>2. /\ new \in Seq(Nat)
        /\ Len(new) <= FrameMetricsLimit
        /\ \A i \in DOMAIN new : new[i] = frame + 1 - Len(new) + i
    <2>1. PICK old \in Seq(Nat), f \in Nat : old = m_frame_time /\ f = frame
      OBVIOUS
    <2>2. IsWindow(old, f) /\ Len(old) <= FrameMetricsLimit
      BY <2>1 DEF SameFrames, IsWindow
    <2>3. PICK kept \in Seq(Nat) :
            kept = PopFront(old) /\ IsWindow(kept, f) /\ Len(kept) + 1 <= FrameMetricsLimit
      <3>1. CASE Len(old) = FrameMetricsLimit
        <4>1. old # << >>
          BY <3>1, LimitAssumption
        <4>2. PopFront(old) = Tail(old)
          BY <2>1, <3>1 DEF PopFront
        <4>3. Tail(old) \in Seq(Nat) /\ Len(Tail(old)) = Len(old) - 1 /\ IsWindow(Tail(old), f)
          BY <2>2, <4>1, WindowShrinks
        <4>4. Len(Tail(old)) + 1 <= FrameMetricsLimit
          BY <3>1, <4>3, LimitAssumption
        <4> QED BY <4>2, <4>3, <4>4
      <3>2. CASE Len(old) # FrameMetricsLimit
        <4>1. PopFront(old) = old
          BY <2>1, <3>2 DEF PopFront
        <4> QED BY <2>2, <3>2, <4>1, LimitAssumption
      <3> QED BY <3>1, <3>2
    <2>4. new = Append(kept, f + 1)
      BY <1>1, <2>1, <2>3
    <2>5. IsWindow(new, f + 1) /\ new \in Seq(Nat) /\ Len(new) = Len(kept) + 1
      BY <2>3, <2>4, WindowGrows
    <2> QED BY <2>1, <2>3, <2>5 DEF IsWindow
  <1>3. m_frame_time' = new
    BY <1>1 DEF AddToDeques
  <1>4. /\ m_cmd_time_vec' = [i \in 1 .. n |-> new]
        /\ m_renderpass_time_vec' = [i \in 1 .. p |-> new]
        /\ n = Len(counts) /\ p = Total(counts)
        /\ m_cmd_renderpass_count_vec' = m_cmd_renderpass_count_vec
    <2>1. \A i \in 1 .. n : m_cmd_time_vec[i] = m_frame_time
      BY DEF SameFrames
    <2>2. \A i \in 1 .. p : m_renderpass_time_vec[i] = m_frame_time
      BY DEF SameFrames
    <2> QED BY <1>1, <2>1, <2>2 DEF AddToDeques, NewShape
  <1>5. /\ m_cmd_time_vec' \in Seq(Seq(Nat)) /\ Len(m_cmd_time_vec') = n
        /\ m_renderpass_time_vec' \in Seq(Seq(Nat)) /\ Len(m_renderpass_time_vec') = p
    BY <1>2, <1>4, ConstantSequence
  <1>6. DequeTypes'
    BY <1>2, <1>3, <1>4, <1>5
  <1>7. SameFrames'
    BY <1>2, <1>3, <1>4 DEF SameFrames
  <1>8. EveryPassAttributed'
    BY <1>4, <1>5 DEF EveryPassAttributed
  <1> QED BY <1>6, <1>7, <1>8

\* The invariant of the deques: the types, the common window and the numbers
\* of render passes.
THEOREM MetricsInvariance == MetricsSpec => []MetricsInv
  <1>1. MetricsInit => MetricsInv
    BY TotalOfNone, LimitAssumption
       DEF MetricsInit, MetricsInv, DequeTypes, Deque, SameFrames, EveryPassAttributed
  <1>2. MetricsInv /\ [MetricsNext]_metricsVars => MetricsInv'
    <2> SUFFICES ASSUME MetricsInv, [MetricsNext]_metricsVars PROVE MetricsInv'
      OBVIOUS
    <2>1. ASSUME NEW counts \in Shapes, AddFrameData(counts) PROVE MetricsInv'
      BY <2>1, ShapesAreSequences, AddFirstFrameInv, AddToDequesInv DEF AddFrameData
    <2>2. CASE UNCHANGED metricsVars
      BY <2>2 DEF metricsVars, MetricsInv, DequeTypes, SameFrames, EveryPassAttributed
    <2> QED BY <2>1, <2>2 DEF MetricsNext
  <1> QED BY <1>1, <1>2, PTL DEF MetricsSpec

\* AddFrameData keeps all deques over the same frames, the last
\* kFrameMetricsLimit of one shape at most.
THEOREM SameFramesHolds == MetricsSpec => []SameFrames
  <1>1. MetricsInv => SameFrames
    BY DEF MetricsInv
  <1> QED BY <1>1, MetricsInvariance, PTL

\* The printed statistics have the last frame's numbers of command buffers and of
\* render passes and attribute every pass to a command buffer, though not always to
\* its own, also when the passes of a frame are spread over its buffers in another
\* way than those of the frame before.
THEOREM EveryPassAttributedHolds == MetricsSpec => []EveryPassAttributed
  <1>1. MetricsInv => EveryPassAttributed
    BY DEF MetricsInv
  <1> QED BY <1>1, MetricsInvariance, PTL

=============================================================================
