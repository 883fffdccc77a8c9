-------------------------- MODULE SlotManagerProofs --------------------------
(***************************************************************************)
(* SlotManager is correct for every pool, every set of owners and every      *)
(* client: the lemmas of SlotRegistryProofs, one per locked operation,       *)
(* lifted to the specification.                                              *)
(***************************************************************************)
EXTENDS SlotManager, SlotRegistryProofs

-----------------------------------------------------------------------------
(* The specification.                                                        *)

Inv == RegistryOK(registry)

\* __init__ lists every slot as free, each once.
LEMMA InitOK == ASSUME Init PROVE Inv
<1>1. /\ SlotOrder \in Seq(Slots)
      /\ Injective(SlotOrder)
      /\ Range(SlotOrder) = Slots
  <2>1. \A i \in 1 .. SlotCount : i - 1 \in Slots
    BY SlotCountAssumption DEF Slots
  <2>2. SlotOrder \in [1 .. SlotCount -> Slots]
    BY <2>1 DEF SlotOrder
  <2>3. SlotOrder \in Seq(Slots)
    BY <2>2, SlotCountAssumption, SeqDef
  <2>4. Injective(SlotOrder)
    BY SlotCountAssumption DEF Injective, SlotOrder
  <2>5. ASSUME NEW s \in Slots PROVE s \in Range(SlotOrder)
    <3>1. s + 1 \in 1 .. SlotCount /\ (s + 1) - 1 = s
      BY SlotCountAssumption DEF Slots
    <3> QED BY <3>1 DEF Range, SlotOrder
  <2>6. Range(SlotOrder) \subseteq Slots
    BY <2>2 DEF Range
  <2> QED BY <2>3, <2>4, <2>5, <2>6
<1>2. /\ Bare(0, "free", None) \in SlotRecord
      /\ Bare(0, "free", None).state = "free"
      /\ SlotOK(Bare(0, "free", None))
  BY BareOK
<1>3. registry = [slots |-> [s \in Slots |-> Bare(0, "free", None)], free |-> SlotOrder]
  BY DEF Init, InitialRegistry
<1>4. /\ registry.slots = [s \in Slots |-> Bare(0, "free", None)]
      /\ registry.free = SlotOrder
      /\ registry \in [slots : [Slots -> SlotRecord], free : Seq(Slots)]
  BY <1>1, <1>2, <1>3
<1> QED BY <1>1, <1>2, <1>4 DEF Inv, RegistryOK, WellFormed, ListExact

\* No method of the slot manager breaks the registry, whoever calls it.
LEMMA NextOK == ASSUME Inv, [Next]_registry PROVE Inv'
<1> USE DEF Inv
<1>1. ASSUME NEW w \in Writers, AllocateForGrab(w) PROVE Inv'
  BY <1>1, AllocatedOK DEF AllocateForGrab
<1>2. ASSUME NEW w \in Writers, OverwriteOldestFilled(w) PROVE Inv'
  BY <1>2, OverwrittenOK DEF OverwriteOldestFilled
<1>3. ASSUME NEW s \in Slots, NEW g, NEW w \in Writers, NEW c \in Captures,
             MarkFilled(s, g, w, c)
      PROVE  Inv'
  BY <1>3, FilledOK DEF MarkFilled
<1>4. ASSUME NEW s \in Slots, NEW g, MarkDuplicateAndRelease(s, g) PROVE Inv'
  BY <1>4, ReleasedOK DEF MarkDuplicateAndRelease
<1>5. ASSUME NEW s \in Slots, NEW g, NEW k \in Workers, AssignDecode(s, g, k)
      PROVE  Inv'
  BY <1>5, AssignedOK DEF AssignDecode
<1>6. ASSUME NEW s \in Slots, NEW g, NEW k \in Workers, CompleteDecode(s, g, k)
      PROVE  Inv'
  BY <1>6, CompletedOK DEF CompleteDecode
<1>7. ASSUME NEW s \in Slots, NEW g, SetDumpReader(s, g) PROVE Inv'
  BY <1>7, DumpStartedOK DEF SetDumpReader
<1>8. ASSUME NEW s \in Slots, NEW g, ClearDumpReader(s, g) PROVE Inv'
  BY <1>8, DumpClearedOK DEF ClearDumpReader
<1>9. ASSUME NEW w \in Writers, ReclaimWriterOwner(w) PROVE Inv'
  <2>1. /\ OwnedByWriter(registry, w) \in SUBSET Slots
        /\ \A s \in OwnedByWriter(registry, w) : registry.slots[s].state # "free"
    BY NoneAssumption DEF OwnedByWriter, RegistryOK, SlotOK, SlotOwnersMatch
  <2> QED BY <1>9, <2>1, AllReclaimedOK DEF ReclaimWriterOwner
<1>10. ASSUME NEW k \in Workers, ReclaimDecodeOwner(k) PROVE Inv'
  <2>1. /\ OwnedByDecoder(registry, k) \in SUBSET Slots
        /\ \A s \in OwnedByDecoder(registry, k) : registry.slots[s].state # "free"
    BY NoneAssumption DEF OwnedByDecoder, RegistryOK, SlotOK, SlotOwnersMatch
  <2> QED BY <1>10, <2>1, AllReclaimedOK DEF ReclaimDecodeOwner
<1>11. ASSUME ReclaimDumpReader PROVE Inv'
  BY <1>11, DumpsReclaimedOK DEF ReclaimDumpReader
<1>12. CASE UNCHANGED registry
  BY <1>12
<1> QED
  BY <1>1, <1>2, <1>3, <1>4, <1>5, <1>6, <1>7, <1>8, <1>9, <1>10, <1>11, <1>12
  DEF Next

\* The four invariants are the inductive one, read off the variable.
LEMMA InvImplies ==
  Inv => TypeOK /\ FreeListExact /\ OwnersMatchState /\ NoOrphanInDecode
BY DEF Inv, RegistryOK, WellFormed, ListExact, Injective, SlotOK,
       SlotOwnersMatch, SlotNotOrphaned, TypeOK, FreeListExact,
       OwnersMatchState, NoOrphanInDecode

\* Whatever calls its clients make, the registry keeps its shape.
THEOREM TypeCorrect == Spec => []TypeOK
<1>1. Init => Inv
  BY InitOK
<1>2. Inv /\ [Next]_registry => Inv'
  BY NextOK
<1> QED BY <1>1, <1>2, InvImplies, PTL DEF Spec

\* For every pool, the free list holds exactly the free slots, each once.
THEOREM FreeListIsExact == Spec => []FreeListExact
<1>1. Init => Inv
  BY InitOK
<1>2. Inv /\ [Next]_registry => Inv'
  BY NextOK
<1> QED BY <1>1, <1>2, InvImplies, PTL DEF Spec

\* For every set of owners, the owners a slot records agree with its state.
THEOREM OwnersAgree == Spec => []OwnersMatchState
<1>1. Init => Inv
  BY InitOK
<1>2. Inv /\ [Next]_registry => Inv'
  BY NextOK
<1> QED BY <1>1, <1>2, InvImplies, PTL DEF Spec

\* No interleaving of decode completions, dumps and reclaims orphans a slot.
THEOREM NoOrphans == Spec => []NoOrphanInDecode
<1>1. Init => Inv
  BY InitOK
<1>2. Inv /\ [Next]_registry => Inv'
  BY NextOK
<1> QED BY <1>1, <1>2, InvImplies, PTL DEF Spec

\* For every client, a slot's life within a generation only goes forward: no
\* stale descriptor can revive a released frame.
THEOREM GenerationsLiveOnce == Spec => GenerationLivesOnce
<1> DEFINE Step == AllLater(registry, registry')
<1>1. Inv /\ [Next]_registry => Inv'
  BY NextOK
<1>2. ASSUME Inv, Next PROVE Step
  <2> USE DEF Inv
  <2>0. WellFormed(registry) /\ RegistryOK(registry)
    BY <1>2 DEF RegistryOK
  <2>a. ASSUME NEW s \in Slots
        PROVE  registry.slots[s] \in SlotRecord
    BY <2>0 DEF WellFormed
  <2>1. ASSUME NEW w \in Writers, AllocateForGrab(w) PROVE Step
    BY <2>0, <2>1, LaterAllocated DEF AllocateForGrab
  <2>2. ASSUME NEW w \in Writers, OverwriteOldestFilled(w) PROVE Step
    <3>1. PICK s \in Slots : registry' = Overwritten(registry, s, w)
      BY <2>2 DEF OverwriteOldestFilled
    <3> DEFINE mid == Reclaimed(registry, s)
    <3>2. RegistryOK(mid) /\ mid.free # << >> /\ WellFormed(mid)
      BY <2>0, ReclaimedOK DEF RegistryOK
    <3>3. AllLater(registry, mid)
      BY <2>0, <2>a, LaterBare, LaterOne DEF Reclaimed
    <3>4. registry' = Allocated(mid, w)
      BY <3>1 DEF Overwritten
    <3> HIDE DEF mid
    <3>5. AllLater(mid, registry') /\ RegistryOK(registry')
      BY <3>2, <3>4, LaterAllocated, AllocatedOK
    <3>6. ASSUME NEW t \in Slots
          PROVE  Later(registry.slots[t], registry'.slots[t])
      <4> DEFINE a == registry.slots[t]
                 b == mid.slots[t]
                 c == registry'.slots[t]
      <4>1. a \in SlotRecord /\ b \in SlotRecord /\ c \in SlotRecord
        BY <2>0, <3>2, <3>5 DEF RegistryOK, WellFormed
      <4>2. Later(a, b) /\ Later(b, c)
        BY <3>3, <3>5 DEF AllLater
      <4> HIDE DEF a, b, c
      <4>3. /\ a.generation \in Nat /\ b.generation \in Nat /\ c.generation \in Nat
            /\ Rank(a.state) \in 0 .. 3 /\ Rank(b.state) \in 0 .. 3
            /\ Rank(c.state) \in 0 .. 3
        BY <4>1, RankOrder DEF SlotRecord
      <4>4. Later(a, c)
        BY <4>2, <4>3 DEF Later
      <4> QED BY <4>4 DEF a, c
    <3> QED BY <3>6 DEF AllLater
  <2>3. ASSUME NEW s \in Slots, NEW g, NEW w \in Writers, NEW c \in Captures,
               MarkFilled(s, g, w, c)
        PROVE  Step
    <3> DEFINE old == registry.slots[s]
               slot == [old EXCEPT !.state = "filled", !.writer = None, !.capture = c]
    <3>1. old \in SlotRecord /\ old.state = "filling"
      BY <2>a, <2>3 DEF MarkFilled, MayFill
    <3>2. /\ slot \in SlotRecord
          /\ slot.generation = old.generation
          /\ slot.state = "filled"
      BY <3>1 DEF SlotRecord, SlotState
    <3>3. registry' = WithSlot(registry, s, slot)
      BY <2>3 DEF MarkFilled, Filled
    <3> HIDE DEF slot
    <3>4. Rank(slot.state) >= Rank(old.state)
      BY <3>1, <3>2, RankOrder
    <3> QED BY <2>0, <3>2, <3>3, <3>4, LaterWithSlot
  <2>4. ASSUME NEW s \in Slots, NEW g, MarkDuplicateAndRelease(s, g) PROVE Step
    BY <2>0, <2>4, LaterReleased DEF MarkDuplicateAndRelease
  <2>5. ASSUME NEW s \in Slots, NEW g, NEW k \in Workers, AssignDecode(s, g, k)
        PROVE  Step
    <3> DEFINE old == registry.slots[s]
               slot == [old EXCEPT !.state = "in_decode", !.decoder = k]
    <3>1. old \in SlotRecord /\ old.state = "filled"
      BY <2>a, <2>5 DEF AssignDecode, MayAssign
    <3>2. /\ slot \in SlotRecord
          /\ slot.generation = old.generation
          /\ slot.state = "in_decode"
      BY <3>1 DEF SlotRecord, SlotState
    <3>3. registry' = WithSlot(registry, s, slot)
      BY <2>5 DEF AssignDecode, Assigned
    <3> HIDE DEF slot
    <3>4. Rank(slot.state) >= Rank(old.state)
      BY <3>1, <3>2, RankOrder
    <3> QED BY <2>0, <3>2, <3>3, <3>4, LaterWithSlot
  <2>6. ASSUME NEW s \in Slots, NEW g, NEW k \in Workers, CompleteDecode(s, g, k)
        PROVE  Step
    <3> DEFINE old == registry.slots[s]
               slot == [old EXCEPT !.decoder = None]
    <3>1. /\ slot \in SlotRecord
          /\ slot.generation = old.generation
          /\ slot.state = old.state
      BY <2>a DEF SlotRecord
    <3>2. Rank(slot.state) >= Rank(old.state)
      BY <2>a, <3>1, RankOrder DEF SlotRecord
    <3>3. registry' = Released(registry, s) \/ registry' = WithSlot(registry, s, slot)
      BY <2>6 DEF CompleteDecode, Completed
    <3> HIDE DEF slot
    <3> QED BY <2>0, <3>1, <3>2, <3>3, LaterReleased, LaterWithSlot
  <2>7. ASSUME NEW s \in Slots, NEW g,
               SetDumpReader(s, g) \/ ClearDumpReader(s, g)
        PROVE  Step
    <3> DEFINE old == registry.slots[s]
    <3>1. PICK ref \in {0, 1} :
            \/ registry' = Released(registry, s)
            \/ registry' = WithSlot(registry, s, [old EXCEPT !.dumpRef = ref])
      BY <2>7 DEF SetDumpReader, DumpStarted, ClearDumpReader, DumpCleared
    <3> DEFINE slot == [old EXCEPT !.dumpRef = ref]
    <3>2. /\ slot \in SlotRecord
          /\ slot.generation = old.generation
          /\ slot.state = old.state
      BY <2>a DEF SlotRecord
    <3>3. Rank(slot.state) >= Rank(old.state)
      BY <2>a, <3>2, RankOrder DEF SlotRecord
    <3>4. registry' = Released(registry, s) \/ registry' = WithSlot(registry, s, slot)
      BY <3>1
    <3> HIDE DEF slot
    <3> QED BY <2>0, <3>2, <3>3, <3>4, LaterReleased, LaterWithSlot
  <2>8. ASSUME NEW w \in Writers, ReclaimWriterOwner(w) PROVE Step
    BY <2>0, <2>8, LaterAllReclaimed DEF ReclaimWriterOwner
  <2>9. ASSUME NEW k \in Workers, ReclaimDecodeOwner(k) PROVE Step
    BY <2>0, <2>9, LaterAllReclaimed DEF ReclaimDecodeOwner
  <2>10. ASSUME ReclaimDumpReader PROVE Step
    BY <2>0, <2>10, LaterDumpsReclaimed DEF ReclaimDumpReader
  <2> HIDE DEF Step
  <2> QED
    BY <1>2, <2>1, <2>2, <2>3, <2>4, <2>5, <2>6, <2>7, <2>8, <2>9, <2>10 DEF Next
<1>3. Init => Inv
  BY InitOK
<1>4. Step => \A s \in Slots : LET old == registry.slots[s]
                                   new == registry'.slots[s]
                               IN  \/ new.generation > old.generation
                                   \/ /\ new.generation = old.generation
                                      /\ Rank(new.state) >= Rank(old.state)
  BY DEF AllLater, Later
<1> QED BY <1>1, <1>2, <1>3, <1>4, PTL DEF Spec, GenerationLivesOnce

=============================================================================
