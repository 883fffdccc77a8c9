------------------------- MODULE SlotRegistryProofs -------------------------
(***************************************************************************)
(* What the locked operations do to a registry, for every pool and every set *)
(* of owners: each keeps the invariant RegistryOK, and each moves every slot *)
(* only onward in its life.  SlotManagerProofs lifts these lemmas to the     *)
(* registry under an arbitrary client, LiveRuntimeProofs to the pipeline.    *)
(***************************************************************************)
EXTENDS SlotRegistry, SequenceTheorems, FiniteSetTheorems, TLAPS

-----------------------------------------------------------------------------
(* The four invariants as predicates on a registry value.                    *)

WellFormed(r) == r \in [slots : [Slots -> SlotRecord], free : Seq(Slots)]

Injective(q) == \A i, j \in DOMAIN q : q[i] = q[j] => i = j

ListExact(r) ==
  /\ \A s \in Slots : r.slots[s].state = "free" <=> s \in Range(r.free)
  /\ Injective(r.free)

SlotOwnersMatch(slot) ==
  /\ slot.writer # None <=> slot.state = "filling"
  /\ slot.decoder # None => slot.state = "in_decode"
  /\ slot.capture # None <=> slot.state \in {"filled", "in_decode"}

SlotNotOrphaned(slot) ==
  slot.state = "in_decode" => slot.decoder # None \/ slot.dumpRef = 1

SlotOK(slot) == SlotOwnersMatch(slot) /\ SlotNotOrphaned(slot)

RegistryOK(r) ==
  /\ WellFormed(r)
  /\ ListExact(r)
  /\ \A s \in Slots : SlotOK(r.slots[s])

-----------------------------------------------------------------------------
(* Sequences without repetition.                                             *)

\* Appending a new element keeps a list free of repetitions and adds just it.
LEMMA AppendInjectiveList ==
  ASSUME NEW S, NEW q \in Seq(S), NEW e \in S, Injective(q), e \notin Range(q)
  PROVE  /\ Append(q, e) \in Seq(S)
         /\ Injective(Append(q, e))
         /\ Range(Append(q, e)) = Range(q) \cup {e}
<1>1. /\ Append(q, e) \in Seq(S)
      /\ Len(Append(q, e)) = Len(q) + 1
      /\ \A i \in 1 .. Len(q) : Append(q, e)[i] = q[i]
      /\ Append(q, e)[Len(q) + 1] = e
  BY AppendProperties
<1>2. /\ DOMAIN q = 1 .. Len(q)
      /\ DOMAIN Append(q, e) = 1 .. Len(q) + 1
      /\ Len(q) \in Nat
  BY <1>1, LenProperties
<1>3. Injective(Append(q, e))
  BY <1>1, <1>2 DEF Injective, Range
<1>4. Range(Append(q, e)) = Range(q) \cup {e}
  BY <1>1, <1>2 DEF Range
<1> QED BY <1>1, <1>3, <1>4

\* The head of a repetition-free list is in it, and the tail is all the rest.
LEMMA TailInjectiveList ==
  ASSUME NEW S, NEW q \in Seq(S), q # << >>, Injective(q)
  PROVE  /\ Head(q) \in S
         /\ Head(q) \in Range(q)
         /\ Tail(q) \in Seq(S)
         /\ Injective(Tail(q))
         /\ Range(Tail(q)) = Range(q) \ {Head(q)}
<1>1. /\ Head(q) \in S
      /\ Tail(q) \in Seq(S)
      /\ Len(Tail(q)) = Len(q) - 1
      /\ \A i \in 1 .. Len(Tail(q)) : Tail(q)[i] = q[i + 1]
  BY HeadTailProperties
<1>2. /\ DOMAIN q = 1 .. Len(q)
      /\ DOMAIN Tail(q) = 1 .. Len(q) - 1
      /\ Len(q) \in Nat \ {0}
  BY <1>1, LenProperties, EmptySeq
<1>3. Head(q) = q[1]
  OBVIOUS
<1>4. Injective(Tail(q))
  BY <1>1, <1>2 DEF Injective
<1>5. Head(q) \in Range(q)
  BY <1>2, <1>3 DEF Range
<1>6. Range(Tail(q)) = Range(q) \ {Head(q)}
  <2>1. ASSUME NEW x \in Range(Tail(q)) PROVE x \in Range(q) \ {Head(q)}
    <3>1. PICK i \in 1 .. Len(q) - 1 : x = Tail(q)[i]
      BY <1>2 DEF Range
    <3>2. x = q[i + 1] /\ i + 1 \in 1 .. Len(q) /\ i + 1 # 1
      BY <3>1, <1>1, <1>2
    <3> QED BY <3>2, <1>2, <1>3 DEF Range, Injective
  <2>2. ASSUME NEW x \in Range(q), x # Head(q) PROVE x \in Range(Tail(q))
    <3>1. PICK i \in 1 .. Len(q) : x = q[i]
      BY <1>2 DEF Range
    <3>2. i # 1
      BY <2>2, <3>1, <1>3
    <3>3. i - 1 \in 1 .. Len(q) - 1 /\ Tail(q)[i - 1] = q[i]
      BY <3>2, <1>1, <1>2
    <3> QED BY <3>1, <3>3, <1>2 DEF Range
  <2> QED BY <2>1, <2>2
<1> QED BY <1>1, <1>4, <1>5, <1>6

\* Two repetition-free lists without a common element concatenate to one.
LEMMA ConcatInjectiveList ==
  ASSUME NEW S, NEW p \in Seq(S), NEW q \in Seq(S), Injective(p), Injective(q),
         Range(p) \cap Range(q) = {}
  PROVE  /\ p \o q \in Seq(S)
         /\ Injective(p \o q)
         /\ Range(p \o q) = Range(p) \cup Range(q)
<1>1. /\ p \o q \in Seq(S)
      /\ Len(p \o q) = Len(p) + Len(q)
      /\ \A i \in 1 .. Len(p) + Len(q) :
           (p \o q)[i] = IF i <= Len(p) THEN p[i] ELSE q[i - Len(p)]
  BY ConcatProperties
<1>2. /\ DOMAIN p = 1 .. Len(p)
      /\ DOMAIN q = 1 .. Len(q)
      /\ DOMAIN (p \o q) = 1 .. Len(p) + Len(q)
      /\ Len(p) \in Nat
      /\ Len(q) \in Nat
  BY <1>1, LenProperties
<1>3. Injective(p \o q)
  <2> SUFFICES ASSUME NEW i \in 1 .. Len(p) + Len(q), NEW j \in 1 .. Len(p) + Len(q),
                      (p \o q)[i] = (p \o q)[j]
               PROVE  i = j
    BY <1>2 DEF Injective
  <2>1. CASE i <= Len(p) /\ j <= Len(p)
    BY <2>1, <1>1, <1>2 DEF Injective
  <2>2. CASE i > Len(p) /\ j > Len(p)
    <3>1. q[i - Len(p)] = q[j - Len(p)]
      BY <2>2, <1>1, <1>2
    <3>2. i - Len(p) \in DOMAIN q /\ j - Len(p) \in DOMAIN q
      BY <2>2, <1>2
    <3>3. i - Len(p) = j - Len(p)
      BY <3>1, <3>2 DEF Injective
    <3> QED BY <3>3, <1>2
  <2>3. CASE i <= Len(p) /\ j > Len(p)
    <3>1. p[i] = q[j - Len(p)] /\ i \in DOMAIN p /\ j - Len(p) \in DOMAIN q
      BY <2>3, <1>1, <1>2
    <3> QED BY <3>1 DEF Range
  <2>4. CASE i > Len(p) /\ j <= Len(p)
    <3>1. p[j] = q[i - Len(p)] /\ j \in DOMAIN p /\ i - Len(p) \in DOMAIN q
      BY <2>4, <1>1, <1>2
    <3> QED BY <3>1 DEF Range
  <2> QED BY <2>1, <2>2, <2>3, <2>4, <1>2
<1>4. Range(p \o q) = Range(p) \cup Range(q)
  <2>1. ASSUME NEW x \in Range(p \o q) PROVE x \in Range(p) \cup Range(q)
    <3>1. PICK i \in 1 .. Len(p) + Len(q) : x = (p \o q)[i]
      BY <1>2 DEF Range
    <3>2. CASE i <= Len(p)
      BY <3>1, <3>2, <1>1, <1>2 DEF Range
    <3>3. CASE i > Len(p)
      <4>1. x = q[i - Len(p)] /\ i - Len(p) \in DOMAIN q
        BY <3>1, <3>3, <1>1, <1>2
      <4> QED BY <4>1 DEF Range
    <3> QED BY <3>2, <3>3, <1>2
  <2>2. ASSUME NEW x \in Range(p) PROVE x \in Range(p \o q)
    <3>1. PICK i \in 1 .. Len(p) : x = p[i]
      BY <1>2 DEF Range
    <3>2. x = (p \o q)[i] /\ i \in 1 .. Len(p) + Len(q)
      BY <3>1, <1>1, <1>2
    <3> QED BY <3>2, <1>2 DEF Range
  <2>3. ASSUME NEW x \in Range(q) PROVE x \in Range(p \o q)
    <3>1. PICK i \in 1 .. Len(q) : x = q[i]
      BY <1>2 DEF Range
    <3>2. i + Len(p) \in 1 .. Len(p) + Len(q) /\ ~(i + Len(p) <= Len(p))
      BY <3>1, <1>2
    <3>3. (p \o q)[i + Len(p)] = q[(i + Len(p)) - Len(p)]
      BY <3>2, <1>1
    <3>4. (i + Len(p)) - Len(p) = i
      BY <1>2
    <3> QED BY <3>1, <3>2, <3>3, <3>4, <1>2 DEF Range
  <2> QED BY <2>1, <2>2, <2>3
<1> QED BY <1>1, <1>3, <1>4

-----------------------------------------------------------------------------
(* Slots and lists of a well-formed registry.                                *)

\* Giving a slot back puts it in the list exactly once, wherever it was before.
LEMMA ReturnedExact ==
  ASSUME NEW q \in Seq(Slots), NEW s \in Slots, Injective(q)
  PROVE  /\ Returned(q, s) \in Seq(Slots)
         /\ Injective(Returned(q, s))
         /\ Range(Returned(q, s)) = Range(q) \cup {s}
<1>1. CASE s \in Range(q)
  BY <1>1 DEF Returned
<1>2. CASE s \notin Range(q)
  BY <1>2, AppendInjectiveList DEF Returned
<1> QED BY <1>1, <1>2

\* A bare slot is in order when it is free, or filling with a writer.
LEMMA BareOK ==
  ASSUME NEW g \in Nat, NEW state \in {"free", "filling"},
         NEW w \in Writers \cup {None}, w # None <=> state = "filling"
  PROVE  /\ Bare(g, state, w) \in SlotRecord
         /\ Bare(g, state, w).state = state
         /\ Bare(g, state, w).generation = g
         /\ SlotOK(Bare(g, state, w))
BY DEF Bare, SlotRecord, SlotState, SlotOK, SlotOwnersMatch, SlotNotOrphaned

\* A slot that leaves the free list or joins it together with its state.
LEMMA ReplacedOK ==
  ASSUME NEW r, RegistryOK(r), NEW s \in Slots, NEW slot \in SlotRecord, NEW q,
         q \in Seq(Slots), Injective(q), SlotOK(slot),
         \/ slot.state = "free" /\ Range(q) = Range(r.free) \cup {s}
         \/ slot.state # "free" /\ Range(q) = Range(r.free) \ {s}
  PROVE  RegistryOK([slots |-> [r.slots EXCEPT ![s] = slot], free |-> q])
<1> USE DEF RegistryOK, WellFormed, ListExact
<1> DEFINE new == [slots |-> [r.slots EXCEPT ![s] = slot], free |-> q]
<1>1. /\ r.slots \in [Slots -> SlotRecord]
      /\ r.free \in Seq(Slots)
  OBVIOUS
<1>2. /\ new.slots = [r.slots EXCEPT ![s] = slot]
      /\ new.free = q
      /\ new \in [slots : [Slots -> SlotRecord], free : Seq(Slots)]
  BY <1>1
<1>3. /\ \A t \in Slots : new.slots[t] = IF t = s THEN slot ELSE r.slots[t]
      /\ Injective(new.free)
  BY <1>1, <1>2
<1> HIDE DEF new
<1>4. ListExact(new)
  BY <1>1, <1>2, <1>3
<1>5. \A t \in Slots : SlotOK(new.slots[t])
  BY <1>1, <1>3
<1>6. RegistryOK(new)
  BY <1>2, <1>4, <1>5
<1> QED BY <1>6 DEF new

\* _release_locked puts a slot back once, free and bare.
LEMMA ReleasedOK ==
  ASSUME NEW r, RegistryOK(r), NEW s \in Slots
  PROVE  RegistryOK(Released(r, s))
<1>1. /\ r.slots[s] \in SlotRecord
      /\ r.slots[s].generation \in Nat
      /\ r.free \in Seq(Slots)
      /\ Injective(r.free)
  BY DEF RegistryOK, WellFormed, ListExact, SlotRecord
<1>2. /\ Vacated(r.slots[s]) \in SlotRecord
      /\ Vacated(r.slots[s]).state = "free"
      /\ SlotOK(Vacated(r.slots[s]))
  BY <1>1, BareOK DEF Vacated
<1>3. /\ Returned(r.free, s) \in Seq(Slots)
      /\ Injective(Returned(r.free, s))
      /\ Range(Returned(r.free, s)) = Range(r.free) \cup {s}
  BY <1>1, ReturnedExact
<1> QED BY <1>2, <1>3, ReplacedOK DEF Released

\* _force_reclaim_locked frees a slot from any state, so the list has one to give.
LEMMA ReclaimedOK ==
  ASSUME NEW r, RegistryOK(r), NEW s \in Slots
  PROVE  /\ RegistryOK(Reclaimed(r, s))
         /\ Reclaimed(r, s).free # << >>
<1>1. /\ r.slots[s] \in SlotRecord
      /\ r.slots[s].generation \in Nat
      /\ r.free \in Seq(Slots)
      /\ Injective(r.free)
  BY DEF RegistryOK, WellFormed, ListExact, SlotRecord
<1>2. /\ Expelled(r.slots[s]) \in SlotRecord
      /\ Expelled(r.slots[s]).state = "free"
      /\ SlotOK(Expelled(r.slots[s]))
  <2>1. r.slots[s].generation + 1 \in Nat
    BY <1>1
  <2> QED BY <2>1, BareOK DEF Expelled
<1>3. /\ Returned(r.free, s) \in Seq(Slots)
      /\ Injective(Returned(r.free, s))
      /\ Range(Returned(r.free, s)) = Range(r.free) \cup {s}
  BY <1>1, ReturnedExact
<1>4. Returned(r.free, s) # << >>
  <2> SUFFICES ASSUME Returned(r.free, s) = << >> PROVE FALSE
    OBVIOUS
  <2>1. Range(<< >>) = {}
    BY EmptySeq DEF Range
  <2> QED BY <2>1, <1>3
<1>5. Reclaimed(r, s).free = Returned(r.free, s)
  BY DEF Reclaimed
<1> QED BY <1>2, <1>3, <1>4, <1>5, ReplacedOK DEF Reclaimed

\* What an allocation hands out: the head of the free list, a fresh generation,
\* no owner but the writer.
LEMMA AllocatedOK ==
  ASSUME NEW r, RegistryOK(r), r.free # << >>, NEW w \in Writers
  PROVE  /\ Head(r.free) \in Slots
         /\ r.slots[Head(r.free)].state = "free"
         /\ RegistryOK(Allocated(r, w))
<1> DEFINE s == Head(r.free)
           g == r.slots[s].generation + 1
<1>1. /\ r.slots \in [Slots -> SlotRecord]
      /\ r.free \in Seq(Slots)
      /\ Injective(r.free)
  BY DEF RegistryOK, WellFormed, ListExact
<1>2. /\ s \in Slots
      /\ s \in Range(r.free)
      /\ Tail(r.free) \in Seq(Slots)
      /\ Injective(Tail(r.free))
      /\ Range(Tail(r.free)) = Range(r.free) \ {s}
  BY <1>1, TailInjectiveList
<1>3. r.slots[s].state = "free"
  BY <1>2 DEF RegistryOK, ListExact
<1>4. g \in Nat
  BY <1>1, <1>2 DEF SlotRecord
<1>5. w # None
  BY NoneAssumption
<1>6. /\ Bare(g, "filling", w) \in SlotRecord
      /\ Bare(g, "filling", w).state # "free"
      /\ SlotOK(Bare(g, "filling", w))
  <2> HIDE DEF g
  <2> QED BY <1>4, <1>5, BareOK
<1>7. Allocated(r, w) =
        [slots |-> [r.slots EXCEPT ![s] = Bare(g, "filling", w)],
         free |-> Tail(r.free)]
  BY DEF Allocated
<1> HIDE DEF s, g
<1>8. RegistryOK(Allocated(r, w))
  BY <1>2, <1>6, <1>7, ReplacedOK
<1> QED BY <1>2, <1>3, <1>8 DEF s

\* overwrite_oldest_filled reclaims a frame and allocates its slot again.
LEMMA OverwrittenOK ==
  ASSUME NEW r, RegistryOK(r), NEW s \in Slots, NEW w \in Writers
  PROVE  RegistryOK(Overwritten(r, s, w))
BY ReclaimedOK, AllocatedOK DEF Overwritten

\* A slot that is in use before and after leaves the list alone.
LEMMA WithSlotOK ==
  ASSUME NEW r, RegistryOK(r), NEW s \in Slots, NEW slot \in SlotRecord,
         slot.state # "free", r.slots[s].state # "free", SlotOK(slot)
  PROVE  RegistryOK(WithSlot(r, s, slot))
<1>1. /\ r.free \in Seq(Slots)
      /\ Injective(r.free)
      /\ s \notin Range(r.free)
  BY DEF RegistryOK, WellFormed, ListExact
<1> QED BY <1>1, ReplacedOK DEF WithSlot

\* A slot whose state does not change leaves the list alone too.
LEMMA SameStateOK ==
  ASSUME NEW r, RegistryOK(r), NEW s \in Slots, NEW slot \in SlotRecord,
         slot.state = r.slots[s].state, SlotOK(slot)
  PROVE  RegistryOK(WithSlot(r, s, slot))
<1>1. /\ r.free \in Seq(Slots)
      /\ Injective(r.free)
      /\ r.slots[s].state = "free" <=> s \in Range(r.free)
  BY DEF RegistryOK, WellFormed, ListExact
<1> QED BY <1>1, ReplacedOK DEF WithSlot

\* mark_filled drops the writer and names the capture.
LEMMA FilledOK ==
  ASSUME NEW r, RegistryOK(r), NEW s \in Slots, NEW g, NEW w \in Writers,
         NEW c \in Captures, MayFill(r, s, g, w)
  PROVE  RegistryOK(Filled(r, s, c))
<1> DEFINE slot == [r.slots[s] EXCEPT !.state = "filled", !.writer = None,
                                      !.capture = c]
<1>1. r.slots[s] \in SlotRecord /\ SlotOK(r.slots[s]) /\ r.slots[s].state = "filling"
  BY DEF RegistryOK, WellFormed, MayFill
<1>2. slot \in SlotRecord /\ slot.state = "filled" /\ SlotOK(slot)
  BY <1>1, NoneAssumption
     DEF SlotRecord, SlotState, SlotOK, SlotOwnersMatch, SlotNotOrphaned
<1> HIDE DEF slot
<1>3. RegistryOK(WithSlot(r, s, slot))
  BY <1>1, <1>2, WithSlotOK
<1> QED BY <1>3 DEF Filled, slot

\* assign_decode gives a filled slot its one decoder.
LEMMA AssignedOK ==
  ASSUME NEW r, RegistryOK(r), NEW s \in Slots, NEW g, NEW k \in Workers,
         MayAssign(r, s, g)
  PROVE  RegistryOK(Assigned(r, s, k))
<1> DEFINE slot == [r.slots[s] EXCEPT !.state = "in_decode", !.decoder = k]
<1>1. r.slots[s] \in SlotRecord /\ SlotOK(r.slots[s]) /\ r.slots[s].state = "filled"
  BY DEF RegistryOK, WellFormed, MayAssign
<1>2. slot \in SlotRecord /\ slot.state = "in_decode" /\ SlotOK(slot)
  BY <1>1, NoneAssumption
     DEF SlotRecord, SlotState, SlotOK, SlotOwnersMatch, SlotNotOrphaned
<1> HIDE DEF slot
<1>3. RegistryOK(WithSlot(r, s, slot))
  BY <1>1, <1>2, WithSlotOK
<1> QED BY <1>3 DEF Assigned, slot

\* complete_decode frees the slot, or leaves it to the dump reader it has.
LEMMA CompletedOK ==
  ASSUME NEW r, RegistryOK(r), NEW s \in Slots
  PROVE  RegistryOK(Completed(r, s))
<1>1. CASE r.slots[s].dumpRef = 0
  BY <1>1, ReleasedOK DEF Completed
<1>2. CASE r.slots[s].dumpRef # 0
  <2> DEFINE slot == [r.slots[s] EXCEPT !.decoder = None]
  <2>1. r.slots[s] \in SlotRecord /\ SlotOK(r.slots[s])
    BY DEF RegistryOK, WellFormed
  <2>2. slot \in SlotRecord /\ slot.state = r.slots[s].state /\ SlotOK(slot)
    BY <1>2, <2>1 DEF SlotRecord, SlotState, SlotOK, SlotOwnersMatch, SlotNotOrphaned
  <2> HIDE DEF slot
  <2>3. RegistryOK(WithSlot(r, s, slot))
    BY <2>2, SameStateOK
  <2> QED BY <1>2, <2>3 DEF Completed, slot
<1> QED BY <1>1, <1>2

\* set_dump_reader adds a reader and changes nothing else.
LEMMA DumpStartedOK ==
  ASSUME NEW r, RegistryOK(r), NEW s \in Slots
  PROVE  RegistryOK(DumpStarted(r, s))
<1> DEFINE slot == [r.slots[s] EXCEPT !.dumpRef = 1]
<1>1. r.slots[s] \in SlotRecord /\ SlotOK(r.slots[s])
  BY DEF RegistryOK, WellFormed
<1>2. slot \in SlotRecord /\ slot.state = r.slots[s].state /\ SlotOK(slot)
  BY <1>1 DEF SlotRecord, SlotState, SlotOK, SlotOwnersMatch, SlotNotOrphaned
<1> HIDE DEF slot
<1>3. RegistryOK(WithSlot(r, s, slot))
  BY <1>2, SameStateOK
<1> QED BY <1>3 DEF DumpStarted, slot

\* clear_dump_reader frees a slot nobody decodes any more, and only such a one.
LEMMA DumpClearedOK ==
  ASSUME NEW r, RegistryOK(r), NEW s \in Slots
  PROVE  RegistryOK(DumpCleared(r, s))
<1>1. CASE r.slots[s].decoder = None
  BY <1>1, ReleasedOK DEF DumpCleared
<1>2. CASE r.slots[s].decoder # None
  <2> DEFINE slot == [r.slots[s] EXCEPT !.dumpRef = 0]
  <2>1. r.slots[s] \in SlotRecord /\ SlotOK(r.slots[s])
    BY DEF RegistryOK, WellFormed
  <2>2. slot \in SlotRecord /\ slot.state = r.slots[s].state /\ SlotOK(slot)
    BY <1>2, <2>1 DEF SlotRecord, SlotState, SlotOK, SlotOwnersMatch, SlotNotOrphaned
  <2> HIDE DEF slot
  <2>3. RegistryOK(WithSlot(r, s, slot))
    BY <2>2, SameStateOK
  <2> QED BY <1>2, <2>3 DEF DumpCleared, slot
<1> QED BY <1>1, <1>2

\* The slots of S lined up in list order are a repetition-free list of them.
LEMMA ListOrdersInjective ==
  ASSUME NEW S \in SUBSET Slots, NEW q \in ListOrders(S)
  PROVE  q \in Seq(Slots) /\ Injective(q) /\ Range(q) = S
<1>1. IsFiniteSet(Slots)
  BY SlotCountAssumption, FS_Interval DEF Slots
<1>2. Cardinality(S) \in Nat
  BY <1>1, FS_Subset, FS_CardinalityType
<1> DEFINE n == Cardinality(S)
<1>3. /\ q \in [1 .. n -> S]
      /\ Range(q) = S
      /\ \A i, j \in 1 .. n : i < j => q[i] < q[j]
  BY DEF ListOrders
<1> HIDE DEF n
<1>4. n \in Nat
  BY <1>2 DEF n
<1>5. q \in Seq(Slots)
  BY <1>3, <1>4, SeqDef
<1>6. ASSUME NEW i \in 1 .. n, NEW j \in 1 .. n, q[i] = q[j] PROVE i = j
  <2>1. q[i] \in Int /\ q[j] \in Int
    <3>1. q[i] \in S /\ q[j] \in S
      BY <1>3
    <3>2. S \subseteq Int
      BY SlotCountAssumption DEF Slots
    <3> QED BY <3>1, <3>2
  <2>2. i \in Int /\ j \in Int
    BY <1>4
  <2>3. ~(i < j) /\ ~(j < i)
    BY <1>3, <1>6, <2>1
  <2> QED BY <2>2, <2>3
<1> QED BY <1>3, <1>5, <1>6 DEF Injective

\* Several slots freed together, listed without repetition.
LEMMA ManyFreedOK ==
  ASSUME NEW r, RegistryOK(r), NEW S \in SUBSET Slots, NEW q \in ListOrders(S),
         \A s \in S : r.slots[s].state # "free",
         NEW f \in [Slots -> SlotRecord],
         \A s \in Slots : SlotOK(f[s]),
         \A s \in S : f[s].state = "free",
         \A s \in Slots \ S : f[s].state = r.slots[s].state
  PROVE  RegistryOK([slots |-> f, free |-> r.free \o q])
<1> DEFINE new == [slots |-> f, free |-> r.free \o q]
<1>1. /\ r.free \in Seq(Slots)
      /\ Injective(r.free)
      /\ \A s \in Slots : r.slots[s].state = "free" <=> s \in Range(r.free)
  BY DEF RegistryOK, WellFormed, ListExact
<1>2. q \in Seq(Slots) /\ Injective(q) /\ Range(q) = S
  BY ListOrdersInjective
<1>3. Range(r.free) \cap Range(q) = {}
  BY <1>1, <1>2
<1>4. /\ r.free \o q \in Seq(Slots)
      /\ Injective(r.free \o q)
      /\ Range(r.free \o q) = Range(r.free) \cup S
  BY <1>1, <1>2, <1>3, ConcatInjectiveList
<1>5. new.slots = f /\ new.free = r.free \o q
  OBVIOUS
<1>6. WellFormed(new)
  BY <1>4 DEF WellFormed
<1> HIDE DEF new
<1>7. ListExact(new)
  BY <1>1, <1>4, <1>5 DEF ListExact
<1>8. RegistryOK(new)
  BY <1>5, <1>6, <1>7 DEF RegistryOK
<1> QED BY <1>8 DEF new

\* A reclaim by owner frees all of that owner's slots, in whatever order.
LEMMA AllReclaimedOK ==
  ASSUME NEW r, RegistryOK(r), NEW S \in SUBSET Slots, NEW q \in ListOrders(S),
         \A s \in S : r.slots[s].state # "free"
  PROVE  RegistryOK(AllReclaimed(r, q))
<1> DEFINE f == [s \in Slots |-> IF s \in Range(q) THEN Expelled(r.slots[s])
                                                   ELSE r.slots[s]]
<1>1. Range(q) = S
  BY ListOrdersInjective
<1>2. \A s \in Slots : r.slots[s] \in SlotRecord /\ SlotOK(r.slots[s])
  BY DEF RegistryOK, WellFormed
<1>3. ASSUME NEW s \in Slots
      PROVE  /\ Expelled(r.slots[s]) \in SlotRecord
             /\ Expelled(r.slots[s]).state = "free"
             /\ SlotOK(Expelled(r.slots[s]))
  <2>1. r.slots[s].generation + 1 \in Nat
    BY <1>2 DEF SlotRecord
  <2> QED BY <2>1, BareOK DEF Expelled
<1>4. /\ f \in [Slots -> SlotRecord]
      /\ \A s \in Slots : SlotOK(f[s])
      /\ \A s \in S : f[s].state = "free"
      /\ \A s \in Slots \ S : f[s].state = r.slots[s].state
  BY <1>1, <1>2, <1>3
<1> HIDE DEF f
<1>5. RegistryOK([slots |-> f, free |-> r.free \o q])
  BY <1>4, ManyFreedOK
<1> QED BY <1>5 DEF AllReclaimed, f

\* reclaim_dump_reader frees the slots that only a dump kept, in whatever order.
LEMMA DumpsReclaimedOK ==
  ASSUME NEW r, RegistryOK(r), NEW q \in ListOrders(GivenBackByDump(r))
  PROVE  RegistryOK(DumpsReclaimed(r, q))
<1> DEFINE S == GivenBackByDump(r)
           f == [s \in Slots |->
                   IF s \in Range(q) THEN Vacated(r.slots[s])
                                     ELSE [r.slots[s] EXCEPT !.dumpRef = 0]]
<1>1. /\ S \in SUBSET Slots
      /\ \A s \in S : r.slots[s].state # "free"
  BY DEF GivenBackByDump
<1>2. Range(q) = S
  BY <1>1, ListOrdersInjective
<1>3. \A s \in Slots : r.slots[s] \in SlotRecord /\ SlotOK(r.slots[s])
  BY DEF RegistryOK, WellFormed
<1>4. ASSUME NEW s \in Slots
      PROVE  /\ Vacated(r.slots[s]) \in SlotRecord
             /\ Vacated(r.slots[s]).state = "free"
             /\ SlotOK(Vacated(r.slots[s]))
  <2>1. r.slots[s].generation \in Nat
    BY <1>3 DEF SlotRecord
  <2> QED BY <2>1, BareOK DEF Vacated
<1>5. ASSUME NEW s \in Slots, s \notin S
      PROVE  /\ [r.slots[s] EXCEPT !.dumpRef = 0] \in SlotRecord
             /\ [r.slots[s] EXCEPT !.dumpRef = 0].state = r.slots[s].state
             /\ SlotOK([r.slots[s] EXCEPT !.dumpRef = 0])
  <2> DEFINE slot == r.slots[s]
  <2>1. slot \in SlotRecord /\ SlotOK(slot)
    BY <1>3
  <2>2. ~(slot.dumpRef = 1 /\ slot.decoder = None /\ slot.state = "in_decode")
    BY <1>5 DEF GivenBackByDump
  <2>3. slot.state = "in_decode" => slot.decoder # None
    BY <2>1, <2>2 DEF SlotOK, SlotNotOrphaned
  <2> HIDE DEF slot
  <2>4. /\ [slot EXCEPT !.dumpRef = 0] \in SlotRecord
        /\ [slot EXCEPT !.dumpRef = 0].state = slot.state
        /\ SlotOK([slot EXCEPT !.dumpRef = 0])
    BY <2>1, <2>3
       DEF SlotRecord, SlotState, SlotOK, SlotOwnersMatch, SlotNotOrphaned
  <2> QED BY <2>4 DEF slot
<1>6. /\ f \in [Slots -> SlotRecord]
      /\ \A s \in Slots : SlotOK(f[s])
      /\ \A s \in S : f[s].state = "free"
      /\ \A s \in Slots \ S : f[s].state = r.slots[s].state
  BY <1>1, <1>2, <1>4, <1>5
<1> HIDE DEF f, S
<1>7. RegistryOK([slots |-> f, free |-> r.free \o q])
  BY <1>1, <1>6, ManyFreedOK DEF S
<1> QED BY <1>7 DEF DumpsReclaimed, f

-----------------------------------------------------------------------------
(* A generation lives once.                                                  *)

Later(old, new) ==
  \/ new.generation > old.generation
  \/ new.generation = old.generation /\ Rank(new.state) >= Rank(old.state)

AllLater(r, r2) == \A s \in Slots : Later(r.slots[s], r2.slots[s])

\* The order in which the states of one life of a slot follow each other.
LEMMA RankOrder ==
  /\ Rank("filling") = 0
  /\ Rank("filled") = 1
  /\ Rank("in_decode") = 2
  /\ Rank("free") = 3
  /\ \A state \in SlotState : Rank(state) \in 0 .. 3
BY DEF Rank, SlotState

\* A slot left alone has not gone back.
LEMMA LaterItself == ASSUME NEW slot \in SlotRecord PROVE Later(slot, slot)
<1>1. Rank(slot.state) \in 0 .. 3
  BY RankOrder DEF SlotRecord
<1> QED BY <1>1 DEF Later

\* Neither has one that was emptied, expelled or allocated anew.
LEMMA LaterBare ==
  ASSUME NEW slot \in SlotRecord, NEW state, NEW w
  PROVE  /\ Later(slot, Vacated(slot))
         /\ Later(slot, Expelled(slot))
         /\ Later(slot, Bare(slot.generation + 1, state, w))
<1>1. slot.generation \in Nat /\ slot.state \in SlotState
  BY DEF SlotRecord
<1>2. Later(slot, Vacated(slot))
  BY <1>1, RankOrder DEF Later, Vacated, Bare
<1>3. Later(slot, Expelled(slot)) /\ Later(slot, Bare(slot.generation + 1, state, w))
  BY <1>1 DEF Later, Expelled, Bare
<1> QED BY <1>2, <1>3

\* To change one slot it is enough that this one does not go back.
LEMMA LaterOne ==
  ASSUME NEW r, WellFormed(r), NEW s \in Slots, NEW slot, NEW q,
         Later(r.slots[s], slot)
  PROVE  AllLater(r, [slots |-> [r.slots EXCEPT ![s] = slot], free |-> q])
<1> DEFINE new == [slots |-> [r.slots EXCEPT ![s] = slot], free |-> q]
<1>1. \A t \in Slots : r.slots[t] \in SlotRecord
  BY DEF WellFormed
<1>2. \A t \in Slots : new.slots[t] = IF t = s THEN slot ELSE r.slots[t]
  BY DEF WellFormed
<1> HIDE DEF new
<1>3. AllLater(r, new)
  BY <1>1, <1>2, LaterItself DEF AllLater
<1> QED BY <1>3 DEF new

\* A reclaim by owner takes no slot back in its life.
LEMMA LaterAllReclaimed ==
  ASSUME NEW r, WellFormed(r), NEW q PROVE AllLater(r, AllReclaimed(r, q))
<1>1. \A t \in Slots : r.slots[t] \in SlotRecord
  BY DEF WellFormed
<1>2. \A t \in Slots : AllReclaimed(r, q).slots[t] =
        IF t \in Range(q) THEN Expelled(r.slots[t]) ELSE r.slots[t]
  BY DEF AllReclaimed
<1> QED BY <1>1, <1>2, LaterItself, LaterBare DEF AllLater

\* A reclaim of the dump reader takes no slot back in its life.
LEMMA LaterDumpsReclaimed ==
  ASSUME NEW r, WellFormed(r), NEW q PROVE AllLater(r, DumpsReclaimed(r, q))
<1>1. \A t \in Slots : r.slots[t] \in SlotRecord
  BY DEF WellFormed
<1>2. \A t \in Slots : DumpsReclaimed(r, q).slots[t] =
        IF t \in Range(q) THEN Vacated(r.slots[t])
                          ELSE [r.slots[t] EXCEPT !.dumpRef = 0]
  BY DEF DumpsReclaimed
<1>3. ASSUME NEW slot \in SlotRecord PROVE Later(slot, [slot EXCEPT !.dumpRef = 0])
  <2>1. /\ [slot EXCEPT !.dumpRef = 0].generation = slot.generation
        /\ [slot EXCEPT !.dumpRef = 0].state = slot.state
    BY DEF SlotRecord
  <2> QED BY <2>1, LaterItself DEF Later
<1> QED BY <1>1, <1>2, <1>3, LaterBare DEF AllLater

\* A release takes no slot back in its life.
LEMMA LaterReleased ==
  ASSUME NEW r, WellFormed(r), NEW s \in Slots PROVE AllLater(r, Released(r, s))
<1>1. r.slots[s] \in SlotRecord
  BY DEF WellFormed
<1> QED BY <1>1, LaterBare, LaterOne DEF Released

\* An allocation starts the next life of a slot.
LEMMA LaterAllocated ==
  ASSUME NEW r, WellFormed(r), r.free # << >>, NEW w
  PROVE  AllLater(r, Allocated(r, w))
<1> DEFINE s == Head(r.free)
<1>1. s \in Slots /\ r.slots \in [Slots -> SlotRecord]
  BY HeadTailProperties DEF WellFormed
<1>2. Later(r.slots[s], Bare(r.slots[s].generation + 1, "filling", w))
  BY <1>1, LaterBare
<1>3. Allocated(r, w) =
        [slots |-> [r.slots EXCEPT ![s] = Bare(r.slots[s].generation + 1, "filling", w)],
         free |-> Tail(r.free)]
  BY DEF Allocated
<1> DEFINE slot == Bare(r.slots[s].generation + 1, "filling", w)
           q == Tail(r.free)
<1> HIDE DEF s, slot, q
<1>4. AllLater(r, [slots |-> [r.slots EXCEPT ![s] = slot], free |-> q])
  BY <1>1, <1>2, LaterOne DEF slot
<1> QED BY <1>3, <1>4 DEF slot, q

\* Changing a slot in use without touching its generation, onward in rank.
LEMMA LaterWithSlot ==
  ASSUME NEW r, WellFormed(r), NEW s \in Slots, NEW slot \in SlotRecord,
         slot.generation = r.slots[s].generation,
         Rank(slot.state) >= Rank(r.slots[s].state)
  PROVE  AllLater(r, WithSlot(r, s, slot))
BY LaterOne DEF WithSlot, Later

=============================================================================
