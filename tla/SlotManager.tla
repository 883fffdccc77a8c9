----------------------------- MODULE SlotManager -----------------------------
(***************************************************************************)
(* The slot registry under an arbitrary client: every locked method of       *)
(* slot_manager.py is one action, called by anyone, at any time, with any    *)
(* descriptor that was ever handed out.                                      *)
(***************************************************************************)
EXTENDS SlotRegistry

CONSTANT MaxGeneration   \* bound of the model on a slot's generation

ASSUME MaxGenerationAssumption == MaxGeneration \in Nat

VARIABLE registry

-----------------------------------------------------------------------------
(* An arbitrary client.  A descriptor names a slot and a generation that was *)
(* in use at some time: any generation up to the slot's current one.  A call *)
(* whose test fails returns False and changes nothing, so it is no step.     *)

Init == registry = InitialRegistry

HeldGeneration(s) == 0 .. registry.slots[s].generation

BelowBound == \A s \in Slots : registry.slots[s].generation < MaxGeneration

AllocateForGrab(w) ==
  /\ BelowBound
  /\ registry.free # << >>
  /\ registry' = Allocated(registry, w)

OverwriteOldestFilled(w) ==
  /\ \A s \in Slots : registry.slots[s].generation + 1 < MaxGeneration
  /\ \E s \in Slots :
       /\ IsOldest(registry, s)
       /\ registry' = Overwritten(registry, s, w)

MarkFilled(s, g, w, c) ==
  /\ MayFill(registry, s, g, w)
  /\ registry' = Filled(registry, s, c)

MarkDuplicateAndRelease(s, g) ==
  /\ Matches(registry, s, g)
  /\ registry' = Released(registry, s)

AssignDecode(s, g, k) ==
  /\ MayAssign(registry, s, g)
  /\ registry' = Assigned(registry, s, k)

CompleteDecode(s, g, k) ==
  /\ MayComplete(registry, s, g, k)
  /\ registry' = Completed(registry, s)

SetDumpReader(s, g) ==
  /\ MayDump(registry, s, g)
  /\ registry' = DumpStarted(registry, s)

ClearDumpReader(s, g) ==
  /\ Matches(registry, s, g)
  /\ registry' = DumpCleared(registry, s)

ReclaimWriterOwner(w) ==
  /\ BelowBound
  /\ \E q \in ListOrders(OwnedByWriter(registry, w)) :
       registry' = AllReclaimed(registry, q)

ReclaimDecodeOwner(k) ==
  /\ BelowBound
  /\ \E q \in ListOrders(OwnedByDecoder(registry, k)) :
       registry' = AllReclaimed(registry, q)

ReclaimDumpReader ==
  \E q \in ListOrders(GivenBackByDump(registry)) :
    registry' = DumpsReclaimed(registry, q)

Next ==
  \/ \E w \in Writers :
       \/ AllocateForGrab(w)
       \/ OverwriteOldestFilled(w)
       \/ ReclaimWriterOwner(w)
  \/ \E k \in Workers : ReclaimDecodeOwner(k)
  \/ ReclaimDumpReader
  \/ \E s \in Slots : \E g \in HeldGeneration(s) :
       \/ \E w \in Writers, c \in Captures : MarkFilled(s, g, w, c)
       \/ \E k \in Workers : AssignDecode(s, g, k) \/ CompleteDecode(s, g, k)
       \/ MarkDuplicateAndRelease(s, g)
       \/ SetDumpReader(s, g)
       \/ ClearDumpReader(s, g)

Spec == Init /\ [][Next]_registry

-----------------------------------------------------------------------------
(* Correctness.                                                              *)

\* The registry keeps its shape: records of the declared fields and a free
\* list of known slots (the type of SlotManager's state).
TypeOK ==
  registry \in [slots : [Slots -> SlotRecord], free : Seq(Slots)]

\* The free list holds exactly the FREE slots, each once: however calls race,
\* no slot is handed to two writers from the list and none is lost from it,
\* although release and reclaim only guard the append by a membership test.
FreeListExact ==
  /\ \A s \in Slots :
       registry.slots[s].state = "free" <=> s \in Range(registry.free)
  /\ \A i, j \in DOMAIN registry.free :
       registry.free[i] = registry.free[j] => i = j

\* Owners agree with the state: a writer owns a slot exactly while it is being
\* filled, a decoder only while it is in decode, and a current descriptor is
\* there exactly from mark_filled to the release.
OwnersMatchState ==
  \A s \in Slots : LET slot == registry.slots[s] IN
    /\ slot.writer # None <=> slot.state = "filling"
    /\ slot.decoder # None => slot.state = "in_decode"
    /\ slot.capture # None <=> slot.state \in {"filled", "in_decode"}

\* No slot is orphaned in decode: one that is not free any more is still owned
\* by the decoder or read by the dump, so a later completion gives it back.
NoOrphanInDecode ==
  \A s \in Slots : LET slot == registry.slots[s] IN
    slot.state = "in_decode" => slot.decoder # None \/ slot.dumpRef = 1

\* One generation lives once: within a generation a slot only moves on towards
\* FREE, so a late or repeated call with an old descriptor can never bring a
\* released frame back or re-open it for writing, and generations never go back.
GenerationLivesOnce ==
  [][\A s \in Slots :
       LET old == registry.slots[s]
           new == registry'.slots[s]
       IN  \/ new.generation > old.generation
           \/ /\ new.generation = old.generation
              /\ Rank(new.state) >= Rank(old.state)]_registry

=============================================================================
