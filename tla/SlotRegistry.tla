---------------------------- MODULE SlotRegistry ----------------------------
(***************************************************************************)
(* The slot registry of the live receiver (receiver/runtime/slot_manager.py): *)
(* a fixed pool of shared-memory slots, each reused under a generation       *)
(* number.  Every public method of the class runs under one lock; here each  *)
(* is an operator on a registry value, so that a caller can chain several of *)
(* them in one step.  SlotManager puts them under an arbitrary client,       *)
(* LiveRuntime under the coordinator that really calls them.                 *)
(*                                                                           *)
(* Left out: the shared-memory names, the metric counters                    *)
(* (slot_in_use_peak, generation_mismatch_count, overwrite_count) and calls  *)
(* with a slot id the registry does not know.                                *)
(***************************************************************************)
EXTENDS Integers, Sequences, FiniteSets, Functions

CONSTANTS
  SlotCount,      \* number of slots; slot ids are 0 .. SlotCount - 1
  Writers,        \* owner identifiers given to allocate_for_grab
  Workers,        \* decode worker ids
  Captures,       \* capture_index values a filled frame may carry
  None            \* Python's None

ASSUME SlotCountAssumption == SlotCount \in Nat \ {0}
ASSUME NoneAssumption == None \notin Writers /\ None \notin Workers /\ None \notin Captures
ASSUME CapturesAssumption == Captures \subseteq Nat

\* A registry is a value [slots: slot id -> record, free: the _free_slots deque].
Slots == 0 .. SlotCount - 1

\* The list order of _slots, which is the order scans and ties follow.
SlotOrder == [i \in 1 .. SlotCount |-> i - 1]

\* RECLAIMING is only ever a value inside one locked section.
SlotState == {"free", "filling", "filled", "in_decode"}

SlotRecord ==
  [generation : Nat, state : SlotState, writer : Writers \cup {None},
   decoder : Workers \cup {None}, dumpRef : {0, 1},
   capture : Captures \cup {None}]   \* of current_descriptor; None if there is none

-----------------------------------------------------------------------------
(* The locked operations.                                                    *)

\* The generation test every method with a descriptor makes.
Matches(r, s, g) == r.slots[s].generation = g

\* A slot with nothing attached: what a release, a reclaim and an allocation
\* leave, but for the generation, the state and the writer.
Bare(generation, state, writer) ==
  [generation |-> generation, state |-> state, writer |-> writer,
   decoder |-> None, dumpRef |-> 0, capture |-> None]

\* The registry with slot s replaced.
WithSlot(r, s, slot) == [slots |-> [r.slots EXCEPT ![s] = slot], free |-> r.free]

\* A defect: the decode owner survives the release.
VacatedKeepingDecoder(slot) ==
  [slot EXCEPT !.state = "free", !.writer = None, !.dumpRef = 0, !.capture = None]

\* All owners, references and the descriptor dropped; the generation stays.
Vacated(slot) == Bare(slot.generation, "free", None)

\* A defect: the membership test before the append is forgotten.
ReturnedUntested(free, s) == Append(free, s)

\* "if slot_id not in self._free_slots: self._free_slots.append(slot_id)"
Returned(free, s) == IF s \in Range(free) THEN free ELSE Append(free, s)

\* _release_locked, once the generation matched
Released(r, s) ==
  [slots |-> [r.slots EXCEPT ![s] = Vacated(r.slots[s])],
   free  |-> Returned(r.free, s)]

\* A defect: the transient RECLAIMING state is left behind.
ExpelledHalfway(slot) == Bare(slot.generation + 1, "reclaiming", None)

\* What _force_reclaim_locked makes of a slot: nothing that still names the
\* old generation can touch it.
Expelled(slot) == Bare(slot.generation + 1, "free", None)

\* _force_reclaim_locked
Reclaimed(r, s) ==
  [slots |-> [r.slots EXCEPT ![s] = Expelled(r.slots[s])],
   free  |-> Returned(r.free, s)]

\* allocate_for_grab, once the free list is known to hold a slot
Allocated(r, w) ==
  LET s == Head(r.free)
  IN  [slots |-> [r.slots EXCEPT ![s] =
                    Bare(r.slots[s].generation + 1, "filling", w)],
       free  |-> Tail(r.free)]

InitialRegistry ==
  [slots |-> [s \in Slots |-> Bare(0, "free", None)], free |-> SlotOrder]

\* The candidates of overwrite_oldest_filled, and the one min() picks: the
\* smallest capture index, the earliest in list order among equals.
Overwritable(r) ==
  {s \in Slots : r.slots[s].state = "filled" /\ r.slots[s].capture # None}

IsOldest(r, s) ==
  /\ s \in Overwritable(r)
  /\ \A t \in Overwritable(r) :
       \/ r.slots[s].capture < r.slots[t].capture
       \/ r.slots[s].capture = r.slots[t].capture /\ s <= t

\* The reclaimed slot joins the free list; the head of the list is handed out.
Overwritten(r, s, w) == Allocated(Reclaimed(r, s), w)

\* descriptor_matches_current: a descriptor is current while its generation is
\* and the slot still holds the frame it describes.
IsCurrent(r, s, g) == Matches(r, s, g) /\ r.slots[s].capture # None

\* mark_filled succeeds only for the writer of the current generation.
MayFill(r, s, g, w) ==
  /\ r.slots[s].writer = w
  /\ r.slots[s].state = "filling"
  /\ Matches(r, s, g)

Filled(r, s, c) ==
  WithSlot(r, s, [r.slots[s] EXCEPT !.state = "filled", !.writer = None,
                                    !.capture = c])

\* A defect: assign_decode trusts the generation alone.
MayAssignAnyState(r, s, g) == Matches(r, s, g)

MayAssign(r, s, g) == Matches(r, s, g) /\ r.slots[s].state = "filled"

Assigned(r, s, k) ==
  WithSlot(r, s, [r.slots[s] EXCEPT !.state = "in_decode", !.decoder = k])

MayComplete(r, s, g, k) == Matches(r, s, g) /\ r.slots[s].decoder = k

\* complete_decode: the slot goes back unless a dump still reads it.
Completed(r, s) ==
  IF r.slots[s].dumpRef = 0
  THEN Released(r, s)
  ELSE WithSlot(r, s, [r.slots[s] EXCEPT !.decoder = None])

MayDump(r, s, g) == Matches(r, s, g) /\ r.slots[s].dumpRef = 0

DumpStarted(r, s) == WithSlot(r, s, [r.slots[s] EXCEPT !.dumpRef = 1])

\* A defect: clear_dump_reader leaves the release to the decode.
DumpClearedOnly(r, s) == WithSlot(r, s, [r.slots[s] EXCEPT !.dumpRef = 0])

\* clear_dump_reader: the slot goes back unless a decode still owns it.
DumpCleared(r, s) ==
  IF r.slots[s].decoder = None
  THEN Released(r, s)
  ELSE WithSlot(r, s, [r.slots[s] EXCEPT !.dumpRef = 0])

\* The reclaim_* methods walk the slots in list order: the one way to line the
\* slots of S up in that order.
ListOrders(S) ==
  {q \in [1 .. Cardinality(S) -> S] :
     /\ Range(q) = S
     /\ \A i, j \in 1 .. Cardinality(S) : i < j => q[i] < q[j]}

OwnedByWriter(r, w) == {s \in Slots : r.slots[s].writer = w}

OwnedByDecoder(r, k) == {s \in Slots : r.slots[s].decoder = k}

\* Every slot of q force-reclaimed, one after the other; an owned slot is not
\* in the free list, so each is appended.
AllReclaimed(r, q) ==
  [slots |-> [s \in Slots |->
                IF s \in Range(q)
                THEN Expelled(r.slots[s])
                ELSE r.slots[s]],
   free  |-> r.free \o q]

\* reclaim_dump_reader gives back the dumped slots that neither a decoder nor a
\* writer has; the ones that are free already only lose the reference.
GivenBackByDump(r) ==
  {s \in Slots : /\ r.slots[s].dumpRef = 1
                 /\ r.slots[s].decoder = None
                 /\ r.slots[s].state \notin {"filling", "free"}}

DumpsReclaimed(r, q) ==
  [slots |-> [s \in Slots |->
                IF s \in Range(q) THEN Vacated(r.slots[s])
                                  ELSE [r.slots[s] EXCEPT !.dumpRef = 0]],
   free  |-> r.free \o q]

\* The position of a state in the life of one generation.
Rank(state) ==
  CASE state = "filling"   -> 0
    [] state = "filled"    -> 1
    [] state = "in_decode" -> 2
    [] state = "free"      -> 3

=============================================================================
