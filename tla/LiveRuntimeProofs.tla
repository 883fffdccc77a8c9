-------------------------- MODULE LiveRuntimeProofs --------------------------
(***************************************************************************)
(* LiveRuntime is correct for every number of slots, workers and copiers,    *)
(* every queue size and either prep strategy.  The inductive invariant is    *)
(* stated of the values (registry, channels, pixels) so that a handler's     *)
(* effect can be taken apart: an item is taken from a channel, the registry  *)
(* changes at that item's slot, the item is put into another channel.        *)
(***************************************************************************)
EXTENDS LiveRuntime, SlotRegistryProofs

-----------------------------------------------------------------------------
(* Channels.                                                                 *)

\* Waiting for its pixels, on the way to the coordinator, and beyond.
Early == {SlotQueue, LocalSlots}

\* The channels in which a slot is being filled.
LEMMA GrabChannels ==
  /\ {SlotQueue, LocalSlots, GrabHand, CopyQueue, GrabEvents} \subseteq GrabSide
  /\ \A k \in Copiers : Copying(k) \in GrabSide
  /\ GrabSide \subseteq Chan
BY DEF GrabSide, Chan

\* The channels in which a slot is filled and waits for its decode.
LEMMA PrepChannels ==
  /\ {Submitting, PrepIn, Prepping, PrepOut} \subseteq PrepSide
  /\ PrepSide \subseteq Chan
BY DEF PrepSide, Chan

\* The channels in which a slot is in decode.
LEMMA DecodeChannels ==
  /\ {Results, Answering} \subseteq DecodeSide
  /\ \A w \in Workers : Assignments(w) \in DecodeSide /\ Decoding(w) \in DecodeSide
  /\ DecodeSide \subseteq Chan
BY DEF DecodeSide, Chan

\* The three parts of the pipeline share no channel.
LEMMA SidesDisjoint ==
  /\ GrabSide \cap PrepSide = {}
  /\ GrabSide \cap DecodeSide = {}
  /\ PrepSide \cap DecodeSide = {}
BY DEF GrabSide, PrepSide, DecodeSide, SlotQueue, LocalSlots, GrabHand,
       CopyQueue, GrabEvents, Submitting, PrepIn, PrepOut, Results, Answering,
       Copying, Prepping, Assignments, Decoding

\* The channels that the steps below tell apart are different.
LEMMA ChannelsDistinct ==
  /\ GrabHand \notin Early /\ CopyQueue \notin Early /\ GrabEvents \notin Early
  /\ \A k \in Copiers : Copying(k) \notin Early /\ Copying(k) # GrabEvents
                        /\ Copying(k) # CopyQueue /\ Copying(k) # GrabHand
  /\ SlotQueue # LocalSlots /\ GrabHand # CopyQueue /\ GrabHand # GrabEvents
  /\ CopyQueue # GrabEvents /\ SlotQueue # GrabEvents /\ LocalSlots # GrabEvents
  /\ Submitting # PrepIn /\ PrepIn # PrepOut /\ Submitting # PrepOut
  /\ Prepping # PrepIn /\ Prepping # PrepOut
  /\ Answering # Results
  /\ \A w \in Workers : {Assignments(w), Decoding(w)} \cap {Results, Answering} = {}
  /\ \A v, w \in Workers :
       /\ Assignments(v) # Decoding(w)
       /\ Assignments(v) = Assignments(w) => v = w
       /\ Decoding(v) = Decoding(w) => v = w
BY DEF Early, SlotQueue, LocalSlots, GrabHand, CopyQueue, GrabEvents, Submitting,
       PrepIn, PrepOut, Results, Answering, Copying, Prepping, Assignments, Decoding

\* What each part of the pipeline says of the state of a slot.
LEMMA Stages ==
  /\ \A c \in GrabSide : StageOf(c) = "filling"
  /\ \A c \in PrepSide : StageOf(c) = "filled"
  /\ \A c \in DecodeSide : StageOf(c) = "in_decode"
  /\ \A c \in Chan : StageOf(c) \in {"filling", "filled", "in_decode"}
BY SidesDisjoint DEF StageOf

-----------------------------------------------------------------------------
(* Items in channels.                                                        *)

SlotsDiffer(q) == \A i, j \in DOMAIN q : q[i].slot = q[j].slot => i = j

\* Taking the oldest item of a channel leaves the others.
LEMMA TailItems ==
  ASSUME NEW q \in Seq(Item), q # << >>, SlotsDiffer(q)
  PROVE  /\ Head(q) \in Item
         /\ Head(q) \in Range(q)
         /\ Tail(q) \in Seq(Item)
         /\ SlotsDiffer(Tail(q))
         /\ Range(Tail(q)) = Range(q) \ {Head(q)}
         /\ \A x \in Range(Tail(q)) : x.slot # Head(q).slot
<1>1. Injective(q)
  BY DEF Injective, SlotsDiffer
<1>2. /\ Head(q) \in Item
      /\ Head(q) \in Range(q)
      /\ Tail(q) \in Seq(Item)
      /\ Range(Tail(q)) = Range(q) \ {Head(q)}
  BY <1>1, TailInjectiveList
<1>3. /\ Len(q) \in Nat \ {0}
      /\ DOMAIN q = 1 .. Len(q)
      /\ DOMAIN Tail(q) = 1 .. Len(q) - 1
      /\ \A i \in 1 .. Len(q) - 1 : Tail(q)[i] = q[i + 1]
      /\ Head(q) = q[1]
  BY HeadTailProperties, LenProperties, EmptySeq
<1>4. SlotsDiffer(Tail(q))
  BY <1>3 DEF SlotsDiffer
<1>5. ASSUME NEW x \in Range(Tail(q)) PROVE x.slot # Head(q).slot
  <2>1. PICK i \in 1 .. Len(q) - 1 : x = q[i + 1]
    BY <1>3 DEF Range
  <2>2. i + 1 \in 1 .. Len(q) /\ i + 1 # 1 /\ 1 \in 1 .. Len(q)
    BY <1>3
  <2> QED BY <1>3, <2>1, <2>2 DEF SlotsDiffer
<1> QED BY <1>2, <1>4, <1>5

\* Putting an item for a slot not yet in the channel adds just that one.
LEMMA AppendItems ==
  ASSUME NEW q \in Seq(Item), NEW e \in Item, SlotsDiffer(q),
         \A x \in Range(q) : x.slot # e.slot
  PROVE  /\ Append(q, e) \in Seq(Item)
         /\ SlotsDiffer(Append(q, e))
         /\ Range(Append(q, e)) = Range(q) \cup {e}
<1>1. Injective(q) /\ e \notin Range(q)
  BY DEF Injective, SlotsDiffer
<1>2. Append(q, e) \in Seq(Item) /\ Range(Append(q, e)) = Range(q) \cup {e}
  BY <1>1, AppendInjectiveList
<1>3. /\ Len(q) \in Nat
      /\ DOMAIN q = 1 .. Len(q)
      /\ DOMAIN Append(q, e) = 1 .. Len(q) + 1
      /\ \A i \in 1 .. Len(q) : Append(q, e)[i] = q[i]
      /\ Append(q, e)[Len(q) + 1] = e
  BY AppendProperties, LenProperties
<1>4. \A i \in 1 .. Len(q) : q[i].slot # e.slot
  BY <1>3 DEF Range
<1>5. SlotsDiffer(Append(q, e))
  BY <1>3, <1>4 DEF SlotsDiffer
<1> QED BY <1>2, <1>5

QueueOK(q) ==
  /\ q \in [Chan -> Seq(Item)]
  /\ \A c \in Chan : SlotsDiffer(q[c])
  /\ \A c, d \in Chan :
       c # d => \A x \in Range(q[c]), y \in Range(q[d]) : x.slot # y.slot

Absent(q, s) == \A c \in Chan : \A x \in Range(q[c]) : x.slot # s

Present(q, s) == \E c \in Chan : \E x \in Range(q[c]) : x.slot = s

\* Once an item is taken, its slot is in no channel.
LEMMA TakenItems ==
  ASSUME NEW q, QueueOK(q), NEW c \in Chan, q[c] # << >>
  PROVE  /\ Head(q[c]) \in Item
         /\ Head(q[c]) \in Range(q[c])
         /\ QueueOK(Taken(q, c))
         /\ Absent(Taken(q, c), Head(q[c]).slot)
         /\ \A d \in Chan : Range(Taken(q, c)[d]) \subseteq Range(q[d])
         /\ \A s : Present(q, s) => s = Head(q[c]).slot \/ Present(Taken(q, c), s)
<1> DEFINE h == Head(q[c])
           n == Taken(q, c)
<1>1. /\ q \in [Chan -> Seq(Item)]
      /\ q[c] \in Seq(Item)
      /\ SlotsDiffer(q[c])
  BY DEF QueueOK
<1>2. /\ h \in Item
      /\ h \in Range(q[c])
      /\ Tail(q[c]) \in Seq(Item)
      /\ SlotsDiffer(Tail(q[c]))
      /\ Range(Tail(q[c])) = Range(q[c]) \ {h}
      /\ \A x \in Range(Tail(q[c])) : x.slot # h.slot
  BY <1>1, TailItems
<1>3. /\ n \in [Chan -> Seq(Item)]
      /\ n[c] = Tail(q[c])
      /\ \A d \in Chan : d # c => n[d] = q[d]
  BY <1>1, <1>2 DEF Taken
<1> HIDE DEF h, n
<1>4. \A d \in Chan : Range(n[d]) \subseteq Range(q[d])
  BY <1>2, <1>3
<1>5. QueueOK(n)
  <2>1. \A d \in Chan : SlotsDiffer(n[d])
    BY <1>2, <1>3 DEF QueueOK
  <2>2. ASSUME NEW a \in Chan, NEW b \in Chan, a # b,
               NEW x \in Range(n[a]), NEW y \in Range(n[b])
        PROVE  x.slot # y.slot
    <3>1. x \in Range(q[a]) /\ y \in Range(q[b])
      BY <1>4
    <3> QED BY <2>2, <3>1 DEF QueueOK
  <2> QED BY <1>3, <2>1, <2>2 DEF QueueOK
<1>6. Absent(n, h.slot)
  BY <1>2, <1>3 DEF Absent, QueueOK
<1>7. ASSUME NEW s, Present(q, s) PROVE s = h.slot \/ Present(n, s)
  <2>1. PICK d \in Chan : \E x \in Range(q[d]) : x.slot = s
    BY <1>7 DEF Present
  <2>2. PICK x \in Range(q[d]) : x.slot = s
    BY <2>1
  <2>3. CASE x = h
    BY <2>2, <2>3
  <2>4. CASE x # h
    <3>1. x \in Range(n[d])
      BY <1>2, <1>3, <2>4
    <3> QED BY <2>2, <3>1 DEF Present
  <2> QED BY <2>3, <2>4
<1> QED BY <1>2, <1>4, <1>5, <1>6, <1>7 DEF h, n

\* Putting an item for a slot in no channel keeps every slot in one place.
LEMMA PutItems ==
  ASSUME NEW q, QueueOK(q), NEW d \in Chan, NEW item \in Item,
         Absent(q, item.slot)
  PROVE  /\ QueueOK(Put(q, d, item))
         /\ Range(Put(q, d, item)[d]) = Range(q[d]) \cup {item}
         /\ \A c \in Chan : c # d => Range(Put(q, d, item)[c]) = Range(q[c])
         /\ \A s : Present(q, s) => Present(Put(q, d, item), s)
         /\ Present(Put(q, d, item), item.slot)
<1> DEFINE n == Put(q, d, item)
<1>1. /\ q \in [Chan -> Seq(Item)]
      /\ q[d] \in Seq(Item)
      /\ SlotsDiffer(q[d])
      /\ \A x \in Range(q[d]) : x.slot # item.slot
  BY DEF QueueOK, Absent
<1>2. /\ Append(q[d], item) \in Seq(Item)
      /\ SlotsDiffer(Append(q[d], item))
      /\ Range(Append(q[d], item)) = Range(q[d]) \cup {item}
  BY <1>1, AppendItems
<1>3. /\ n \in [Chan -> Seq(Item)]
      /\ n[d] = Append(q[d], item)
      /\ \A c \in Chan : c # d => n[c] = q[c]
  BY <1>1, <1>2 DEF Put
<1> HIDE DEF n
<1>4. /\ Range(n[d]) = Range(q[d]) \cup {item}
      /\ \A c \in Chan : c # d => Range(n[c]) = Range(q[c])
  BY <1>2, <1>3
<1>5. QueueOK(n)
  <2>1. \A c \in Chan : SlotsDiffer(n[c])
    BY <1>2, <1>3 DEF QueueOK
  <2>2. ASSUME NEW a \in Chan, NEW b \in Chan, a # b,
               NEW x \in Range(n[a]), NEW y \in Range(n[b])
        PROVE  x.slot # y.slot
    <3>1. CASE x \in Range(q[a]) /\ y \in Range(q[b])
      BY <2>2, <3>1 DEF QueueOK
    <3>2. CASE a = d /\ x = item
      <4>1. y \in Range(q[b])
        BY <2>2, <3>2, <1>4
      <4> QED BY <3>2, <4>1 DEF Absent
    <3>3. CASE b = d /\ y = item
      <4>1. x \in Range(q[a])
        BY <2>2, <3>3, <1>4
      <4> QED BY <3>3, <4>1 DEF Absent
    <3> QED BY <3>1, <3>2, <3>3, <1>4
  <2> QED BY <1>3, <2>1, <2>2 DEF QueueOK
<1>6. \A s : Present(q, s) => Present(n, s)
  BY <1>4 DEF Present
<1>7. Present(n, item.slot)
  BY <1>4 DEF Present
<1> QED BY <1>4, <1>5, <1>6, <1>7 DEF n

-----------------------------------------------------------------------------
(* The invariant.                                                            *)

\* An item of channel c agrees with its slot and the slot's pixels.
ItemOK(c, x, slot, shown) ==
  /\ x.generation = slot.generation
  /\ slot.state = StageOf(c)
  /\ c \notin Early => x.capture \in Captures
  /\ c \in PrepSide \cup DecodeSide => slot.capture = x.capture
  /\ c \in FrameChannels => shown = x.capture
  /\ \A w \in Workers : c \in {Assignments(w), Decoding(w)} => slot.decoder = w
  /\ c \in {Results, Answering} => slot.decoder = x.worker

ItemsOK(r, q, px) ==
  \A c \in Chan : \A x \in Range(q[c]) : ItemOK(c, x, r.slots[x.slot], px[x.slot])

NoDumps(r) == \A s \in Slots : r.slots[s].dumpRef = 0

\* Registry, channels and pixels together; a slot in gone is in use for ever,
\* and no item is left for it.
RingOK(r, q, px, gone) ==
  /\ RegistryOK(r)
  /\ NoDumps(r)
  /\ QueueOK(q)
  /\ px \in [Slots -> Captures \cup {None}]
  /\ ItemsOK(r, q, px)
  /\ \A s \in gone : s \in Slots /\ Absent(q, s) /\ r.slots[s].state # "free"

\* Every slot travels, or is gone, or rests after the session.
AllAccounted(r, q, gone, ended) ==
  \A s \in Slots :
    s \in gone \/ Present(q, s) \/ (ended /\ s \in Range(r.free))

IInv ==
  /\ RingOK(registry, queue, pixels, leaked \cup lost)
  /\ AllAccounted(registry, queue, leaked \cup lost, stopped)
  /\ ~stopped => registry.free = << >>
  /\ captureIndex \in Nat
  /\ nextWorker \in Workers
  /\ leaked \subseteq Slots
  /\ lost \subseteq Slots
  /\ decoded \subseteq Captures
  /\ deadCopiers \subseteq CopyWorkers
  /\ stopped \in BOOLEAN
  /\ lastTurn \subseteq {"grab", "prep", "decode"}

-----------------------------------------------------------------------------
(* The parts of a step.                                                      *)

\* Taking an item leaves the ring in order, and its slot in no channel.
LEMMA TakenRing ==
  ASSUME NEW r, NEW q, NEW px, NEW gone, RingOK(r, q, px, gone),
         NEW c \in Chan, q[c] # << >>
  PROVE  /\ Head(q[c]) \in Item
         /\ Head(q[c]).slot \in Slots
         /\ ItemOK(c, Head(q[c]), r.slots[Head(q[c]).slot], px[Head(q[c]).slot])
         /\ Head(q[c]).slot \notin gone
         /\ RingOK(r, Taken(q, c), px, gone)
         /\ Absent(Taken(q, c), Head(q[c]).slot)
         /\ \A s : Present(q, s) => s = Head(q[c]).slot \/ Present(Taken(q, c), s)
<1> DEFINE h == Head(q[c])
           n == Taken(q, c)
<1>1. /\ h \in Item
      /\ h \in Range(q[c])
      /\ QueueOK(n)
      /\ Absent(n, h.slot)
      /\ \A d \in Chan : Range(n[d]) \subseteq Range(q[d])
      /\ \A s : Present(q, s) => s = h.slot \/ Present(n, s)
  BY TakenItems DEF RingOK
<1> HIDE DEF h, n
<1>2. h.slot \in Slots
  BY <1>1 DEF Item
<1>3. ItemOK(c, h, r.slots[h.slot], px[h.slot])
  BY <1>1 DEF RingOK, ItemsOK
<1>4. h.slot \notin gone
  BY <1>1 DEF RingOK, Absent
<1>5. ItemsOK(r, n, px)
  BY <1>1 DEF RingOK, ItemsOK
<1>6. \A s \in gone : s \in Slots /\ Absent(n, s) /\ r.slots[s].state # "free"
  BY <1>1 DEF RingOK, Absent
<1>7. RingOK(r, n, px, gone)
  BY <1>1, <1>5, <1>6 DEF RingOK
<1> QED BY <1>1, <1>2, <1>3, <1>4, <1>7 DEF h, n

\* The registry and the pixels may change at a slot that is in no channel.
LEMMA ChangedRing ==
  ASSUME NEW r, NEW q, NEW px, NEW gone, RingOK(r, q, px, gone),
         NEW s \in Slots, Absent(q, s), s \notin gone,
         NEW r2, RegistryOK(r2), NoDumps(r2),
         \A t \in Slots : t # s => r2.slots[t] = r.slots[t],
         NEW px2 \in [Slots -> Captures \cup {None}],
         \A t \in Slots : t # s => px2[t] = px[t]
  PROVE  RingOK(r2, q, px2, gone)
<1>1. ASSUME NEW c \in Chan, NEW x \in Range(q[c])
      PROVE  ItemOK(c, x, r2.slots[x.slot], px2[x.slot])
  <2>1. x.slot # s
    BY DEF Absent
  <2>2. x \in Item
    BY DEF RingOK, QueueOK, Range
  <2>3. x.slot \in Slots
    BY <2>2 DEF Item
  <2>4. ItemOK(c, x, r.slots[x.slot], px[x.slot])
    BY DEF RingOK, ItemsOK
  <2> QED BY <2>1, <2>3, <2>4
<1>2. ItemsOK(r2, q, px2)
  BY <1>1 DEF ItemsOK
<1> QED BY <1>2 DEF RingOK

\* An item for a slot in no channel may be put where it fits.
LEMMA PutRing ==
  ASSUME NEW r, NEW q, NEW px, NEW gone, RingOK(r, q, px, gone),
         NEW d \in Chan, NEW item \in Item, Absent(q, item.slot),
         item.slot \notin gone,
         ItemOK(d, item, r.slots[item.slot], px[item.slot])
  PROVE  /\ RingOK(r, Put(q, d, item), px, gone)
         /\ \A s : Present(q, s) => Present(Put(q, d, item), s)
         /\ Present(Put(q, d, item), item.slot)
<1> DEFINE n == Put(q, d, item)
<1>1. /\ QueueOK(n)
      /\ Range(n[d]) = Range(q[d]) \cup {item}
      /\ \A c \in Chan : c # d => Range(n[c]) = Range(q[c])
      /\ \A s : Present(q, s) => Present(n, s)
      /\ Present(n, item.slot)
  BY PutItems DEF RingOK
<1> HIDE DEF n
<1>2. ItemsOK(r, n, px)
  BY <1>1 DEF RingOK, ItemsOK
<1>3. \A s \in gone : s \in Slots /\ Absent(n, s) /\ r.slots[s].state # "free"
  BY <1>1 DEF RingOK, Absent
<1>4. RingOK(r, n, px, gone)
  BY <1>1, <1>2, <1>3 DEF RingOK
<1> QED BY <1>1, <1>4 DEF n

\* A slot in no channel may be given up.
LEMMA GoneRing ==
  ASSUME NEW r, NEW q, NEW px, NEW gone, RingOK(r, q, px, gone),
         NEW s \in Slots, Absent(q, s), r.slots[s].state # "free"
  PROVE  RingOK(r, q, px, gone \cup {s})
BY DEF RingOK

\* A free slot is in no channel: every item's slot is in use.
LEMMA FreeAbsent ==
  ASSUME NEW r, NEW q, NEW px, NEW gone, RingOK(r, q, px, gone),
         NEW s \in Slots, r.slots[s].state = "free"
  PROVE  Absent(q, s)
<1> SUFFICES ASSUME NEW c \in Chan, NEW x \in Range(q[c]), x.slot = s
             PROVE  FALSE
  BY DEF Absent
<1>1. r.slots[s].state = StageOf(c)
  BY DEF RingOK, ItemsOK, ItemOK
<1> QED BY <1>1, Stages

\* One item from c to d, while its slot's record and pixels change.
LEMMA StepRing ==
  ASSUME NEW r, NEW q, NEW px, NEW gone, RingOK(r, q, px, gone),
         NEW c \in Chan, NEW d \in Chan, q[c] # << >>,
         NEW item \in Item, item.slot = Head(q[c]).slot,
         NEW r2, RegistryOK(r2), NoDumps(r2),
         \A t \in Slots : t # item.slot => r2.slots[t] = r.slots[t],
         NEW px2 \in [Slots -> Captures \cup {None}],
         \A t \in Slots : t # item.slot => px2[t] = px[t],
         ItemOK(d, item, r2.slots[item.slot], px2[item.slot])
  PROVE  /\ RingOK(r2, Put(Taken(q, c), d, item), px2, gone)
         /\ \A s : Present(q, s) => Present(Put(Taken(q, c), d, item), s)
<1> DEFINE n == Taken(q, c)
<1>1. /\ item.slot \in Slots
      /\ item.slot \notin gone
      /\ RingOK(r, n, px, gone)
      /\ Absent(n, item.slot)
      /\ \A s : Present(q, s) => s = item.slot \/ Present(n, s)
  BY TakenRing
<1> HIDE DEF n
<1>2. RingOK(r2, n, px2, gone)
  BY <1>1, ChangedRing
<1>3. /\ RingOK(r2, Put(n, d, item), px2, gone)
      /\ \A s : Present(n, s) => Present(Put(n, d, item), s)
      /\ Present(Put(n, d, item), item.slot)
  BY <1>1, <1>2, PutRing
<1> QED BY <1>1, <1>3 DEF n

\* One item from c to d, nothing else changing.
LEMMA MovedRing ==
  ASSUME NEW r, NEW q, NEW px, NEW gone, RingOK(r, q, px, gone),
         NEW c \in Chan, NEW d \in Chan, q[c] # << >>,
         NEW item \in Item, item.slot = Head(q[c]).slot,
         ItemOK(d, item, r.slots[item.slot], px[item.slot])
  PROVE  /\ RingOK(r, Put(Taken(q, c), d, item), px, gone)
         /\ \A s : Present(q, s) => Present(Put(Taken(q, c), d, item), s)
<1>1. /\ RegistryOK(r)
      /\ NoDumps(r)
      /\ px \in [Slots -> Captures \cup {None}]
  BY DEF RingOK
<1> QED BY <1>1, StepRing

\* The only free slot s goes out as a token under its new generation.
LEMMA HandedOutRing ==
  ASSUME NEW r, NEW q, NEW px, NEW gone, RingOK(r, q, px, gone),
         NEW s, r.free = << s >>,
         \A t \in Slots : t \in gone \/ Present(q, t) \/ t = s,
         NEW r2, r2 = Allocated(r, "grab"),
         NEW q2, q2 = Put(q, SlotQueue, Token(s, r.slots[s].generation + 1))
  PROVE  /\ RingOK(r2, q2, px, gone)
         /\ \A t \in Slots : t \in gone \/ Present(q2, t)
         /\ r2.free = << >>
         /\ s \in Slots
         /\ \A t \in Slots : t # s => r2.slots[t] = r.slots[t]
         /\ r2.slots[s].state = "filling" /\ r2.slots[s].capture = None
<1> DEFINE item == Token(s, r.slots[s].generation + 1)
<1>0. r.free # << >> /\ Head(r.free) = s /\ Tail(r.free) = << >> /\ Range(r.free) = {s}
  BY DEF Range
<1>1. "grab" \in Writers
  BY WritersAssumption
<1>2. /\ RegistryOK(r)
      /\ NoDumps(r)
      /\ r.slots \in [Slots -> SlotRecord]
      /\ px \in [Slots -> Captures \cup {None}]
  BY DEF RingOK, RegistryOK, WellFormed
<1>3. /\ s \in Slots
      /\ r.slots[s].state = "free"
      /\ RegistryOK(r2)
  BY <1>0, <1>1, <1>2, AllocatedOK
<1>4. /\ r2.slots = [r.slots EXCEPT ![s] = Bare(r.slots[s].generation + 1, "filling", "grab")]
      /\ r2.free = << >>
  BY <1>0 DEF Allocated
<1>5. /\ \A t \in Slots : t # s => r2.slots[t] = r.slots[t]
      /\ r2.slots[s] = Bare(r.slots[s].generation + 1, "filling", "grab")
  BY <1>2, <1>3, <1>4
<1>6. NoDumps(r2)
  BY <1>2, <1>5 DEF NoDumps, Bare
<1>7. Absent(q, s) /\ s \notin gone
  BY <1>3, FreeAbsent DEF RingOK
<1>8. RingOK(r2, q, px, gone)
  BY <1>2, <1>3, <1>5, <1>6, <1>7, ChangedRing
<1>9. r.slots[s].generation + 1 \in Nat
  BY <1>2, <1>3 DEF SlotRecord
<1>10. /\ item \in Item
       /\ item.slot = s
       /\ item.generation = r.slots[s].generation + 1
  BY <1>3, <1>9 DEF Token, Item
<1>11. ItemOK(SlotQueue, item, r2.slots[s], px[s])
  <2>1. /\ StageOf(SlotQueue) = "filling"
        /\ SlotQueue \in Early
        /\ SlotQueue \notin PrepSide \cup DecodeSide
        /\ SlotQueue \notin FrameChannels
        /\ SlotQueue \notin {Results, Answering}
        /\ \A w \in Workers : SlotQueue \notin {Assignments(w), Decoding(w)}
    BY GrabChannels, SidesDisjoint, Stages, DecodeChannels, ChannelsDistinct
       DEF Early, FrameChannels
  <2> HIDE DEF item
  <2> QED BY <1>5, <1>10, <2>1 DEF ItemOK, Bare
<1> HIDE DEF item
<1>12. /\ RingOK(r2, q2, px, gone)
       /\ \A t : Present(q, t) => Present(q2, t)
       /\ Present(q2, s)
  BY <1>7, <1>8, <1>10, <1>11, GrabChannels, PutRing DEF item
<1>13. \A t \in Slots : t \in gone \/ Present(q2, t)
  BY <1>12
<1>14. r2.slots[s].state = "filling" /\ r2.slots[s].capture = None
  BY <1>5 DEF Bare
<1> QED BY <1>3, <1>4, <1>5, <1>12, <1>13, <1>14

-----------------------------------------------------------------------------
(* What the invariant says of an item, channel by channel.                   *)

\* The grab side: the current generation, filling, pixels written at the end.
LEMMA GrabItem ==
  ASSUME NEW c \in GrabSide, NEW x, NEW slot, NEW shown
  PROVE  ItemOK(c, x, slot, shown) <=>
           /\ x.generation = slot.generation
           /\ slot.state = "filling"
           /\ c \notin Early => x.capture \in Captures
           /\ c = GrabEvents => shown = x.capture
<1>1. /\ StageOf(c) = "filling"
      /\ c \notin PrepSide \cup DecodeSide
      /\ c \notin {Results, Answering}
      /\ \A w \in Workers : c \notin {Assignments(w), Decoding(w)}
      /\ c \in FrameChannels <=> c = GrabEvents
  BY Stages, SidesDisjoint, DecodeChannels DEF FrameChannels
<1> QED BY <1>1 DEF ItemOK

\* The prep side: the current generation, filled, with the capture named.
LEMMA PrepItem ==
  ASSUME NEW c \in PrepSide, NEW x, NEW slot, NEW shown
  PROVE  ItemOK(c, x, slot, shown) <=>
           /\ x.generation = slot.generation
           /\ slot.state = "filled"
           /\ x.capture \in Captures
           /\ slot.capture = x.capture
           /\ shown = x.capture
<1>1. /\ StageOf(c) = "filled"
      /\ c \notin Early
      /\ c \notin {Results, Answering}
      /\ \A w \in Workers : c \notin {Assignments(w), Decoding(w)}
      /\ c \in FrameChannels
  BY Stages, SidesDisjoint, DecodeChannels, GrabChannels DEF FrameChannels, Early
<1> QED BY <1>1 DEF ItemOK

\* The decode side: the current generation, in decode by that very worker.
LEMMA DecodeItem ==
  ASSUME NEW x, NEW slot, NEW shown
  PROVE  /\ \A w \in Workers : \A c \in {Assignments(w), Decoding(w)} :
              ItemOK(c, x, slot, shown) <=>
                /\ x.generation = slot.generation
                /\ slot.state = "in_decode"
                /\ x.capture \in Captures
                /\ slot.capture = x.capture
                /\ shown = x.capture
                /\ slot.decoder = w
         /\ \A c \in {Results, Answering} :
              ItemOK(c, x, slot, shown) <=>
                /\ x.generation = slot.generation
                /\ slot.state = "in_decode"
                /\ x.capture \in Captures
                /\ slot.capture = x.capture
                /\ shown = x.capture
                /\ slot.decoder = x.worker
<1>1. \A c \in DecodeSide : /\ StageOf(c) = "in_decode"
                            /\ c \notin Early
                            /\ c \in FrameChannels
  BY Stages, SidesDisjoint, GrabChannels DEF FrameChannels, Early
<1>2. ASSUME NEW w \in Workers, NEW c \in {Assignments(w), Decoding(w)}
      PROVE  /\ c \in DecodeSide
             /\ c \notin {Results, Answering}
             /\ \A v \in Workers : c \in {Assignments(v), Decoding(v)} => v = w
  BY DecodeChannels, ChannelsDistinct
<1>3. ASSUME NEW c \in {Results, Answering}
      PROVE  /\ c \in DecodeSide
             /\ \A w \in Workers : c \notin {Assignments(w), Decoding(w)}
  BY DecodeChannels, ChannelsDistinct
<1>4. ASSUME NEW c \in {Results, Answering}
      PROVE  ItemOK(c, x, slot, shown) <=>
               /\ x.generation = slot.generation
               /\ slot.state = "in_decode"
               /\ x.capture \in Captures
               /\ slot.capture = x.capture
               /\ shown = x.capture
               /\ slot.decoder = x.worker
  BY <1>1, <1>3 DEF ItemOK
<1>5. ASSUME NEW w \in Workers, NEW c \in {Assignments(w), Decoding(w)}
      PROVE  ItemOK(c, x, slot, shown) <=>
               /\ x.generation = slot.generation
               /\ slot.state = "in_decode"
               /\ x.capture \in Captures
               /\ slot.capture = x.capture
               /\ shown = x.capture
               /\ slot.decoder = w
  BY <1>1, <1>2 DEF ItemOK
<1> QED BY <1>4, <1>5

-----------------------------------------------------------------------------
(* The steps that only carry an item on.                                     *)

\* An item carried on without any change to its slot.
LEMMA CarryOK ==
  ASSUME IInv, NEW c \in Chan, NEW d \in Chan, HasItem(c),
         NEW item \in Item, item.slot = Head(queue[c]).slot,
         ItemOK(d, item, registry.slots[item.slot], pixels[item.slot]),
         queue' = Moved(c, d, item), captureIndex' \in Nat,
         UNCHANGED <<registry, pixels, nextWorker, leaked, lost, decoded,
                     deadCopiers, stopped, lastTurn>>
  PROVE  IInv'
<1>1. /\ RingOK(registry, queue', pixels, leaked \cup lost)
      /\ \A s : Present(queue, s) => Present(queue', s)
  BY MovedRing DEF IInv, Moved, HasItem
<1>2. AllAccounted(registry, queue', leaked \cup lost, stopped)
  BY <1>1 DEF IInv, AllAccounted
<1> QED BY <1>1, <1>2 DEF IInv

\* What is known of the item at the head of a channel.
LEMMA HeadOK ==
  ASSUME IInv, NEW c \in Chan, HasItem(c)
  PROVE  /\ Head(queue[c]) \in Item
         /\ Head(queue[c]).slot \in Slots
         /\ Head(queue[c]).slot \notin leaked \cup lost
         /\ ItemOK(c, Head(queue[c]), registry.slots[Head(queue[c]).slot],
                   pixels[Head(queue[c]).slot])
BY TakenRing DEF IInv, HasItem

\* Carrying an item unchanged between two channels of like demands.
LEMMA MoveOK ==
  ASSUME IInv, NEW c \in Chan, NEW d \in Chan, HasItem(c), Move(c, d),
         \A x, slot, shown : ItemOK(c, x, slot, shown) => ItemOK(d, x, slot, shown),
         UNCHANGED <<registry, pixels, captureIndex, nextWorker, leaked, lost,
                     decoded, deadCopiers, stopped, lastTurn>>
  PROVE  IInv'
<1> DEFINE item == Head(queue[c])
<1>1. /\ item \in Item
      /\ ItemOK(c, item, registry.slots[item.slot], pixels[item.slot])
  BY HeadOK
<1>2. queue' = Moved(c, d, item)
  BY DEF Move
<1>3. captureIndex' \in Nat
  BY DEF IInv
<1> HIDE DEF item
<1>4. ItemOK(d, item, registry.slots[item.slot], pixels[item.slot])
  BY <1>1
<1> QED BY <1>1, <1>2, <1>3, <1>4, CarryOK DEF item

\* A handler carries an item on and changes the slot's record or pixels.
LEMMA StepOK ==
  ASSUME IInv, NEW c \in Chan, NEW d \in Chan, HasItem(c),
         NEW item \in Item, item.slot = Head(queue[c]).slot,
         queue' = Put(Taken(queue, c), d, item),
         RegistryOK(registry'), NoDumps(registry'), registry'.free = registry.free,
         \A t \in Slots : t # item.slot => registry'.slots[t] = registry.slots[t],
         pixels' \in [Slots -> Captures \cup {None}],
         \A t \in Slots : t # item.slot => pixels'[t] = pixels[t],
         ItemOK(d, item, registry'.slots[item.slot], pixels'[item.slot]),
         nextWorker' \in Workers, lastTurn' \subseteq {"grab", "prep", "decode"},
         UNCHANGED <<captureIndex, leaked, lost, decoded, deadCopiers, stopped>>
  PROVE  IInv'
<1> DEFINE gone == leaked \cup lost
           r2 == registry'
           px2 == pixels'
<1>1. RingOK(registry, queue, pixels, gone) /\ queue[c] # << >>
  BY DEF IInv, HasItem
<1>2. /\ RegistryOK(r2) /\ NoDumps(r2)
      /\ \A t \in Slots : t # item.slot => r2.slots[t] = registry.slots[t]
      /\ px2 \in [Slots -> Captures \cup {None}]
      /\ \A t \in Slots : t # item.slot => px2[t] = pixels[t]
      /\ ItemOK(d, item, r2.slots[item.slot], px2[item.slot])
  OBVIOUS
<1>3. AllAccounted(registry, queue, gone, stopped)
  BY DEF IInv
<1> HIDE DEF r2, px2, gone
<1>4. /\ RingOK(r2, queue', px2, gone)
      /\ \A s : Present(queue, s) => Present(queue', s)
  BY <1>1, <1>2, StepRing
<1>5. r2.free = registry.free
  BY DEF r2
<1>6. AllAccounted(r2, queue', gone, stopped)
  BY <1>3, <1>4, <1>5 DEF AllAccounted
<1>7. /\ RingOK(registry', queue', pixels', leaked' \cup lost')
      /\ AllAccounted(registry', queue', leaked' \cup lost', stopped')
  BY <1>4, <1>6 DEF r2, px2, gone
<1> QED BY <1>5, <1>7 DEF IInv, r2

\* The bridge thread carries a token to the grab thread.
LEMMA BridgeOK == ASSUME IInv, Bridge PROVE IInv'
<1>1. \A x, slot, shown : ItemOK(SlotQueue, x, slot, shown) => ItemOK(LocalSlots, x, slot, shown)
  BY GrabItem, GrabChannels, ChannelsDistinct DEF Early
<1> QED BY <1>1, MoveOK, GrabChannels DEF Bridge, coordinatorVars

\* The grab thread hands a capture to the copy workers.
LEMMA EnqueueCopyOK == ASSUME IInv, EnqueueCopy PROVE IInv'
<1>1. \A x, slot, shown : ItemOK(GrabHand, x, slot, shown) => ItemOK(CopyQueue, x, slot, shown)
  BY GrabItem, GrabChannels, ChannelsDistinct
<1> QED BY <1>1, MoveOK, GrabChannels DEF EnqueueCopy, coordinatorVars

\* The grab thread takes a token and captures the next frame for it.
LEMMA GrabOK == ASSUME IInv, Grab PROVE IInv'
<1> DEFINE h == Head(queue[LocalSlots])
           item == [h EXCEPT !.capture = captureIndex]
<1>1. /\ LocalSlots \in Chan /\ LocalSlots \in GrabSide
      /\ GrabHand \in Chan /\ GrabHand \in GrabSide
      /\ GrabHand \notin Early /\ GrabHand # GrabEvents
      /\ HasItem(LocalSlots)
  BY GrabChannels, ChannelsDistinct DEF Grab
<1>2. /\ h \in Item
      /\ ItemOK(LocalSlots, h, registry.slots[h.slot], pixels[h.slot])
  BY <1>1, HeadOK
<1>3. captureIndex \in Captures /\ captureIndex \in Nat
  BY DEF Grab, IInv
<1>4. item \in Item /\ item.slot = h.slot /\ item.generation = h.generation
      /\ item.capture = captureIndex
  BY <1>2, <1>3 DEF Item
<1>5. queue' = Moved(LocalSlots, GrabHand, item) /\ captureIndex' = captureIndex + 1
  BY DEF Grab
<1>6. UNCHANGED <<registry, pixels, nextWorker, leaked, lost, decoded, deadCopiers,
                  stopped, lastTurn>>
  BY DEF Grab, coordinatorVars
<1> HIDE DEF item
<1>7. ItemOK(GrabHand, item, registry.slots[item.slot], pixels[item.slot])
  BY <1>1, <1>2, <1>3, <1>4, GrabItem
<1>8. captureIndex' \in Nat
  BY <1>3, <1>5
<1>9. item.slot = Head(queue[LocalSlots]).slot
  BY <1>4
<1> HIDE DEF h
<1> QED BY <1>1, <1>4, <1>5, <1>6, <1>7, <1>8, <1>9, CarryOK

\* The blocking put to the prep process carries the item on.
LEMMA SubmitOK == ASSUME IInv, Submit PROVE IInv'
<1>1. \A x, slot, shown : ItemOK(Submitting, x, slot, shown) => ItemOK(PrepIn, x, slot, shown)
  BY PrepItem, PrepChannels
<1> QED BY <1>1, MoveOK, PrepChannels DEF Submit, prepVars

\* Prep takes the oldest submitted item.
LEMMA StartPrepOK == ASSUME IInv, StartPrep PROVE IInv'
<1>1. \A x, slot, shown : ItemOK(PrepIn, x, slot, shown) => ItemOK(Prepping, x, slot, shown)
  BY PrepItem, PrepChannels
<1>2. PrepIn \in Chan /\ Prepping \in Chan
  BY PrepChannels
<1> QED BY <1>1, <1>2, MoveOK DEF StartPrep, prepVars

\* Prep returns the item with its fingerprint.
LEMMA EndPrepOK == ASSUME IInv, EndPrep PROVE IInv'
<1>1. \A x, slot, shown : ItemOK(Prepping, x, slot, shown) => ItemOK(PrepOut, x, slot, shown)
  BY PrepItem, PrepChannels
<1>2. PrepOut \in Chan /\ Prepping \in Chan
  BY PrepChannels
<1> QED BY <1>1, <1>2, MoveOK DEF EndPrep, prepVars

\* A worker takes its oldest assignment.
LEMMA StartDecodeOK == ASSUME IInv, NEW w \in Workers, StartDecode(w) PROVE IInv'
<1>1. \A x, slot, shown :
        ItemOK(Assignments(w), x, slot, shown) => ItemOK(Decoding(w), x, slot, shown)
  BY DecodeItem
<1>2. Assignments(w) \in Chan /\ Decoding(w) \in Chan
  BY DecodeChannels
<1> QED BY <1>1, <1>2, MoveOK DEF StartDecode, prepVars

\* A worker returns the item signed with its number.
LEMMA EndDecodeOK == ASSUME IInv, NEW w \in Workers, EndDecode(w) PROVE IInv'
<1> DEFINE h == Head(queue[Decoding(w)])
           item == [h EXCEPT !.worker = w]
<1>1. Decoding(w) \in Chan /\ Results \in Chan /\ HasItem(Decoding(w))
  BY DecodeChannels DEF EndDecode
<1>2. /\ h \in Item
      /\ ItemOK(Decoding(w), h, registry.slots[h.slot], pixels[h.slot])
  BY <1>1, HeadOK
<1>3. /\ item \in Item
      /\ item.slot = h.slot
      /\ item.generation = h.generation
      /\ item.capture = h.capture
      /\ item.worker = w
  BY <1>2 DEF Item
<1>4. queue' = Moved(Decoding(w), Results, item)
  BY DEF EndDecode
<1>5. UNCHANGED <<registry, pixels, captureIndex, nextWorker, leaked, lost, decoded,
                  deadCopiers, stopped, lastTurn>>
  BY DEF EndDecode, prepVars
<1> HIDE DEF item
<1>6. ItemOK(Results, item, registry.slots[item.slot], pixels[item.slot])
  BY <1>2, <1>3, DecodeItem
<1>7. item.slot = Head(queue[Decoding(w)]).slot
  BY <1>3
<1>8. captureIndex' \in Nat
  BY <1>5 DEF IInv
<1> HIDE DEF h
<1> QED BY <1>1, <1>3, <1>4, <1>5, <1>6, <1>7, <1>8, CarryOK

\* The coordinator takes the oldest result.
LEMMA FetchDecodeResultOK == ASSUME IInv, FetchDecodeResult PROVE IInv'
<1> DEFINE item == Head(queue[Results])
<1>1. /\ Results \in Chan /\ Answering \in Chan /\ HasItem(Results)
      /\ queue' = Moved(Results, Answering, item)
  BY DecodeChannels DEF FetchDecodeResult, Move
<1>2. /\ item \in Item
      /\ ItemOK(Results, item, registry.slots[item.slot], pixels[item.slot])
  BY <1>1, HeadOK
<1>3. UNCHANGED <<registry, pixels, captureIndex, nextWorker, leaked, lost, decoded,
                  deadCopiers, stopped>>
  BY DEF FetchDecodeResult
<1>4. lastTurn' \subseteq {"grab", "prep", "decode"}
  BY DEF FetchDecodeResult, TurnTaken, IInv
<1>5. item.slot = Head(queue[Results]).slot
  OBVIOUS
<1> HIDE DEF item
<1>6. ItemOK(Answering, item, registry.slots[item.slot], pixels[item.slot])
  BY <1>2, DecodeItem
<1>7. /\ RingOK(registry, queue', pixels, leaked \cup lost)
      /\ \A s : Present(queue, s) => Present(queue', s)
  BY <1>1, <1>2, <1>5, <1>6, MovedRing DEF IInv, Moved, HasItem
<1>8. AllAccounted(registry, queue', leaked \cup lost, stopped)
  BY <1>7 DEF IInv, AllAccounted
<1> QED BY <1>3, <1>4, <1>7, <1>8 DEF IInv

-----------------------------------------------------------------------------
(* The copies.                                                               *)

\* A copy begins: the pixels of the slot are torn until it ends.
LEMMA BeginCopyOK ==
  ASSUME IInv, NEW k \in Copiers, NEW source \in {GrabHand, CopyQueue},
         BeginCopy(k, source)
  PROVE  IInv'
<1> DEFINE item == Head(queue[source])
<1>1. /\ source \in GrabSide /\ source \in Chan /\ source \notin Early
      /\ Copying(k) \in GrabSide /\ Copying(k) \in Chan
      /\ Copying(k) \notin Early /\ Copying(k) # GrabEvents
      /\ HasItem(source)
  BY GrabChannels, ChannelsDistinct DEF BeginCopy
<1>2. /\ item \in Item
      /\ item.slot \in Slots
      /\ ItemOK(source, item, registry.slots[item.slot], pixels[item.slot])
  BY <1>1, HeadOK
<1>3. /\ queue' = Put(Taken(queue, source), Copying(k), item)
      /\ pixels' = [pixels EXCEPT ![item.slot] = None]
      /\ UNCHANGED <<registry, captureIndex, nextWorker, leaked, lost, decoded,
                     deadCopiers, stopped, lastTurn>>
  BY DEF BeginCopy, Move, Moved, coordinatorVars
<1> HIDE DEF item
<1>4. /\ RegistryOK(registry)
      /\ NoDumps(registry)
      /\ pixels \in [Slots -> Captures \cup {None}]
  BY DEF IInv, RingOK
<1>5. /\ pixels' \in [Slots -> Captures \cup {None}]
      /\ \A t \in Slots : t # item.slot => pixels'[t] = pixels[t]
  BY <1>3, <1>4
<1>6. ItemOK(Copying(k), item, registry.slots[item.slot], pixels'[item.slot])
  BY <1>1, <1>2, GrabItem
<1>7. /\ item.slot = Head(queue[source]).slot
      /\ nextWorker' \in Workers /\ lastTurn' \subseteq {"grab", "prep", "decode"}
  BY <1>3 DEF IInv, item
<1> QED BY <1>1, <1>2, <1>3, <1>4, <1>5, <1>6, <1>7, StepOK

\* A copy ends: the pixels are the capture's, and the coordinator is told.
LEMMA EndCopyOK == ASSUME IInv, NEW k \in Copiers, EndCopy(k) PROVE IInv'
<1> DEFINE item == Head(queue[Copying(k)])
<1>1. /\ Copying(k) \in GrabSide /\ Copying(k) \in Chan /\ Copying(k) \notin Early
      /\ GrabEvents \in GrabSide /\ GrabEvents \in Chan /\ GrabEvents \notin Early
      /\ HasItem(Copying(k))
  BY GrabChannels, ChannelsDistinct DEF EndCopy
<1>2. /\ item \in Item
      /\ item.slot \in Slots
      /\ ItemOK(Copying(k), item, registry.slots[item.slot], pixels[item.slot])
  BY <1>1, HeadOK
<1>3. /\ queue' = Put(Taken(queue, Copying(k)), GrabEvents, item)
      /\ pixels' = [pixels EXCEPT ![item.slot] = item.capture]
      /\ UNCHANGED <<registry, captureIndex, nextWorker, leaked, lost, decoded,
                     deadCopiers, stopped, lastTurn>>
  BY DEF EndCopy, Move, Moved, coordinatorVars
<1> HIDE DEF item
<1>4. /\ RegistryOK(registry)
      /\ NoDumps(registry)
      /\ pixels \in [Slots -> Captures \cup {None}]
  BY DEF IInv, RingOK
<1>5. /\ item.capture \in Captures
      /\ item.generation = registry.slots[item.slot].generation
      /\ registry.slots[item.slot].state = "filling"
  BY <1>1, <1>2, GrabItem
<1>6. /\ pixels' \in [Slots -> Captures \cup {None}]
      /\ \A t \in Slots : t # item.slot => pixels'[t] = pixels[t]
      /\ pixels'[item.slot] = item.capture
  BY <1>2, <1>3, <1>4, <1>5
<1>7. ItemOK(GrabEvents, item, registry.slots[item.slot], pixels'[item.slot])
  BY <1>1, <1>5, <1>6, GrabItem
<1>8. /\ item.slot = Head(queue[Copying(k)]).slot
      /\ nextWorker' \in Workers /\ lastTurn' \subseteq {"grab", "prep", "decode"}
  BY <1>3 DEF IInv, item
<1> QED BY <1>1, <1>2, <1>3, <1>4, <1>6, <1>7, <1>8, StepOK

\* A copy worker dies, and the token it had with it.
LEMMA CopyRaisesOK == ASSUME IInv, NEW k \in CopyWorkers, CopyRaises(k) PROVE IInv'
<1> DEFINE s == Head(queue[Copying(k)]).slot
           gone == leaked \cup lost
<1>1. Copying(k) \in GrabSide /\ Copying(k) \in Chan /\ queue[Copying(k)] # << >>
  BY GrabChannels DEF CopyRaises, Copiers, HasItem
<1>2. RingOK(registry, queue, pixels, gone)
  BY DEF IInv
<1>3. /\ s \in Slots
      /\ ItemOK(Copying(k), Head(queue[Copying(k)]), registry.slots[s], pixels[s])
      /\ RingOK(registry, Taken(queue, Copying(k)), pixels, gone)
      /\ Absent(Taken(queue, Copying(k)), s)
      /\ \A t : Present(queue, t) => t = s \/ Present(Taken(queue, Copying(k)), t)
  BY <1>1, <1>2, TakenRing
<1>4. /\ queue' = Taken(queue, Copying(k))
      /\ lost' = lost \cup {s}
      /\ deadCopiers' = deadCopiers \cup {k}
      /\ UNCHANGED <<registry, pixels, captureIndex, nextWorker, leaked, decoded,
                     stopped, lastTurn>>
  BY DEF CopyRaises, coordinatorVars
<1>5. registry.slots[s].state # "free"
  BY <1>1, <1>3, GrabItem
<1> HIDE DEF s
<1>6. RingOK(registry, queue', pixels, gone \cup {s})
  BY <1>3, <1>4, <1>5, GoneRing
<1>7. leaked' \cup lost' = gone \cup {s}
  BY <1>4
<1>8. AllAccounted(registry, queue', gone \cup {s}, stopped)
  BY <1>3, <1>4 DEF IInv, AllAccounted
<1> QED BY <1>3, <1>4, <1>6, <1>7, <1>8 DEF IInv

-----------------------------------------------------------------------------
(* The coordinator's handlers.                                               *)

\* A filled frame is marked and goes to prep; no other slot changes.
LEMMA HandleGrabEventOK ==
  ASSUME IInv, HandleGrabEvent
  PROVE  /\ IInv'
         /\ HasItem(GrabEvents)
         /\ registry.slots[Head(queue[GrabEvents]).slot].state = "filling"
         /\ \A t \in Slots : t # Head(queue[GrabEvents]).slot =>
              registry'.slots[t] = registry.slots[t]
         /\ registry'.slots[Head(queue[GrabEvents]).slot].state = "filled"
         /\ registry'.slots[Head(queue[GrabEvents]).slot].capture =
              Head(queue[GrabEvents]).capture
         /\ \E d \in PrepSide :
              queue' = Moved(GrabEvents, d, Head(queue[GrabEvents]))
         /\ UNCHANGED <<captureIndex, leaked, lost, decoded, stopped>>
<1> DEFINE item == Head(queue[GrabEvents])
           slot == registry.slots[item.slot]
           next == IF AsyncPrep THEN PrepIn ELSE Submitting
<1>1. /\ GrabEvents \in GrabSide /\ GrabEvents \in Chan /\ GrabEvents \notin Early
      /\ next \in PrepSide /\ next \in Chan
      /\ HasItem(GrabEvents)
  BY GrabChannels, PrepChannels, ChannelsDistinct DEF HandleGrabEvent
<1>2. /\ item \in Item
      /\ item.slot \in Slots
      /\ ItemOK(GrabEvents, item, slot, pixels[item.slot])
  BY <1>1, HeadOK
<1>3. /\ item.generation = slot.generation
      /\ slot.state = "filling"
      /\ item.capture \in Captures
      /\ pixels[item.slot] = item.capture
  BY <1>1, <1>2, GrabItem
<1>4. /\ RegistryOK(registry)
      /\ NoDumps(registry)
      /\ registry.slots \in [Slots -> SlotRecord]
      /\ pixels \in [Slots -> Captures \cup {None}]
  BY DEF IInv, RingOK, RegistryOK, WellFormed
<1>5. slot.writer = "grab"
  <2>1. slot \in SlotRecord /\ SlotOK(slot)
    BY <1>2, <1>4 DEF RegistryOK
  <2>2. slot.writer \in {"grab"} \cup {None} /\ slot.writer # None
    BY <1>3, <2>1, WritersAssumption DEF SlotRecord, SlotOK, SlotOwnersMatch
  <2> QED BY <2>2
<1>6. MayFill(registry, item.slot, item.generation, "grab")
  BY <1>3, <1>5 DEF MayFill, Matches
<1>7. /\ registry' = Filled(registry, item.slot, item.capture)
      /\ queue' = Put(Taken(queue, GrabEvents), next, item)
      /\ lastTurn' = lastTurn \ {"grab"}
      /\ UNCHANGED <<pixels, captureIndex, nextWorker, leaked, lost, decoded,
                     deadCopiers, stopped>>
  BY <1>6 DEF HandleGrabEvent, TurnTaken, Move, Moved
<1> DEFINE new == [slot EXCEPT !.state = "filled", !.writer = None,
                               !.capture = item.capture]
<1>8. /\ registry'.slots = [registry.slots EXCEPT ![item.slot] = new]
      /\ registry'.free = registry.free
  BY <1>7 DEF Filled, WithSlot
<1>9. /\ registry'.slots[item.slot] = new
      /\ \A t \in Slots : t # item.slot => registry'.slots[t] = registry.slots[t]
  BY <1>2, <1>4, <1>8
<1>10. /\ new.generation = slot.generation
       /\ new.state = "filled"
       /\ new.capture = item.capture
       /\ new.dumpRef = slot.dumpRef
  <2>1. slot \in SlotRecord
    BY <1>2, <1>4
  <2> HIDE DEF slot, item
  <2> QED BY <2>1 DEF SlotRecord
<1>11. "grab" \in Writers
  BY WritersAssumption
<1> HIDE DEF item, slot, next, new
<1>12. RegistryOK(registry')
  BY <1>2, <1>3, <1>4, <1>6, <1>7, <1>11, FilledOK
<1>13. NoDumps(registry')
  BY <1>2, <1>4, <1>9, <1>10 DEF NoDumps, slot
<1>14. ItemOK(next, item, registry'.slots[item.slot], pixels[item.slot])
  BY <1>1, <1>3, <1>9, <1>10, PrepItem
<1>15. /\ item.slot = Head(queue[GrabEvents]).slot
       /\ nextWorker' \in Workers /\ lastTurn' \subseteq {"grab", "prep", "decode"}
  BY <1>7 DEF IInv, item
<1>16. ItemOK(next, item, registry'.slots[item.slot], pixels'[item.slot])
       /\ pixels' \in [Slots -> Captures \cup {None}]
       /\ \A t \in Slots : pixels'[t] = pixels[t]
  BY <1>4, <1>7, <1>14
<1>17. IInv'
  BY <1>1, <1>2, <1>7, <1>8, <1>9, <1>12, <1>13, <1>15, <1>16, StepOK
<1>18. /\ HasItem(GrabEvents)
       /\ registry.slots[item.slot].state = "filling"
       /\ \A t \in Slots : t # item.slot => registry'.slots[t] = registry.slots[t]
       /\ registry'.slots[item.slot].state = "filled"
       /\ registry'.slots[item.slot].capture = item.capture
  BY <1>1, <1>3, <1>9, <1>10 DEF slot
<1>19. \E d \in PrepSide : queue' = Moved(GrabEvents, d, item)
  BY <1>1, <1>7 DEF Moved
<1> QED BY <1>7, <1>17, <1>18, <1>19 DEF item

\* A slot whose item was the head of c is released, and dispatched if it may be.
LEMMA ReturnOK ==
  ASSUME IInv, NEW c \in Chan, HasItem(c),
         Dispatched(Released(registry, Head(queue[c]).slot), Taken(queue, c)),
         UNCHANGED <<pixels, captureIndex, nextWorker, leaked, lost, deadCopiers>>,
         decoded' \subseteq Captures, stopped' \in BOOLEAN, stopped => stopped',
         lastTurn' \subseteq {"grab", "prep", "decode"}
  PROVE  /\ IInv'
         /\ \A t \in Slots : t # Head(queue[c]).slot =>
              registry'.slots[t] = registry.slots[t]
         /\ registry'.slots[Head(queue[c]).slot].state =
              IF stopped THEN "free" ELSE "filling"
         /\ registry'.slots[Head(queue[c]).slot].capture = None
<1> DEFINE s == Head(queue[c]).slot
           q == Taken(queue, c)
           r == Released(registry, s)
           gone == leaked \cup lost
<1>1. /\ s \in Slots
      /\ s \notin gone
      /\ RingOK(registry, q, pixels, gone)
      /\ Absent(q, s)
      /\ \A t : Present(queue, t) => t = s \/ Present(q, t)
  BY TakenRing DEF IInv, HasItem
<1>2. Dispatched(r, q)
  OBVIOUS
<1>3. /\ AllAccounted(registry, queue, gone, stopped)
      /\ ~stopped => registry.free = << >>
  BY DEF IInv
<1> HIDE DEF s, q
<1>4. /\ RegistryOK(registry)
      /\ NoDumps(registry)
      /\ registry.slots \in [Slots -> SlotRecord]
      /\ registry.free \in Seq(Slots)
      /\ Injective(registry.free)
      /\ pixels \in [Slots -> Captures \cup {None}]
  BY <1>1 DEF RingOK, RegistryOK, WellFormed, ListExact
<1>5. /\ RegistryOK(r)
      /\ \A t \in Slots : t # s => r.slots[t] = registry.slots[t]
      /\ r.slots[s] = Vacated(registry.slots[s])
      /\ r.free = Returned(registry.free, s)
      /\ Range(r.free) = Range(registry.free) \cup {s}
  BY <1>1, <1>4, ReleasedOK, ReturnedExact DEF Released
<1>6. NoDumps(r)
  BY <1>4, <1>5 DEF NoDumps, Vacated, Bare
<1> HIDE DEF r
<1>7. RingOK(r, q, pixels, gone)
  BY <1>1, <1>4, <1>5, <1>6, ChangedRing
<1>8. AllAccounted(r, q, gone, TRUE)
  BY <1>1, <1>3, <1>5 DEF AllAccounted
<1>9. CASE stopped
  <2>1. registry' = r /\ queue' = q
    BY <1>2, <1>9 DEF Dispatched
  <2>2. stopped' = TRUE
    BY <1>9
  <2>3. RingOK(registry', queue', pixels', leaked' \cup lost')
    BY <1>7, <2>1 DEF gone
  <2>4. AllAccounted(registry', queue', leaked' \cup lost', stopped')
    BY <1>8, <2>1, <2>2 DEF gone
  <2>5. IInv'
    BY <2>2, <2>3, <2>4 DEF IInv
  <2>6. registry'.slots[s].state = "free" /\ registry'.slots[s].capture = None
    BY <1>5, <2>1 DEF Vacated, Bare
  <2> QED BY <1>5, <1>9, <2>1, <2>5, <2>6 DEF s
<1>10. CASE ~stopped
  <2>1. r.free = << s >>
    <3>1. registry.free = << >> /\ Range(<< >>) = {}
      BY <1>3, <1>10 DEF Range
    <3>2. s \notin Range(<< >>)
      BY <3>1
    <3>3. Returned(<< >>, s) = Append(<< >>, s)
      BY <3>2 DEF Returned
    <3>4. Append(<< >>, s) = << s >>
      OBVIOUS
    <3> QED BY <1>5, <3>1, <3>3, <3>4
  <2>2. HandedOut(r, q)
    BY <1>2, <1>10, <2>1 DEF Dispatched
  <2>3. registry' = Allocated(r, "grab")
        /\ queue' = Put(q, SlotQueue, Token(s, r.slots[s].generation + 1))
    BY <2>1, <2>2 DEF HandedOut
  <2>4. \A t \in Slots : t \in gone \/ Present(q, t) \/ t = s
    BY <1>1, <1>3, <1>10 DEF AllAccounted
  <2> DEFINE r2 == registry'
             q2 == queue'
  <2>5. r2 = Allocated(r, "grab")
        /\ q2 = Put(q, SlotQueue, Token(s, r.slots[s].generation + 1))
    BY <2>3
  <2> HIDE DEF r2, q2, gone
  <2>6. /\ RingOK(r2, q2, pixels, gone)
        /\ \A t \in Slots : t \in gone \/ Present(q2, t)
        /\ r2.free = << >>
        /\ \A t \in Slots : t # s => r2.slots[t] = r.slots[t]
        /\ r2.slots[s].state = "filling" /\ r2.slots[s].capture = None
    BY <1>7, <2>1, <2>4, <2>5, HandedOutRing
  <2>7. AllAccounted(r2, q2, gone, stopped')
    BY <2>6 DEF AllAccounted
  <2>8. /\ RingOK(registry', queue', pixels', leaked' \cup lost')
        /\ AllAccounted(registry', queue', leaked' \cup lost', stopped')
        /\ registry'.free = << >>
        /\ \A t \in Slots : t # s => registry'.slots[t] = r.slots[t]
        /\ registry'.slots[s].state = "filling" /\ registry'.slots[s].capture = None
    BY <2>6, <2>7 DEF r2, q2, gone
  <2>9. IInv'
    BY <2>8 DEF IInv
  <2> QED BY <1>5, <1>10, <2>8, <2>9 DEF s
<1> QED BY <1>9, <1>10

\* A skipped or duplicate frame gives its slot back; no other slot changes.
LEMMA RejectFrameOK ==
  ASSUME IInv, RejectFrame
  PROVE  /\ IInv'
         /\ HasItem(PrepOut)
         /\ registry.slots[Head(queue[PrepOut]).slot].state = "filled"
         /\ \A t \in Slots : t # Head(queue[PrepOut]).slot =>
              registry'.slots[t] = registry.slots[t]
         /\ registry'.slots[Head(queue[PrepOut]).slot].state =
              IF stopped THEN "free" ELSE "filling"
         /\ registry'.slots[Head(queue[PrepOut]).slot].capture = None
<1>1. PrepOut \in PrepSide /\ PrepOut \in Chan /\ HasItem(PrepOut)
  BY PrepChannels DEF RejectFrame
<1> DEFINE item == Head(queue[PrepOut])
<1>2. ItemOK(PrepOut, item, registry.slots[item.slot], pixels[item.slot])
  BY <1>1, HeadOK
<1>3. /\ Matches(registry, item.slot, item.generation)
      /\ registry.slots[item.slot].state = "filled"
  BY <1>1, <1>2, PrepItem DEF Matches
<1>4. Dispatched(Released(registry, item.slot), Taken(queue, PrepOut))
  BY <1>3 DEF RejectFrame, ReleasedIfMatching
<1>5. /\ decoded' \subseteq Captures
      /\ stopped' \in BOOLEAN
      /\ stopped => stopped'
      /\ lastTurn' \subseteq {"grab", "prep", "decode"}
      /\ UNCHANGED <<pixels, captureIndex, nextWorker, leaked, lost, deadCopiers>>
  BY DEF RejectFrame, TurnTaken, IInv
<1> QED BY <1>1, <1>3, <1>4, <1>5, ReturnOK

\* A decoded frame gives its slot back; no other slot changes.
LEMMA HandleDecodeResultOK ==
  ASSUME IInv, HandleDecodeResult
  PROVE  /\ IInv'
         /\ HasItem(Answering)
         /\ registry.slots[Head(queue[Answering]).slot].state = "in_decode"
         /\ registry.slots[Head(queue[Answering]).slot].capture =
              Head(queue[Answering]).capture
         /\ Head(queue[Answering]).capture \in Captures
         /\ \A t \in Slots : t # Head(queue[Answering]).slot =>
              registry'.slots[t] = registry.slots[t]
         /\ registry'.slots[Head(queue[Answering]).slot].state =
              IF stopped THEN "free" ELSE "filling"
         /\ registry'.slots[Head(queue[Answering]).slot].capture = None
<1>1. Answering \in Chan /\ HasItem(Answering)
  BY DecodeChannels DEF HandleDecodeResult
<1> DEFINE item == Head(queue[Answering])
<1>2. /\ item.slot \in Slots
      /\ ItemOK(Answering, item, registry.slots[item.slot], pixels[item.slot])
  BY <1>1, HeadOK
<1>3. /\ item.generation = registry.slots[item.slot].generation
      /\ registry.slots[item.slot].decoder = item.worker
      /\ registry.slots[item.slot].dumpRef = 0
      /\ registry.slots[item.slot].state = "in_decode"
      /\ registry.slots[item.slot].capture = item.capture
      /\ item.capture \in Captures
  BY <1>2, DecodeItem DEF IInv, RingOK, NoDumps
<1>4. CompletedIfMatching(registry, item) = Released(registry, item.slot)
  BY <1>3 DEF CompletedIfMatching, MayComplete, Matches, Completed
<1>5. Dispatched(Released(registry, item.slot), Taken(queue, Answering))
  BY <1>4 DEF HandleDecodeResult
<1>6. /\ decoded' \subseteq Captures
      /\ UNCHANGED <<pixels, captureIndex, nextWorker, leaked, lost, deadCopiers>>
  BY <1>3 DEF HandleDecodeResult, IInv
<1>7. stopped' \in BOOLEAN /\ (stopped => stopped')
  <2>1. stopped' = stopped \/ stopped' = TRUE
    BY DEF HandleDecodeResult
  <2>2. stopped \in BOOLEAN
    BY DEF IInv
  <2>3. CASE stopped' = TRUE
    BY <2>3
  <2>4. CASE stopped' = stopped
    BY <2>2, <2>4, Zenon
  <2> QED BY <2>1, <2>3, <2>4, Zenon
<1>8. lastTurn' \subseteq {"grab", "prep", "decode"}
  <2>1. lastTurn' = {"grab", "prep"} \/ lastTurn' = lastTurn
    BY DEF HandleDecodeResult
  <2> QED BY <2>1 DEF IInv
<1> QED BY <1>1, <1>3, <1>5, <1>6, <1>7, <1>8, ReturnOK

\* stop() only sets the event.
LEMMA StopOK == ASSUME IInv, Stop PROVE IInv'
BY DEF IInv, Stop, RingOK, AllAccounted

\* The round robin stays among the workers.
LEMMA NextInTurnOK == \A w \in Workers : NextInTurn(w) \in Workers
<1>1. Cardinality(Workers) \in Nat
  BY WorkersAssumption, FS_CardinalityType
<1> DEFINE n == Cardinality(Workers)
<1>2. n \in Nat /\ Workers = 0 .. n - 1 /\ Workers # {}
  BY <1>1, WorkersAssumption
<1> HIDE DEF n
<1>3. \A w \in 0 .. n - 1 : (w + 1) % n \in 0 .. n - 1
  BY <1>2
<1> QED BY <1>2, <1>3 DEF NextInTurn, n

\* An accepted frame is assigned, or leaked when its queue is full; no other
\* slot changes.
LEMMA AcceptFrameOK ==
  ASSUME IInv, AcceptFrame
  PROVE  /\ IInv'
         /\ HasItem(PrepOut)
         /\ registry.slots[Head(queue[PrepOut]).slot].state = "filled"
         /\ \A t \in Slots : t # Head(queue[PrepOut]).slot =>
              registry'.slots[t] = registry.slots[t]
         /\ registry'.slots[Head(queue[PrepOut]).slot].state = "in_decode"
         /\ registry'.slots[Head(queue[PrepOut]).slot].capture =
              registry.slots[Head(queue[PrepOut]).slot].capture
         /\ \/ /\ \E d \in DecodeSide :
                    queue' = Moved(PrepOut, d, Head(queue[PrepOut]))
               /\ leaked' = leaked
            \/ /\ queue' = Taken(queue, PrepOut)
               /\ leaked' = leaked \cup {Head(queue[PrepOut]).slot}
         /\ UNCHANGED <<captureIndex, lost, decoded, stopped>>
<1> DEFINE item == Head(queue[PrepOut])
           slot == registry.slots[item.slot]
           w == nextWorker
           new == [slot EXCEPT !.state = "in_decode", !.decoder = w]
           r == Assigned(registry, item.slot, w)
<1>1. PrepOut \in PrepSide /\ PrepOut \in Chan /\ HasItem(PrepOut)
  BY PrepChannels DEF AcceptFrame
<1>2. /\ item \in Item
      /\ item.slot \in Slots
      /\ ItemOK(PrepOut, item, slot, pixels[item.slot])
  BY <1>1, HeadOK
<1>3. /\ item.generation = slot.generation
      /\ slot.state = "filled"
      /\ item.capture \in Captures
      /\ slot.capture = item.capture
      /\ pixels[item.slot] = item.capture
  BY <1>1, <1>2, PrepItem
<1>4. /\ w \in Workers
      /\ MayAssign(registry, item.slot, item.generation)
      /\ IsCurrent(registry, item.slot, item.generation)
  BY <1>3, NoneAssumption DEF IInv, MayAssign, IsCurrent, Matches
<1>5. AssignedIfPossible(registry, item, w) = r
  BY <1>4 DEF AssignedIfPossible
<1>6. /\ nextWorker' \in Workers
      /\ lastTurn' \subseteq {"grab", "prep", "decode"}
      /\ UNCHANGED <<pixels, captureIndex, lost, decoded, deadCopiers, stopped>>
      /\ \/ /\ queue' = Put(Taken(queue, PrepOut), Assignments(w), item)
            /\ registry' = r
            /\ leaked' = leaked
         \/ /\ queue' = Taken(queue, PrepOut)
            /\ registry' = r
            /\ leaked' = leaked \cup {item.slot}
  BY <1>4, <1>5, NextInTurnOK
     DEF AcceptFrame, TurnTaken, IInv, Move, Moved, DroppedAtFullQueue
<1>7. /\ RegistryOK(registry)
      /\ NoDumps(registry)
      /\ registry.slots \in [Slots -> SlotRecord]
      /\ pixels \in [Slots -> Captures \cup {None}]
      /\ RingOK(registry, queue, pixels, leaked \cup lost)
      /\ AllAccounted(registry, queue, leaked \cup lost, stopped)
      /\ slot \in SlotRecord
  BY <1>2 DEF IInv, RingOK, RegistryOK, WellFormed
<1>8. RegistryOK(r)
  BY <1>2, <1>4, <1>7, AssignedOK
<1>9. r.slots = [registry.slots EXCEPT ![item.slot] = new] /\ r.free = registry.free
  BY DEF Assigned, WithSlot
<1>10. /\ new.generation = slot.generation
       /\ new.state = "in_decode"
       /\ new.decoder = w
       /\ new.capture = slot.capture
       /\ new.dumpRef = slot.dumpRef
  <2> HIDE DEF slot, item, w
  <2> QED BY <1>7 DEF SlotRecord
<1> HIDE DEF new, r
<1>11. /\ r.slots[item.slot] = new
       /\ \A t \in Slots : t # item.slot => r.slots[t] = registry.slots[t]
  BY <1>2, <1>7, <1>9
<1>12. NoDumps(r)
  BY <1>2, <1>7, <1>10, <1>11 DEF NoDumps
<1>13. item.slot = Head(queue[PrepOut]).slot
  OBVIOUS
<1> HIDE DEF item, slot, w
<1>14. ASSUME /\ queue' = Put(Taken(queue, PrepOut), Assignments(w), item)
              /\ registry' = r
              /\ leaked' = leaked
       PROVE  IInv'
  <2>1. Assignments(w) \in Chan
    BY <1>4, DecodeChannels
  <2>2. ItemOK(Assignments(w), item, r.slots[item.slot], pixels[item.slot])
    BY <1>3, <1>4, <1>10, <1>11, DecodeItem
  <2>3. /\ RegistryOK(registry') /\ NoDumps(registry')
        /\ registry'.free = registry.free
        /\ \A t \in Slots : t # item.slot => registry'.slots[t] = registry.slots[t]
        /\ pixels' \in [Slots -> Captures \cup {None}]
        /\ \A t \in Slots : t # item.slot => pixels'[t] = pixels[t]
        /\ ItemOK(Assignments(w), item, registry'.slots[item.slot], pixels'[item.slot])
    BY <1>6, <1>7, <1>8, <1>9, <1>11, <1>12, <1>14, <2>2
  <2> QED BY <1>1, <1>2, <1>6, <1>13, <1>14, <2>1, <2>3, StepOK
<1>15. ASSUME /\ queue' = Taken(queue, PrepOut)
              /\ registry' = r
              /\ leaked' = leaked \cup {item.slot}
       PROVE  IInv'
  <2> DEFINE q == Taken(queue, PrepOut)
             gone == leaked \cup lost
  <2>1. /\ RingOK(registry, q, pixels, gone)
        /\ item.slot \notin gone
        /\ Absent(q, item.slot)
        /\ \A t : Present(queue, t) => t = item.slot \/ Present(q, t)
    BY <1>1, <1>7, <1>13, TakenRing DEF HasItem
  <2>2. AllAccounted(registry, queue, gone, stopped)
    BY <1>7
  <2>3. leaked' \cup lost' = gone \cup {item.slot}
    BY <1>6, <1>15
  <2> HIDE DEF q, gone
  <2>4. RingOK(r, q, pixels, gone)
    BY <1>2, <1>7, <1>8, <1>11, <1>12, <2>1, ChangedRing
  <2>5. RingOK(r, q, pixels, gone \cup {item.slot})
    BY <1>2, <1>10, <1>11, <2>1, <2>4, GoneRing
  <2>6. AllAccounted(r, q, gone \cup {item.slot}, stopped)
    BY <1>9, <2>1, <2>2 DEF AllAccounted
  <2>7. /\ RingOK(registry', queue', pixels', leaked' \cup lost')
        /\ AllAccounted(registry', queue', leaked' \cup lost', stopped')
    BY <1>6, <1>15, <2>3, <2>5, <2>6 DEF q
  <2> QED BY <1>2, <1>6, <1>9, <1>15, <2>7 DEF IInv
<1>16. IInv'
  BY <1>6, <1>14, <1>15
<1>17. /\ HasItem(PrepOut)
       /\ registry.slots[item.slot].state = "filled"
       /\ \A t \in Slots : t # item.slot => registry'.slots[t] = registry.slots[t]
       /\ registry'.slots[item.slot].state = "in_decode"
       /\ registry'.slots[item.slot].capture = registry.slots[item.slot].capture
  BY <1>1, <1>3, <1>6, <1>10, <1>11 DEF slot
<1>18. \/ /\ \E d \in DecodeSide : queue' = Moved(PrepOut, d, item)
          /\ leaked' = leaked
       \/ queue' = Taken(queue, PrepOut) /\ leaked' = leaked \cup {item.slot}
  <2>1. Assignments(w) \in DecodeSide
    BY <1>4, DecodeChannels
  <2> QED BY <1>6, <2>1 DEF Moved
<1> QED BY <1>6, <1>16, <1>17, <1>18 DEF item

-----------------------------------------------------------------------------
(* The invariant holds in every run.                                         *)

\* At the start every slot waits in the slot queue, as one token.
LEMMA PrimedOK ==
  ASSUME Init
  PROVE  /\ QueueOK(queue)
         /\ Range(queue[SlotQueue]) = {Token(s, 1) : s \in Slots}
         /\ \A c \in Chan : c # SlotQueue => Range(queue[c]) = {}
<1>1. PrimedTokens \in Seq(Item) /\ DOMAIN PrimedTokens = 1 .. SlotCount
  <2>1. \A i \in 1 .. SlotCount : Token(i - 1, 1) \in Item
    BY SlotCountAssumption DEF Token, Item, Slots
  <2> QED BY <2>1, SlotCountAssumption DEF PrimedTokens
<1>2. \A i \in 1 .. SlotCount : PrimedTokens[i] = Token(i - 1, 1)
                                /\ PrimedTokens[i].slot = i - 1
  BY DEF PrimedTokens, Token
<1>3. SlotsDiffer(PrimedTokens)
  BY <1>1, <1>2, SlotCountAssumption DEF SlotsDiffer
<1>4. Range(PrimedTokens) = {Token(s, 1) : s \in Slots}
  <2>1. \A i \in 1 .. SlotCount : i - 1 \in Slots
    BY SlotCountAssumption DEF Slots
  <2>2. \A s \in Slots : s + 1 \in 1 .. SlotCount /\ (s + 1) - 1 = s
    BY SlotCountAssumption DEF Slots
  <2> QED BY <1>1, <1>2, <2>1, <2>2 DEF Range
<1>5. << >> \in Seq(Item) /\ SlotsDiffer(<< >>) /\ Range(<< >>) = {}
  BY DEF SlotsDiffer, Range
<1> HIDE DEF PrimedTokens
<1>6. /\ queue \in [Chan -> Seq(Item)]
      /\ queue[SlotQueue] = PrimedTokens
      /\ \A c \in Chan : c # SlotQueue => queue[c] = << >>
  BY <1>1, <1>5, GrabChannels DEF Init
<1>7. \A c \in Chan : SlotsDiffer(queue[c])
  BY <1>3, <1>5, <1>6
<1>8. \A c \in Chan : c # SlotQueue => Range(queue[c]) = {}
  BY <1>5, <1>6
<1>9. \A c, d \in Chan :
        c # d => \A x \in Range(queue[c]), y \in Range(queue[d]) : x.slot # y.slot
  BY <1>8
<1> QED BY <1>4, <1>6, <1>7, <1>8, <1>9 DEF QueueOK

\* start() primes every slot as a token before any thread runs.
LEMMA InitOK == ASSUME Init PROVE IInv
<1>1. registry = PrimedRegistry /\ leaked = {} /\ lost = {} /\ ~stopped
      /\ \A s \in Slots : pixels[s] = None
  BY DEF Init
<1> DEFINE slot == Bare(1, "filling", "grab")
<1>2. /\ slot \in SlotRecord
      /\ SlotOK(slot)
      /\ slot.state = "filling"
      /\ slot.generation = 1
      /\ slot.dumpRef = 0
  BY WritersAssumption, NoneAssumption, BareOK DEF Bare
<1> HIDE DEF slot
<1>3. /\ registry.slots = [s \in Slots |-> slot]
      /\ registry.free = << >>
      /\ registry = [slots |-> registry.slots, free |-> registry.free]
  BY <1>1 DEF PrimedRegistry, slot
<1>4. WellFormed(registry)
  <2>1. registry.slots \in [Slots -> SlotRecord]
    BY <1>2, <1>3
  <2>2. registry.free \in Seq(Slots)
    BY <1>3
  <2> QED BY <1>3, <2>1, <2>2 DEF WellFormed
<1>5. ListExact(registry)
  BY <1>2, <1>3 DEF ListExact, Injective, Range
<1>6. RegistryOK(registry) /\ NoDumps(registry)
  BY <1>2, <1>3, <1>4, <1>5 DEF RegistryOK, NoDumps
<1>7. ItemsOK(registry, queue, pixels)
  <2> SUFFICES ASSUME NEW c \in Chan, NEW x \in Range(queue[c])
               PROVE  ItemOK(c, x, registry.slots[x.slot], pixels[x.slot])
    BY DEF ItemsOK
  <2>1. c = SlotQueue
    BY PrimedOK
  <2>2. PICK s \in Slots : x = Token(s, 1)
    BY <2>1, PrimedOK
  <2>3. x.slot = s /\ x.generation = 1
    BY <2>2 DEF Token
  <2>4. SlotQueue \in GrabSide /\ SlotQueue \in Early /\ SlotQueue # GrabEvents
    BY GrabChannels, ChannelsDistinct DEF Early
  <2> QED BY <1>2, <1>3, <2>1, <2>3, <2>4, GrabItem
<1>8. RingOK(registry, queue, pixels, leaked \cup lost)
  BY <1>1, <1>6, <1>7, PrimedOK DEF RingOK, Init
<1>9. \A s \in Slots : Present(queue, s)
  <2> SUFFICES ASSUME NEW s \in Slots PROVE Present(queue, s)
    OBVIOUS
  <2>1. Token(s, 1) \in Range(queue[SlotQueue]) /\ Token(s, 1).slot = s
    BY PrimedOK DEF Token
  <2> QED BY <2>1, GrabChannels DEF Present
<1>10. 0 \in Workers
  <2>1. Cardinality(Workers) \in Nat
    BY WorkersAssumption, FS_CardinalityType
  <2> QED BY <2>1, WorkersAssumption
<1> QED BY <1>1, <1>3, <1>8, <1>9, <1>10 DEF IInv, AllAccounted, Init

\* Every step of the pipeline preserves the invariant.
LEMMA NextOK == ASSUME IInv, [Next]_vars PROVE IInv'
<1>1. CASE UNCHANGED vars
  BY <1>1 DEF vars, IInv, RingOK, AllAccounted
<1>2. ASSUME NEW k \in CopyWorkers, WorkerCopies(k) \/ CopyRaises(k) PROVE IInv'
  BY <1>2, BeginCopyOK, CopyRaisesOK DEF WorkerCopies, Copiers
<1>3. ASSUME InlineCopy PROVE IInv'
  BY <1>3, BeginCopyOK DEF InlineCopy, Copiers
<1>4. ASSUME NEW k \in Copiers, EndCopy(k) PROVE IInv'
  BY <1>4, EndCopyOK
<1>5. ASSUME StartPrep \/ EndPrep PROVE IInv'
  BY <1>5, StartPrepOK, EndPrepOK
<1>6. ASSUME NEW w \in Workers, StartDecode(w) \/ EndDecode(w) PROVE IInv'
  BY <1>6, StartDecodeOK, EndDecodeOK
<1>7. ASSUME Bridge \/ Grab \/ EnqueueCopy \/ Submit PROVE IInv'
  BY <1>7, BridgeOK, GrabOK, EnqueueCopyOK, SubmitOK
<1>8. ASSUME HandleGrabEvent \/ RejectFrame \/ AcceptFrame \/ FetchDecodeResult
               \/ HandleDecodeResult \/ Stop
      PROVE  IInv'
  BY <1>8, HandleGrabEventOK, RejectFrameOK, AcceptFrameOK, FetchDecodeResultOK,
     HandleDecodeResultOK, StopOK
<1>9. CASE Finished
  BY <1>1, <1>9 DEF Finished
<1> QED
  BY <1>1, <1>2, <1>3, <1>4, <1>5, <1>6, <1>7, <1>8, <1>9 DEF Next

\* The inductive invariant holds throughout every behaviour.
LEMMA Inductive == Spec => []IInv
<1>1. Init => IInv
  BY InitOK
<1>2. IInv /\ [Next]_vars => IInv'
  BY NextOK
<1> QED BY <1>1, <1>2, PTL DEF Spec

-----------------------------------------------------------------------------
(* What it means for the system.                                             *)

\* Every variable keeps its type, whatever the sizes of the queues: the
\* generations, the round robin and the items themselves stay in range.
THEOREM TypeCorrect == Spec => []TypeOK
<1>1. IInv => TypeOK
  BY DEF IInv, RingOK, RegistryOK, WellFormed, QueueOK, TypeOK
<1> QED BY <1>1, Inductive, PTL

\* A slot is in one place at a time, and none vanishes while the session runs:
\* the tokens are conserved, although nothing in the code counts them.
THEOREM SlotsAreConserved == Spec => []SlotsTravelOnce
<1>1. ASSUME IInv PROVE SlotsTravelOnce
  <2>1. QueueOK(queue)
    BY <1>1 DEF IInv, RingOK
  <2>2. ASSUME NEW c \in Chan, NEW d \in Chan,
               NEW i \in DOMAIN queue[c], NEW j \in DOMAIN queue[d],
               queue[c][i].slot = queue[d][j].slot
        PROVE  c = d /\ i = j
    <3>1. queue[c][i] \in Range(queue[c]) /\ queue[d][j] \in Range(queue[d])
      BY DEF Range
    <3>2. c = d
      BY <2>1, <2>2, <3>1 DEF QueueOK
    <3> QED BY <2>1, <2>2, <3>2 DEF QueueOK, SlotsDiffer
  <2>3. ASSUME NEW s \in Slots, Present(queue, s)
        PROVE  \E c \in Chan : s \in SlotsIn(c)
    BY <2>3 DEF Present, SlotsIn, Range
  <2>4. AllAccounted(registry, queue, leaked \cup lost, stopped)
    BY <1>1 DEF IInv
  <2> QED BY <2>2, <2>3, <2>4 DEF SlotsTravelOnce, AllAccounted
<1> QED BY <1>1, Inductive, PTL

\* Every descriptor in flight has the current generation and its slot is in the
\* state that belongs to the channel it is in: the check the asynchronous prep
\* path does without would always succeed.
THEOREM DescriptorsAreCurrent == Spec => []DescriptorsCurrent
<1>1. ASSUME IInv PROVE DescriptorsCurrent
  <2> SUFFICES ASSUME NEW c \in Chan, NEW i \in DOMAIN queue[c]
               PROVE  LET item == queue[c][i]
                          slot == registry.slots[item.slot]
                      IN  /\ item.generation = slot.generation
                          /\ slot.state = StageOf(c)
                          /\ slot.state # "filling" => slot.capture = item.capture
    BY DEF DescriptorsCurrent
  <2> DEFINE item == queue[c][i]
             slot == registry.slots[item.slot]
  <2>1. item \in Range(queue[c])
    BY DEF Range
  <2>2. ItemOK(c, item, slot, pixels[item.slot])
    BY <1>1, <2>1 DEF IInv, RingOK, ItemsOK
  <2>3. slot.state # "filling" => c \in PrepSide \cup DecodeSide
    BY <2>2, Stages DEF ItemOK, Chan
  <2> QED BY <2>2, <2>3 DEF ItemOK
<1> QED BY <1>1, Inductive, PTL

\* Nobody reads torn or foreign pixels, with any number of copy threads: from
\* the filled event to the end of the decode the slot shows its own capture.
THEOREM FramesAreIntact == Spec => []FrameIntact
<1>1. ASSUME IInv PROVE FrameIntact
  <2>1. FrameChannels \subseteq Chan
    BY GrabChannels, PrepChannels, DecodeChannels DEF FrameChannels
  <2> SUFFICES ASSUME NEW c \in FrameChannels, NEW i \in DOMAIN queue[c]
               PROVE  pixels[queue[c][i].slot] = queue[c][i].capture
    BY DEF FrameIntact
  <2>2. c \in Chan /\ queue[c][i] \in Range(queue[c])
    BY <2>1 DEF Range
  <2>3. ItemOK(c, queue[c][i], registry.slots[queue[c][i].slot],
               pixels[queue[c][i].slot])
    BY <1>1, <2>2 DEF IInv, RingOK, ItemsOK
  <2> QED BY <2>3 DEF ItemOK
<1> QED BY <1>1, Inductive, PTL

\* A frame that waits for its decode is given up by nothing but its own
\* rejection: the fallback that overwrites the oldest one is never taken.
THEOREM FilledAreKept == Spec => FilledFramesKept
<1> DEFINE Kept == \A s \in Slots :
                     registry.slots[s].state = "filled"
                       /\ registry'.slots[s].state = "filling"
                       => HasItem(PrepOut) /\ Head(queue[PrepOut]).slot = s
<1>1. ASSUME IInv, Next PROVE Kept \/ UNCHANGED vars
  <2>1. ASSUME registry' = registry PROVE Kept
    <3>1. \A s \in Slots : registry'.slots[s].state = registry.slots[s].state
      BY <2>1
    <3> QED BY <3>1
  <2>2. ASSUME RejectFrame PROVE Kept
    BY <1>1, <2>2, RejectFrameOK
  <2>3. ASSUME HandleDecodeResult PROVE Kept
    <3>1. registry.slots[Head(queue[Answering]).slot].state = "in_decode"
      BY <1>1, <2>3, HeadOK, DecodeChannels, DecodeItem DEF HandleDecodeResult
    <3> QED BY <1>1, <2>3, <3>1, HandleDecodeResultOK
  <2>4. ASSUME NEW t, NEW new, new.state \in {"filled", "in_decode"},
               registry'.slots = [registry.slots EXCEPT ![t] = new]
        PROVE  Kept
    <3>1. registry.slots \in [Slots -> SlotRecord]
      BY <1>1 DEF IInv, RingOK, RegistryOK, WellFormed
    <3>2. \A s \in Slots : registry'.slots[s] = registry.slots[s]
                           \/ registry'.slots[s] = new
      BY <2>4, <3>1
    <3> QED BY <2>4, <3>2
  <2>5. ASSUME NEW t \in Slots, NEW c, registry' = Filled(registry, t, c) PROVE Kept
    <3> DEFINE old == registry.slots[t]
               new == [old EXCEPT !.state = "filled", !.writer = None, !.capture = c]
    <3>1. registry'.slots = [registry.slots EXCEPT ![t] = new]
      BY <2>5 DEF Filled, WithSlot
    <3>2. old \in SlotRecord
      BY <1>1 DEF IInv, RingOK, RegistryOK, WellFormed
    <3> HIDE DEF old
    <3>3. new.state \in {"filled", "in_decode"}
      BY <3>2 DEF SlotRecord
    <3> HIDE DEF new
    <3> QED BY <2>4, <3>1, <3>3
  <2>6. ASSUME NEW t \in Slots, NEW w, registry' = Assigned(registry, t, w) PROVE Kept
    <3> DEFINE old == registry.slots[t]
               new == [old EXCEPT !.state = "in_decode", !.decoder = w]
    <3>1. registry'.slots = [registry.slots EXCEPT ![t] = new]
      BY <2>6 DEF Assigned, WithSlot
    <3>2. old \in SlotRecord
      BY <1>1 DEF IInv, RingOK, RegistryOK, WellFormed
    <3> HIDE DEF old
    <3>3. new.state \in {"filled", "in_decode"}
      BY <3>2 DEF SlotRecord
    <3> HIDE DEF new
    <3> QED BY <2>4, <3>1, <3>3
  <2>7. ASSUME HandleGrabEvent PROVE Kept
    <3>1. HasItem(GrabEvents) /\ Head(queue[GrabEvents]).slot \in Slots
      BY <1>1, <2>7, HeadOK, GrabChannels DEF HandleGrabEvent
    <3>2. \/ registry' = Filled(registry, Head(queue[GrabEvents]).slot,
                                Head(queue[GrabEvents]).capture)
          \/ registry' = registry
      BY <2>7 DEF HandleGrabEvent
    <3> DEFINE t == Head(queue[GrabEvents]).slot
               c == Head(queue[GrabEvents]).capture
    <3>3. t \in Slots /\ (registry' = Filled(registry, t, c) \/ registry' = registry)
      BY <3>1, <3>2
    <3> HIDE DEF t, c, Kept
    <3>4. CASE registry' = Filled(registry, t, c)
      BY <2>5, <3>3, <3>4
    <3>5. CASE registry' = registry
      BY <2>1, <3>5
    <3> QED BY <3>3, <3>4, <3>5
  <2>8. ASSUME AcceptFrame PROVE Kept
    <3>1. HasItem(PrepOut) /\ Head(queue[PrepOut]).slot \in Slots
      BY <1>1, <2>8, HeadOK, PrepChannels DEF AcceptFrame
    <3>2. \/ registry' = Assigned(registry, Head(queue[PrepOut]).slot, nextWorker)
          \/ registry' = registry
      BY <2>8 DEF AcceptFrame, AssignedIfPossible, DroppedAtFullQueue
    <3> DEFINE t == Head(queue[PrepOut]).slot
    <3>3. t \in Slots
          /\ (registry' = Assigned(registry, t, nextWorker) \/ registry' = registry)
      BY <3>1, <3>2
    <3> HIDE DEF t, Kept
    <3>4. CASE registry' = Assigned(registry, t, nextWorker)
      BY <2>6, <3>3, <3>4
    <3>5. CASE registry' = registry
      BY <2>1, <3>5
    <3> QED BY <3>3, <3>4, <3>5
  <2> HIDE DEF Kept
  <2>9. ASSUME Bridge \/ Grab \/ EnqueueCopy \/ InlineCopy \/ Submit \/ Stop \/ Finished
               \/ FetchDecodeResult
               \/ (\E k \in CopyWorkers : WorkerCopies(k) \/ CopyRaises(k))
               \/ (\E k \in Copiers : EndCopy(k))
               \/ StartPrep \/ EndPrep
               \/ (\E w \in Workers : StartDecode(w) \/ EndDecode(w))
        PROVE  registry' = registry
    BY <2>9 DEF Bridge, Grab, EnqueueCopy, InlineCopy, Submit, Stop, Finished, vars,
                WorkerCopies, BeginCopy, CopyRaises, EndCopy, StartPrep, EndPrep,
                StartDecode, EndDecode, FetchDecodeResult, prepVars
  <2> QED BY <1>1, <2>1, <2>2, <2>3, <2>7, <2>8, <2>9 DEF Next
<1> HIDE DEF Kept
<1>2. IInv /\ [Next]_vars => [Kept]_vars
  BY <1>1
<1> QED BY <1>2, Inductive, PTL DEF Spec, FilledFramesKept, Kept

-----------------------------------------------------------------------------
(* The bound on the leak.                                                    *)

\* Of a decode queue only its size limits what is put.
LEMMA AssignmentsCapacity ==
  ASSUME NEW w \in Workers
  PROVE  RoomForAssignment(w) <=> Len(queue[Assignments(w)]) < FrameQueueSize
<1> DEFINE c == Assignments(w)
<1>1. /\ c \notin Hands
      /\ c # LocalSlots /\ c # CopyQueue /\ c # Results
      /\ c # SlotQueue /\ c # PrepIn /\ c # PrepOut
  BY DEF Hands, Assignments, GrabHand, Submitting, Answering, Copying, Prepping, Decoding,
         LocalSlots, CopyQueue, Results, SlotQueue, PrepIn, PrepOut
<1> HIDE DEF c
<1>2. Capacity(c) = FrameQueueSize
  BY <1>1 DEF Capacity
<1>3. c \notin Unbounded
  BY <1>1 DEF Unbounded
<1> QED BY <1>2, <1>3 DEF RoomForAssignment, HasRoom, c

\* A full assignment queue holds that many slots which have not been leaked.
LEMMA FullQueueSlots ==
  ASSUME NEW q \in Seq(Item), SlotsDiffer(q), NEW L \in SUBSET Slots,
         \A x \in Range(q) : x.slot \notin L
  PROVE  Len(q) <= SlotCount - Cardinality(L)
<1> DEFINE n == Len(q)
           f == [i \in 1 .. n |-> q[i].slot]
<1>1. n \in Nat /\ DOMAIN q = 1 .. n
  BY LenProperties
<1>2. \A i \in 1 .. n : q[i] \in Item /\ q[i] \in Range(q)
  BY <1>1, ElementOfSeq DEF Range
<1>3. f \in [1 .. n -> Slots \ L]
  BY <1>2 DEF Item
<1>4. \A i, j \in 1 .. n : f[i] = f[j] => i = j
  BY <1>1 DEF SlotsDiffer
<1> HIDE DEF f
<1>5. f \in Injection(1 .. n, Slots \ L)
  BY <1>3, <1>4 DEF Injection, IsInjective
<1>6. /\ IsFiniteSet(Slots)
      /\ Cardinality(Slots) = SlotCount
      /\ IsFiniteSet(1 .. n)
      /\ Cardinality(1 .. n) = n
  <2>1. 0 \in Int /\ SlotCount - 1 \in Int /\ 1 \in Int /\ n \in Int
    BY <1>1, SlotCountAssumption
  <2>2. /\ IsFiniteSet(0 .. SlotCount - 1)
        /\ Cardinality(0 .. SlotCount - 1) =
             IF 0 > SlotCount - 1 THEN 0 ELSE (SlotCount - 1) - 0 + 1
    BY <2>1, FS_Interval
  <2>3. /\ IsFiniteSet(1 .. n)
        /\ Cardinality(1 .. n) = IF 1 > n THEN 0 ELSE n - 1 + 1
    BY <2>1, FS_Interval
  <2> QED BY <1>1, <2>2, <2>3, SlotCountAssumption DEF Slots
<1>7. IsFiniteSet(L) /\ Cardinality(L) \in Nat
  BY <1>6, FS_Subset, FS_CardinalityType
<1>8. Slots \cap L = L
  OBVIOUS
<1>9. /\ IsFiniteSet(Slots \ L)
      /\ Cardinality(Slots \ L) = SlotCount - Cardinality(L)
  <2>1. /\ IsFiniteSet(Slots \ L)
        /\ Cardinality(Slots \ L) = Cardinality(Slots) - Cardinality(Slots \cap L)
    BY <1>6, FS_Difference
  <2> QED BY <1>6, <1>8, <2>1
<1>10. Cardinality(1 .. n) <= Cardinality(Slots \ L)
  BY <1>5, <1>9, FS_Injection
<1> QED BY <1>6, <1>9, <1>10

\* Slots leaked by full decode queues cannot starve the receiver: for every
\* number of slots and workers, as many as fill a queue stay out of the leak.
THEOREM LeakIsBounded == Spec => []LeakFloor
<1>1. ASSUME IInv, LeakFloor, [Next]_vars PROVE LeakFloor'
  <2>1. CASE leaked' = leaked
    BY <1>1, <2>1 DEF LeakFloor
  <2>2. ASSUME AcceptFrame, leaked' # leaked PROVE LeakFloor'
    <3> DEFINE w == nextWorker
               item == Head(queue[PrepOut])
               q == queue[Assignments(w)]
    <3>1. /\ leaked' = leaked \cup {item.slot}
          /\ ~RoomForAssignment(w)
          /\ HasItem(PrepOut)
      BY <2>2 DEF AcceptFrame, DroppedAtFullQueue
    <3>2. /\ w \in Workers
          /\ Assignments(w) \in Chan /\ Assignments(w) \in DecodeSide
          /\ PrepOut \in Chan /\ PrepOut \in PrepSide
          /\ Assignments(w) # PrepOut
      BY <1>1, DecodeChannels, PrepChannels, SidesDisjoint DEF IInv
    <3>3. /\ QueueOK(queue)
          /\ \A s \in leaked : Absent(queue, s)
          /\ leaked \subseteq Slots
      BY <1>1 DEF IInv, RingOK
    <3>4. q \in Seq(Item) /\ SlotsDiffer(q)
      BY <3>2, <3>3 DEF QueueOK
    <3>5. item \in Range(queue[PrepOut]) /\ item.slot \in Slots
      BY <1>1, <3>1, <3>2, <3>3, TakenItems, HeadOK DEF HasItem
    <3>6. \A x \in Range(q) : x.slot \notin leaked'
      <4>1. \A x \in Range(q) : x.slot # item.slot
        BY <3>2, <3>3, <3>5 DEF QueueOK
      <4>2. \A x \in Range(q) : x.slot \notin leaked
        BY <3>2, <3>3 DEF Absent
      <4> QED BY <3>1, <4>1, <4>2
    <3>7. leaked' \subseteq Slots
      BY <3>1, <3>3, <3>5
    <3> DEFINE L == leaked'
    <3>8. Len(q) <= SlotCount - Cardinality(L)
      <4> HIDE DEF L, q
      <4>1. L \in SUBSET Slots /\ \A x \in Range(q) : x.slot \notin L
        BY <3>6, <3>7 DEF L
      <4> QED BY <3>4, <4>1, FullQueueSlots
    <3>9. Len(q) >= FrameQueueSize
      BY <3>1, <3>2, <3>4, AssignmentsCapacity, LenProperties, QueuesAssumption
    <3>10. Len(q) \in Nat /\ FrameQueueSize \in Nat /\ Cardinality(L) \in Nat
      <4>1. IsFiniteSet(Slots)
        BY SlotCountAssumption, FS_Interval DEF Slots
      <4>2. IsFiniteSet(L)
        BY <3>7, <4>1, FS_Subset
      <4> QED BY <3>4, <4>2, FS_CardinalityType, LenProperties, QueuesAssumption
    <3> HIDE DEF q, L
    <3>11. SlotCount - Cardinality(L) >= FrameQueueSize
      BY <3>8, <3>9, <3>10, SlotCountAssumption
    <3> QED BY <3>11 DEF LeakFloor, L
  <2>3. ASSUME ~AcceptFrame PROVE leaked' = leaked
    BY <1>1, <2>3
       DEF Next, vars, Bridge, Grab, EnqueueCopy, InlineCopy, Submit, Stop, Finished,
           WorkerCopies, BeginCopy, CopyRaises, EndCopy, StartPrep, EndPrep,
           StartDecode, EndDecode, prepVars, coordinatorVars, HandleGrabEvent,
           RejectFrame, FetchDecodeResult, HandleDecodeResult
  <2> QED BY <2>1, <2>2, <2>3
<1>2. Init => LeakFloor
  BY DEF Init, LeakFloor
<1> QED BY <1>1, <1>2, Inductive, PTL DEF Spec

-----------------------------------------------------------------------------
(* A capture is in one place.                                                *)

\* Slot s has capture k: the registry says so, or an item that was given a
\* frame.
Holds(r, q, s, k) ==
  \/ r.slots[s].capture = k
  \/ \E c \in Chan \ Early : \E x \in Range(q[c]) : x.slot = s /\ x.capture = k

\* No slot has a capture that is yet to be taken, or one whose decode result is
\* in; and no two slots have the same one.
CapturesOnce ==
  /\ \A s \in Slots, k \in Captures :
       Holds(registry, queue, s, k) => k < captureIndex /\ k \notin decoded
  /\ \A s, t \in Slots, k \in Captures :
       Holds(registry, queue, s, k) /\ Holds(registry, queue, t, k) => s = t
  /\ \A k \in decoded : k < captureIndex

\* Taking an item gives nobody a capture.
LEMMA TakenHolds ==
  ASSUME NEW r, NEW q, QueueOK(q), NEW c \in Chan, q[c] # << >>
  PROVE  \A s, k : Holds(r, Taken(q, c), s, k) => Holds(r, q, s, k)
<1>1. \A d \in Chan : Range(Taken(q, c)[d]) \subseteq Range(q[d])
  BY TakenItems
<1> QED BY <1>1 DEF Holds

\* Putting an item gives its slot the item's capture, and no more.
LEMMA PutHolds ==
  ASSUME NEW r, NEW q, QueueOK(q), NEW d \in Chan, NEW item \in Item,
         Absent(q, item.slot)
  PROVE  \A s, k : Holds(r, Put(q, d, item), s, k) =>
           \/ Holds(r, q, s, k)
           \/ d \notin Early /\ s = item.slot /\ k = item.capture
<1>1. /\ Range(Put(q, d, item)[d]) = Range(q[d]) \cup {item}
      /\ \A c \in Chan : c # d => Range(Put(q, d, item)[c]) = Range(q[c])
  BY PutItems
<1>2. \A c \in Chan : \A x \in Range(Put(q, d, item)[c]) :
        x \in Range(q[c]) \/ (c = d /\ x = item)
  BY <1>1
<1> QED BY <1>2 DEF Holds

\* Nor does carrying an item on with the capture it has, or as a bare token.
LEMMA CarriedHolds ==
  ASSUME NEW r, NEW q, QueueOK(q), NEW c \in Chan, NEW d \in Chan, q[c] # << >>,
         NEW item \in Item, item.slot = Head(q[c]).slot,
         d \notin Early => c \notin Early /\ item.capture = Head(q[c]).capture
  PROVE  \A s, k : Holds(r, Put(Taken(q, c), d, item), s, k) => Holds(r, q, s, k)
<1> DEFINE n == Taken(q, c)
<1>1. /\ Head(q[c]) \in Range(q[c])
      /\ QueueOK(n)
      /\ Absent(n, item.slot)
  BY TakenItems
<1>2. \A s, k : Holds(r, n, s, k) => Holds(r, q, s, k)
  BY TakenHolds
<1> HIDE DEF n
<1>3. \A s, k : Holds(r, Put(n, d, item), s, k) =>
        \/ Holds(r, n, s, k)
        \/ d \notin Early /\ s = item.slot /\ k = item.capture
  BY <1>1, PutHolds
<1>4. d \notin Early => Holds(r, q, item.slot, item.capture)
  BY <1>1 DEF Holds
<1> QED BY <1>2, <1>3, <1>4 DEF n

\* Only Grab gives out a capture and only a decode result retires one: any
\* other step that gives nobody a capture keeps them apart.
LEMMA OnceKept ==
  ASSUME CapturesOnce, UNCHANGED <<captureIndex, decoded>>,
         \A s \in Slots, k \in Captures :
           Holds(registry', queue', s, k) => Holds(registry, queue, s, k)
  PROVE  CapturesOnce'
<1>1. /\ \A s \in Slots, k \in Captures :
           Holds(registry', queue', s, k) => k < captureIndex' /\ k \notin decoded'
      /\ \A s, t \in Slots, k \in Captures :
           Holds(registry', queue', s, k) /\ Holds(registry', queue', t, k) => s = t
      /\ \A k \in decoded' : k < captureIndex'
  BY DEF CapturesOnce
<1> QED BY <1>1 DEF CapturesOnce

\* A step that only carries an item on, with the capture it has.
LEMMA CarriedOnce ==
  ASSUME IInv, CapturesOnce, NEW c \in Chan, NEW d \in Chan, HasItem(c),
         NEW item \in Item, queue' = Moved(c, d, item),
         item.slot = Head(queue[c]).slot,
         d \notin Early => c \notin Early /\ item.capture = Head(queue[c]).capture,
         UNCHANGED <<registry, captureIndex, decoded>>
  PROVE  CapturesOnce'
<1>1. QueueOK(queue) /\ queue[c] # << >>
  BY DEF IInv, RingOK, HasItem
<1>2. \A s, k : Holds(registry, Moved(c, d, item), s, k) => Holds(registry, queue, s, k)
  BY <1>1, CarriedHolds DEF Moved
<1> QED BY <1>2, OnceKept

\* The same when the item is carried on as it is.
LEMMA MovedOnce ==
  ASSUME IInv, CapturesOnce, NEW c \in Chan, NEW d \in Chan, HasItem(c), Move(c, d),
         d \notin Early => c \notin Early, UNCHANGED <<registry, captureIndex, decoded>>
  PROVE  CapturesOnce'
<1> DEFINE item == Head(queue[c])
<1>1. item \in Item /\ queue' = Moved(c, d, item)
  BY HeadOK DEF Move
<1> HIDE DEF item
<1> QED BY <1>1, CarriedOnce DEF item

\* A slot that comes back has no capture any more, and no item that had one.
LEMMA ReturnedHolds ==
  ASSUME IInv, IInv', NEW c \in Chan, HasItem(c), NEW r,
         Dispatched(r, Taken(queue, c)),
         \A t \in Slots : t # Head(queue[c]).slot =>
           registry'.slots[t] = registry.slots[t],
         registry'.slots[Head(queue[c]).slot].capture = None
  PROVE  \A s \in Slots, k \in Captures :
           Holds(registry', queue', s, k) =>
             s # Head(queue[c]).slot /\ Holds(registry, queue, s, k)
<1> DEFINE h == Head(queue[c])
           n == Taken(queue, c)
<1>1. /\ QueueOK(queue)
      /\ queue[c] # << >>
  BY DEF IInv, RingOK, HasItem
<1>2. /\ QueueOK(n)
      /\ Absent(n, h.slot)
      /\ \A d \in Chan : Range(n[d]) \subseteq Range(queue[d])
  BY <1>1, TakenItems
<1>3. \/ queue' = n
      \/ \E token : queue' = Put(n, SlotQueue, token)
  BY DEF Dispatched, HandedOut
<1> HIDE DEF n
<1>4. \A d \in Chan \ Early : queue'[d] = n[d]
  <2>1. SlotQueue \in Early /\ n \in [Chan -> Seq(Item)]
    BY <1>2 DEF Early, QueueOK
  <2>2. \A token : \A d \in Chan \ Early : Put(n, SlotQueue, token)[d] = n[d]
    BY <2>1 DEF Put
  <2> QED BY <1>3, <2>2
<1>5. ASSUME NEW s \in Slots, NEW k \in Captures, Holds(registry', queue', s, k)
      PROVE  s # h.slot /\ Holds(registry, queue, s, k)
  <2>1. CASE registry'.slots[s].capture = k
    <3>1. s # h.slot
      BY <2>1, NoneAssumption
    <3> QED BY <2>1, <3>1 DEF Holds
  <2>2. CASE \E d \in Chan \ Early : \E x \in Range(queue'[d]) : x.slot = s /\ x.capture = k
    <3>1. PICK d \in Chan \ Early : \E x \in Range(queue'[d]) : x.slot = s /\ x.capture = k
      BY <2>2
    <3>2. PICK x \in Range(n[d]) : x.slot = s /\ x.capture = k
      BY <1>4, <3>1
    <3>3. s # h.slot
      BY <1>2, <3>2 DEF Absent
    <3>4. x \in Range(queue[d])
      BY <1>2, <3>2
    <3> QED BY <3>2, <3>3, <3>4 DEF Holds
  <2> QED BY <1>5, <2>1, <2>2 DEF Holds
<1> QED BY <1>5

\* At the start nothing is captured.
LEMMA OnceInit == ASSUME Init PROVE CapturesOnce
<1>1. \A c \in Chan \ Early : Range(queue[c]) = {}
  BY PrimedOK DEF Early
<1>2. \A s \in Slots : registry.slots[s].capture = None
  BY DEF Init, PrimedRegistry, Bare
<1>3. \A s \in Slots, k \in Captures : ~Holds(registry, queue, s, k)
  BY <1>1, <1>2, NoneAssumption DEF Holds
<1> QED BY <1>3 DEF CapturesOnce, Init

\* The capture just taken is new.
LEMMA OnceGrab == ASSUME IInv, CapturesOnce, Grab PROVE CapturesOnce'
<1> DEFINE h == Head(queue[LocalSlots])
           item == [h EXCEPT !.capture = captureIndex]
           n == Taken(queue, LocalSlots)
           m == Put(n, GrabHand, item)
<1>1. /\ LocalSlots \in Chan /\ GrabHand \in Chan /\ HasItem(LocalSlots)
      /\ queue[LocalSlots] # << >>
      /\ QueueOK(queue)
      /\ queue' = m
      /\ captureIndex' = captureIndex + 1 /\ decoded' = decoded /\ registry' = registry
      /\ captureIndex \in Captures
  BY GrabChannels DEF Grab, coordinatorVars, HasItem, IInv, RingOK, Moved
<1>2. h \in Item /\ QueueOK(n) /\ Absent(n, h.slot)
  BY <1>1, TakenItems
<1>3. item \in Item /\ item.slot = h.slot /\ item.capture = captureIndex
  BY <1>1, <1>2 DEF Item
<1>4. \A s, k : Holds(registry, n, s, k) => Holds(registry, queue, s, k)
  BY <1>1, TakenHolds
<1> HIDE DEF item, n
<1>5. \A s, k : Holds(registry, m, s, k) =>
        Holds(registry, queue, s, k) \/ (s = h.slot /\ k = captureIndex)
  BY <1>1, <1>2, <1>3, <1>4, PutHolds
<1> HIDE DEF m, h
<1>6. captureIndex \in Nat /\ Captures \subseteq Nat /\ decoded \subseteq Captures
  BY CapturesAssumption DEF IInv
<1>7. \A s \in Slots, k \in Captures :
        Holds(registry, queue, s, k) => k < captureIndex /\ k \notin decoded
  BY DEF CapturesOnce
<1>8. \A k \in decoded : k < captureIndex
  BY DEF CapturesOnce
<1>9. captureIndex \notin decoded /\ captureIndex < captureIndex + 1
      /\ \A k \in Captures : k < captureIndex => k < captureIndex + 1 /\ k # captureIndex
  BY <1>6, <1>8
<1>10. \A s \in Slots, k \in Captures :
         Holds(registry', queue', s, k) => k < captureIndex' /\ k \notin decoded'
  BY <1>1, <1>5, <1>7, <1>9
<1>11. \A s, t \in Slots, k \in Captures :
         Holds(registry', queue', s, k) /\ Holds(registry', queue', t, k) => s = t
  <2> SUFFICES ASSUME NEW s \in Slots, NEW t \in Slots, NEW k \in Captures,
                      Holds(registry, m, s, k), Holds(registry, m, t, k)
               PROVE  s = t
    BY <1>1
  <2>1. CASE k = captureIndex
    BY <1>5, <1>7, <1>9, <2>1
  <2>2. CASE k # captureIndex
    BY <1>5, <2>2 DEF CapturesOnce
  <2> QED BY <2>1, <2>2
<1>12. \A k \in decoded' : k < captureIndex'
  BY <1>1, <1>6, <1>8, <1>9
<1> QED BY <1>10, <1>11, <1>12 DEF CapturesOnce

\* A frame that is filled, assigned or leaked keeps the capture it had.
LEMMA OnceFilled == ASSUME IInv, CapturesOnce, HandleGrabEvent PROVE CapturesOnce'
<1> DEFINE item == Head(queue[GrabEvents])
<1>1. /\ GrabEvents \in Chan \ Early /\ HasItem(GrabEvents)
      /\ queue[GrabEvents] # << >>
      /\ QueueOK(queue)
      /\ \A t \in Slots : t # item.slot => registry'.slots[t] = registry.slots[t]
      /\ registry'.slots[item.slot].capture = item.capture
      /\ UNCHANGED <<captureIndex, decoded>>
  BY HandleGrabEventOK, GrabChannels, ChannelsDistinct DEF IInv, RingOK, HasItem
<1>2. PICK d \in PrepSide : queue' = Moved(GrabEvents, d, item)
  BY HandleGrabEventOK
<1>3. item \in Item /\ item \in Range(queue[GrabEvents]) /\ d \in Chan
  BY <1>1, TakenItems, PrepChannels
<1> HIDE DEF item
<1>4. \A s, k : Holds(registry, queue', s, k) => Holds(registry, queue, s, k)
  BY <1>1, <1>2, <1>3, CarriedHolds DEF Moved, item
<1>5. Holds(registry, queue, item.slot, item.capture)
  BY <1>1, <1>3 DEF Holds
<1>6. \A s \in Slots, k \in Captures :
        Holds(registry', queue', s, k) => Holds(registry, queue, s, k)
  BY <1>1, <1>4, <1>5 DEF Holds
<1> QED BY <1>1, <1>6, OnceKept

\* The same of a frame that is accepted, with room for it or without.
LEMMA OnceAccepted == ASSUME IInv, CapturesOnce, AcceptFrame PROVE CapturesOnce'
<1> DEFINE item == Head(queue[PrepOut])
<1>1. /\ PrepOut \in Chan \ Early /\ HasItem(PrepOut)
      /\ queue[PrepOut] # << >>
      /\ QueueOK(queue)
      /\ \A t \in Slots : t # item.slot => registry'.slots[t] = registry.slots[t]
      /\ registry'.slots[item.slot].capture = registry.slots[item.slot].capture
      /\ UNCHANGED <<captureIndex, decoded>>
  BY AcceptFrameOK, PrepChannels, SidesDisjoint, GrabChannels
     DEF IInv, RingOK, HasItem, Early
<1>2. \/ \E d \in DecodeSide : queue' = Moved(PrepOut, d, item)
      \/ queue' = Taken(queue, PrepOut)
  BY AcceptFrameOK
<1>3. item \in Item
  BY <1>1, TakenItems
<1> HIDE DEF item
<1>4. \A s, k : Holds(registry, queue', s, k) => Holds(registry, queue, s, k)
  <2>1. ASSUME NEW d \in DecodeSide, queue' = Moved(PrepOut, d, item)
        PROVE  \A s, k : Holds(registry, queue', s, k) => Holds(registry, queue, s, k)
    <3>1. d \in Chan
      BY DecodeChannels
    <3> QED BY <1>1, <1>3, <2>1, <3>1, CarriedHolds DEF Moved, item
  <2>2. CASE queue' = Taken(queue, PrepOut)
    BY <1>1, <2>2, TakenHolds
  <2> QED BY <1>2, <2>1, <2>2
<1>5. \A s \in Slots, k \in Captures :
        Holds(registry', queue', s, k) => Holds(registry, queue, s, k)
  BY <1>1, <1>4 DEF Holds
<1> QED BY <1>1, <1>5, OnceKept

\* A rejected frame's capture is in no slot any more.
LEMMA OnceRejected == ASSUME IInv, CapturesOnce, RejectFrame PROVE CapturesOnce'
<1> DEFINE r == ReleasedIfMatching(registry, Head(queue[PrepOut]))
<1>1. /\ PrepOut \in Chan
      /\ Dispatched(r, Taken(queue, PrepOut))
      /\ UNCHANGED <<captureIndex, decoded>>
  BY PrepChannels DEF RejectFrame
<1> HIDE DEF r
<1>2. \A s \in Slots, k \in Captures :
        Holds(registry', queue', s, k) => Holds(registry, queue, s, k)
  BY <1>1, RejectFrameOK, ReturnedHolds
<1> QED BY <1>1, <1>2, OnceKept

\* Nor is a decoded one's, of which the result is now in.
LEMMA OnceDecoded == ASSUME IInv, CapturesOnce, HandleDecodeResult PROVE CapturesOnce'
<1> DEFINE item == Head(queue[Answering])
           r == CompletedIfMatching(registry, item)
<1>1. /\ Answering \in Chan
      /\ Dispatched(r, Taken(queue, Answering))
      /\ captureIndex' = captureIndex
      /\ decoded' = decoded \cup {item.capture}
  BY DecodeChannels DEF HandleDecodeResult
<1>2. /\ IInv' /\ HasItem(Answering)
      /\ registry.slots[item.slot].capture = item.capture
      /\ item.capture \in Captures
      /\ item.slot \in Slots
      /\ \A t \in Slots : t # item.slot => registry'.slots[t] = registry.slots[t]
      /\ registry'.slots[item.slot].capture = None
  BY <1>1, HandleDecodeResultOK, HeadOK
<1> HIDE DEF r
<1>3. \A s \in Slots, k \in Captures :
        Holds(registry', queue', s, k) => s # item.slot /\ Holds(registry, queue, s, k)
  BY <1>1, <1>2, ReturnedHolds
<1>4. Holds(registry, queue, item.slot, item.capture)
  BY <1>2 DEF Holds
<1> HIDE DEF item
<1>5. \A s \in Slots, k \in Captures :
        Holds(registry', queue', s, k) => k < captureIndex' /\ k \notin decoded'
  BY <1>1, <1>2, <1>3, <1>4 DEF CapturesOnce
<1>6. \A s, t \in Slots, k \in Captures :
        Holds(registry', queue', s, k) /\ Holds(registry', queue', t, k) => s = t
  BY <1>3 DEF CapturesOnce
<1>7. \A k \in decoded' : k < captureIndex'
  BY <1>1, <1>2, <1>4 DEF CapturesOnce
<1> QED BY <1>5, <1>6, <1>7 DEF CapturesOnce

\* Every step keeps the captures apart.
LEMMA OnceNext == ASSUME IInv, CapturesOnce, [Next]_vars PROVE CapturesOnce'
<1>1. CASE UNCHANGED vars
  BY <1>1 DEF vars, CapturesOnce
<1>2. CASE Bridge
  BY <1>2, MovedOnce, GrabChannels DEF Bridge, coordinatorVars, Early
<1>3. CASE EnqueueCopy
  BY <1>3, MovedOnce, GrabChannels, ChannelsDistinct DEF EnqueueCopy, coordinatorVars
<1>4. ASSUME NEW k \in Copiers, NEW source \in {GrabHand, CopyQueue}, BeginCopy(k, source)
      PROVE  CapturesOnce'
  BY <1>4, MovedOnce, GrabChannels, ChannelsDistinct DEF BeginCopy, coordinatorVars
<1>5. ASSUME NEW k \in CopyWorkers, CopyRaises(k) PROVE CapturesOnce'
  <2>1. Copying(k) \in Chan /\ queue[Copying(k)] # << >> /\ QueueOK(queue)
    BY <1>5, GrabChannels DEF CopyRaises, Copiers, HasItem, IInv, RingOK
  <2>2. \A s, c : Holds(registry, Taken(queue, Copying(k)), s, c)
                    => Holds(registry, queue, s, c)
    BY <2>1, TakenHolds
  <2>3. /\ queue' = Taken(queue, Copying(k)) /\ registry' = registry
        /\ UNCHANGED <<captureIndex, decoded>>
    BY <1>5 DEF CopyRaises, coordinatorVars
  <2> QED BY <2>2, <2>3, OnceKept
<1>6. ASSUME NEW k \in Copiers, EndCopy(k) PROVE CapturesOnce'
  BY <1>6, MovedOnce, GrabChannels, ChannelsDistinct DEF EndCopy, coordinatorVars
<1>7. CASE Submit
  BY <1>7, MovedOnce, PrepChannels, SidesDisjoint, GrabChannels DEF Submit, prepVars, Early
<1>8. CASE StartPrep
  BY <1>8, MovedOnce, PrepChannels, SidesDisjoint, GrabChannels
     DEF StartPrep, prepVars, Early
<1>9. CASE EndPrep
  BY <1>9, MovedOnce, PrepChannels, SidesDisjoint, GrabChannels DEF EndPrep, prepVars, Early
<1>10. ASSUME NEW w \in Workers, StartDecode(w) PROVE CapturesOnce'
  BY <1>10, MovedOnce, DecodeChannels, SidesDisjoint, GrabChannels
     DEF StartDecode, prepVars, Early
<1>11. ASSUME NEW w \in Workers, EndDecode(w) PROVE CapturesOnce'
  <2> DEFINE c == Decoding(w)
             h == Head(queue[c])
             item == [h EXCEPT !.worker = w]
  <2>1. /\ c \in Chan /\ Results \in Chan /\ c \notin Early /\ HasItem(c)
        /\ queue' = Moved(c, Results, item)
        /\ UNCHANGED <<registry, captureIndex, decoded>>
    BY <1>11, DecodeChannels, SidesDisjoint, GrabChannels DEF EndDecode, prepVars, Early
  <2>2. h \in Item
    BY <2>1, HeadOK
  <2>3. item \in Item /\ item.slot = h.slot /\ item.capture = h.capture
    BY <2>2 DEF Item
  <2> HIDE DEF item, c
  <2> QED BY <2>1, <2>3, CarriedOnce
<1>12. CASE FetchDecodeResult
  BY <1>12, MovedOnce, DecodeChannels, SidesDisjoint, GrabChannels
     DEF FetchDecodeResult, Early
<1>13. CASE Finished \/ Stop
  <2>1. UNCHANGED <<registry, queue, captureIndex, decoded>>
    BY <1>13 DEF Finished, Stop, vars
  <2> QED BY <2>1, OnceKept
<1> QED
  BY <1>1, <1>2, <1>3, <1>4, <1>5, <1>6, <1>7, <1>8, <1>9, <1>10, <1>11, <1>12,
     <1>13, OnceGrab, OnceFilled, OnceAccepted, OnceRejected, OnceDecoded
     DEF Next, WorkerCopies, InlineCopy, Copiers

-----------------------------------------------------------------------------
(* The pipeline implements the cycle of a frame.                             *)

StageMap == [s \in Slots |-> CycleStage(s)]
FrameMap == [s \in Slots |-> registry.slots[s].capture]

\* A step that leaves the registry, the losses and the results alone is one the
\* abstract specification does not see.
LEMMA CycleStill ==
  ASSUME UNCHANGED <<registry, leaked, lost, decoded, stopped>>
  PROVE  UNCHANGED Cycle!cycleVars
BY DEF Cycle!cycleVars, CycleStage

\* A step that changes one slot changes the abstract stage and frame there.
LEMMA CycleAt ==
  ASSUME IInv, NEW s \in Slots,
         \A t \in Slots : t # s =>
           /\ registry'.slots[t] = registry.slots[t]
           /\ t \in leaked' \cup lost' <=> t \in leaked \cup lost
  PROVE  /\ StageMap' = [StageMap EXCEPT ![s] = CycleStage(s)']
         /\ FrameMap' = [FrameMap EXCEPT ![s] = registry'.slots[s].capture]
<1>1. ASSUME NEW t \in Slots, t # s PROVE CycleStage(t)' = CycleStage(t)
  <2>1. registry'.slots[t].state = registry.slots[t].state
    BY <1>1
  <2>2. t \in leaked' \cup lost' <=> t \in leaked \cup lost
    BY <1>1
  <2>3. registry.slots[t].state \in {"free", "filling", "filled", "in_decode"}
    BY DEF IInv, RingOK, RegistryOK, WellFormed, SlotRecord, SlotState
  <2> QED BY <2>1, <2>2, <2>3 DEF CycleStage
<1>2. StageMap' = [t \in Slots |-> CycleStage(t)']
  BY DEF StageMap
<1> QED BY <1>1, <1>2 DEF StageMap, FrameMap

\* The filled event the coordinator handles is the abstract fill: no slot has
\* the capture, and no result of it is in.
LEMMA CycleFill ==
  ASSUME IInv, IInv', CapturesOnce, HandleGrabEvent PROVE Cycle!Next
<1>0. /\ GrabEvents \in Chan \ Early /\ GrabEvents \in GrabSide
      /\ HasItem(GrabEvents) /\ queue[GrabEvents] # << >>
      /\ QueueOK(queue)
  BY HandleGrabEventOK, GrabChannels, ChannelsDistinct DEF IInv, RingOK, HasItem
<1> PICK item : item = Head(queue[GrabEvents])
  OBVIOUS
<1> DEFINE s == item.slot
           c == item.capture
<1>1. /\ s \in Slots /\ s \notin leaked \cup lost
      /\ GrabEvents \in Chan \ Early /\ GrabEvents \in GrabSide
      /\ ItemOK(GrabEvents, item, registry.slots[s], pixels[s])
      /\ item \in Range(queue[GrabEvents])
  BY <1>0, HeadOK, TakenItems
<1>2. /\ registry.slots[s].state = "filling"
      /\ \A t \in Slots : t # s => registry'.slots[t] = registry.slots[t]
      /\ registry'.slots[s].state = "filled"
      /\ registry'.slots[s].capture = c
      /\ UNCHANGED <<leaked, lost, decoded, stopped>>
  BY HandleGrabEventOK
<1>3. c \in Captures
  BY <1>1, GrabItem
<1>4. registry.slots[s].capture = None
  BY <1>1, <1>2 DEF IInv, RingOK, RegistryOK, SlotOK, SlotOwnersMatch
<1>5. Holds(registry, queue, s, c)
  BY <1>1 DEF Holds
<1>6. c \notin decoded /\ \A t \in Slots : registry.slots[t].capture # c
  BY <1>1, <1>3, <1>4, <1>5, NoneAssumption DEF CapturesOnce, Holds
<1>7. CycleStage(s) = "writable" /\ CycleStage(s)' = "filled"
  BY <1>1, <1>2 DEF CycleStage
<1> HIDE DEF s, c
<1>8. /\ StageMap' = [StageMap EXCEPT ![s] = "filled"]
      /\ FrameMap' = [FrameMap EXCEPT ![s] = c]
  BY <1>1, <1>2, <1>7, CycleAt
<1>9. Cycle!Fill(s, c)
  BY <1>1, <1>2, <1>6, <1>7, <1>8 DEF Cycle!Fill, StageMap, FrameMap
<1> QED BY <1>1, <1>3, <1>9 DEF Cycle!Next

\* A skipped or duplicate frame is the abstract rejection.
LEMMA CycleReject == ASSUME IInv, IInv', RejectFrame PROVE Cycle!Next
<1> PICK s : s = Head(queue[PrepOut]).slot
  OBVIOUS
<1>1. /\ s \in Slots /\ s \notin leaked \cup lost
      /\ registry.slots[s].state = "filled"
      /\ \A t \in Slots : t # s => registry'.slots[t] = registry.slots[t]
      /\ registry'.slots[s].state = IF stopped THEN "free" ELSE "filling"
      /\ registry'.slots[s].capture = None
  BY RejectFrameOK, HeadOK, PrepChannels
<1>2. UNCHANGED <<leaked, lost, decoded, stopped>>
  BY DEF RejectFrame
<1>3. /\ CycleStage(s) = "filled"
      /\ CycleStage(s)' = IF ~stopped THEN "writable" ELSE "idle"
  BY <1>1, <1>2 DEF CycleStage
<1>4. /\ StageMap' = [StageMap EXCEPT ![s] = IF ~stopped THEN "writable" ELSE "idle"]
      /\ FrameMap' = [FrameMap EXCEPT ![s] = None]
  BY <1>1, <1>2, <1>3, CycleAt
<1>5. Cycle!Reject(s)
  BY <1>1, <1>2, <1>3, <1>4 DEF Cycle!Reject, Cycle!GivenBack, StageMap, FrameMap
<1> QED BY <1>1, <1>5 DEF Cycle!Next

\* An accepted frame is the abstract assignment, its leak the abandoned one.
LEMMA CycleAssign == ASSUME IInv, IInv', AcceptFrame PROVE Cycle!Next
<1> PICK s : s = Head(queue[PrepOut]).slot
  OBVIOUS
<1>1. /\ s \in Slots /\ s \notin leaked \cup lost
      /\ registry.slots[s].state = "filled"
      /\ \A t \in Slots : t # s => registry'.slots[t] = registry.slots[t]
      /\ registry'.slots[s].state = "in_decode"
      /\ registry'.slots[s].capture = registry.slots[s].capture
      /\ leaked' = leaked \/ leaked' = leaked \cup {s}
      /\ UNCHANGED <<lost, decoded, stopped>>
  BY AcceptFrameOK, HeadOK, PrepChannels
<1>2. /\ CycleStage(s) = "filled"
      /\ CycleStage(s)' \in {"decoding", "abandoned"}
  BY <1>1 DEF CycleStage
<1>3. /\ StageMap' = [StageMap EXCEPT ![s] = CycleStage(s)']
      /\ FrameMap' = [FrameMap EXCEPT ![s] = registry'.slots[s].capture]
  BY <1>1, CycleAt
<1>4. FrameMap' = FrameMap
  BY <1>1, <1>3 DEF FrameMap
<1>5. \/ StageMap' = [StageMap EXCEPT ![s] = "decoding"]
      \/ StageMap' = [StageMap EXCEPT ![s] = "abandoned"]
  BY <1>2, <1>3
<1>6. Cycle!Assign(s)
  BY <1>1, <1>2, <1>4, <1>5 DEF Cycle!Assign, StageMap, FrameMap
<1> QED BY <1>1, <1>6 DEF Cycle!Next

\* A decode result is the abstract delivery: none of that capture came before.
LEMMA CycleDeliver ==
  ASSUME IInv, IInv', CapturesOnce, HandleDecodeResult PROVE Cycle!Next
<1> PICK s, c : s = Head(queue[Answering]).slot /\ c = Head(queue[Answering]).capture
  OBVIOUS
<1>1. /\ s \in Slots /\ s \notin leaked \cup lost
      /\ registry.slots[s].state = "in_decode"
      /\ registry.slots[s].capture = c
      /\ c \in Captures
      /\ \A t \in Slots : t # s => registry'.slots[t] = registry.slots[t]
      /\ registry'.slots[s].state = IF stopped THEN "free" ELSE "filling"
      /\ registry'.slots[s].capture = None
  BY HandleDecodeResultOK, HeadOK, DecodeChannels
<1>2. /\ UNCHANGED <<leaked, lost>>
      /\ decoded' = decoded \cup {c}
      /\ stopped' \in {stopped, TRUE}
  BY DEF HandleDecodeResult
<1>3. c \notin decoded
  BY <1>1 DEF CapturesOnce, Holds
<1>4. /\ CycleStage(s) = "decoding"
      /\ CycleStage(s)' = IF ~stopped THEN "writable" ELSE "idle"
  BY <1>1, <1>2 DEF CycleStage
<1>5. /\ StageMap' = [StageMap EXCEPT ![s] = IF ~stopped THEN "writable" ELSE "idle"]
      /\ FrameMap' = [FrameMap EXCEPT ![s] = None]
  BY <1>1, <1>2, <1>4, CycleAt
<1>6. (~stopped)' \in {~stopped, FALSE}
  <2>1. stopped' = stopped \/ stopped' = TRUE
    BY <1>2
  <2>2. CASE stopped' = stopped
    <3>1. (~stopped)' = ~stopped
      BY <2>2
    <3> QED BY <3>1
  <2>3. CASE stopped' = TRUE
    <3>1. (~stopped)' = FALSE
      BY <2>3
    <3> QED BY <3>1
  <2> QED BY <2>1, <2>2, <2>3
<1>7. StageMap[s] = "decoding" /\ FrameMap[s] = c
  BY <1>1, <1>4 DEF StageMap, FrameMap
<1>8. Cycle!Deliver(s)
  BY <1>1, <1>2, <1>3, <1>5, <1>6, <1>7
     DEF Cycle!Deliver, Cycle!GivenBack, StageMap, FrameMap
<1> QED BY <1>1, <1>8 DEF Cycle!Next

\* A copy that raises abandons its slot.
LEMMA CycleAbandon ==
  ASSUME IInv, IInv', NEW k \in CopyWorkers, CopyRaises(k) PROVE Cycle!Next
<1> PICK s : s = Head(queue[Copying(k)]).slot
  OBVIOUS
<1>1. Copying(k) \in Chan /\ Copying(k) \in GrabSide /\ HasItem(Copying(k))
  BY GrabChannels DEF CopyRaises, Copiers
<1>2. /\ s \in Slots /\ s \notin leaked \cup lost
      /\ registry.slots[s].state = "filling"
  BY <1>1, HeadOK, GrabItem
<1>3. /\ lost' = lost \cup {s}
      /\ UNCHANGED <<registry, leaked, decoded, stopped>>
  BY DEF CopyRaises, coordinatorVars
<1>4. CycleStage(s) = "writable" /\ CycleStage(s)' = "abandoned"
  BY <1>2, <1>3 DEF CycleStage
<1>5. StageMap' = [StageMap EXCEPT ![s] = "abandoned"] /\ FrameMap' = FrameMap
  BY <1>2, <1>3, <1>4, CycleAt DEF FrameMap
<1>6. Cycle!Abandon(s)
  BY <1>2, <1>3, <1>4, <1>5 DEF Cycle!Abandon, StageMap, FrameMap
<1> QED BY <1>2, <1>6 DEF Cycle!Next

\* stop() ends the session from outside.
LEMMA CycleEnd == ASSUME IInv, IInv', Stop PROVE Cycle!Next
<1>1. ~stopped /\ stopped' = TRUE /\ UNCHANGED <<registry, leaked, lost, decoded>>
  BY DEF Stop
<1>2. \A s \in Slots : CycleStage(s)' = CycleStage(s)
  BY <1>1 DEF CycleStage
<1>3. StageMap' = StageMap /\ FrameMap' = FrameMap
  BY <1>1, <1>2 DEF StageMap, FrameMap
<1>4. (~stopped) /\ (~stopped)' = FALSE
  BY <1>1
<1> QED BY <1>1, <1>3, <1>4 DEF Cycle!Next, Cycle!End, StageMap, FrameMap

\* With all its queues, threads and races the pipeline keeps to the cycle of a
\* frame: what it captures is decided on once and delivered at most once, and a
\* slot is written again only after that, for every size of the pipeline.
THEOREM PipelineKeepsFrameCycle == Spec => ImplementsFrameCycle
<1>1. Init => Cycle!Init
  <2> SUFFICES ASSUME Init PROVE Cycle!Init
    OBVIOUS
  <2>1. \A s \in Slots : CycleStage(s) = "writable" /\ registry.slots[s].capture = None
    BY DEF Init, PrimedRegistry, Bare, CycleStage
  <2>2. decoded = {} /\ (~stopped) = TRUE
    BY DEF Init
  <2> QED BY <2>1, <2>2 DEF Cycle!Init
<1>2. ASSUME IInv, IInv', CapturesOnce, [Next]_vars PROVE [Cycle!Next]_Cycle!cycleVars
  <2>1. ASSUME NEW k \in CopyWorkers, CopyRaises(k) PROVE Cycle!Next
    BY <1>2, <2>1, CycleAbandon
  <2>2. ASSUME HandleGrabEvent \/ RejectFrame \/ AcceptFrame \/ HandleDecodeResult \/ Stop
        PROVE  Cycle!Next
    BY <1>2, <2>2, CycleFill, CycleReject, CycleAssign, CycleDeliver, CycleEnd
  <2>3. ASSUME Bridge \/ Grab \/ EnqueueCopy \/ InlineCopy \/ Submit \/ Finished
               \/ FetchDecodeResult
               \/ (\E k \in CopyWorkers : WorkerCopies(k))
               \/ (\E k \in Copiers : EndCopy(k))
               \/ StartPrep \/ EndPrep
               \/ (\E w \in Workers : StartDecode(w) \/ EndDecode(w))
               \/ UNCHANGED vars
        PROVE  UNCHANGED Cycle!cycleVars
    <3>1. UNCHANGED <<registry, leaked, lost, decoded, stopped>>
      BY <2>3 DEF Bridge, Grab, EnqueueCopy, InlineCopy, Submit, Finished, vars,
                  WorkerCopies, BeginCopy, EndCopy, StartPrep, EndPrep,
                  StartDecode, EndDecode, FetchDecodeResult, prepVars, coordinatorVars
    <3> QED BY <3>1, CycleStill
  <2> QED BY <1>2, <2>1, <2>2, <2>3 DEF Next
<1>3. Init => CapturesOnce
  BY OnceInit
<1>4. IInv /\ CapturesOnce /\ [Next]_vars => CapturesOnce'
  BY OnceNext
<1> QED BY <1>1, <1>2, <1>3, <1>4, Inductive, PTL DEF Spec, ImplementsFrameCycle, Cycle!Spec

=============================================================================
