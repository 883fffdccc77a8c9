------------------------------- MODULE Painter -------------------------------
(* The sender's side of a frame: how large a chunk the frame stream plans    *)
(* and what the four encoders paint, region by region.                       *)
EXTENDS Wire

Cells(plan) == plan.w * plan.h
Guard(protocol) == IF protocol = "basic" THEN 2 ELSE 1

\* The strips above and left of the data, and how often the format goes there.
FormatBits == 80
FormatStrip(plan) == plan.w + plan.h + 4 * Guard(plan.protocol)
FormatCopies(plan) ==
    IF plan.protocol # "gray4" \/ FormatStrip(plan) >= 2 * FormatBits
    THEN IF FormatStrip(plan) >= 3 * FormatBits THEN 3 ELSE FormatStrip(plan) \div FormatBits
    ELSE 1

HeaderCells(plan) == HeaderSize * 8 * Rep(plan.ecc)

BinaryCapacity(plan) ==
    LET room == (Cells(plan) \div Rep(plan.ecc)) \div 8 - HeaderSize - 2
    IN  IF room > 0 THEN room ELSE 0

Gray4Capacity(plan) ==
    LET left == Cells(plan) - HeaderCells(plan)
        room == ((IF left > 0 THEN left ELSE 0) \div Rep(plan.ecc)) \div 4 - 2
    IN  IF room > 0 THEN room ELSE 0

\* Layered: four rows of control cells, three modules by two, and a blank row.
ControlRows == 5
ControlCells(plan) == 2 * (plan.w \div 3)
NeededControlCells == ((BootstrapBytes + BootstrapNsym) * 8) \div 2 + 8
Profile(ecc) == IF ecc \in {"Q", "H"} THEN "robust" ELSE "dense"
BodyCapacity(plan) == ((plan.h - ControlRows) * plan.w * 2) \div 8

LayeredFits(plan, size) ==
    RsEncodedSize(BodyNsym(Profile(plan.ecc)), BodyOverhead + size) <= BodyCapacity(plan)

LargestPayload(plan) ==
    LET search[low \in 0..BodyCapacity(plan), high \in 0..BodyCapacity(plan)] ==
            IF low >= high THEN low
            ELSE LET mid == (low + high + 1) \div 2
                 IN  IF LayeredFits(plan, mid) THEN search[mid, high] ELSE search[low, mid - 1]
    IN  search[0, BodyCapacity(plan)]

LayoutAccepted(plan) ==
    /\ plan.w >= 16 /\ plan.h >= 16
    /\ plan.protocol = "layered" =>
          plan.h > ControlRows /\ ControlCells(plan) >= NeededControlCells

FrameCapacity(plan) ==
    CASE plan.protocol \in {"basic", "compact"} -> BinaryCapacity(plan)
      [] plan.protocol = "gray4" -> Gray4Capacity(plan)
      [] plan.protocol = "layered" -> LargestPayload(plan)

-----------------------------------------------------------------------------
(* The frame stream's chunk size, the fill ratio in percent.                 *)

Smaller(a, b) == IF a < b THEN a ELSE b
Larger(a, b) == IF a < b THEN b ELSE a

RobustCapacity(plan) ==
    LET capacity == FrameCapacity(plan)
        ratio == Larger(5, Smaller(100, plan.fill))
    IN  Smaller(capacity, Larger(64, (capacity * ratio) \div 100))

\* A defect: the envelope is not taken off the room for a coded chunk.
ChunkSizeBare(plan) ==
    IF plan.requested > 0 THEN Smaller(plan.requested, RobustCapacity(plan)) ELSE RobustCapacity(plan)

ChunkSize(plan) ==
    LET most == IF plan.coded THEN Larger(1, RobustCapacity(plan) - Overhead)
                ELSE RobustCapacity(plan)
    IN  IF plan.requested > 0 THEN Smaller(plan.requested, most) ELSE most

\* A layered stream is given the session its frames have room for.
StreamSession(plan, session) == IF plan.protocol = "layered" THEN ShortTag(session) ELSE session

ChunkRefused(plan) == ChunkSize(plan) > FrameCapacity(plan)

\* The manifest is sent in the first of its forms that a chunk has room for: whole,
\* without its entries, with short keys (plan.manifest, their sizes). The other
\* control items are sent as they are.
ManifestForms(plan) == {i \in DOMAIN plan.manifest : plan.manifest[i] <= ChunkSize(plan)}
ManifestSize(plan) ==
    plan.manifest[CHOOSE i \in ManifestForms(plan) : \A j \in ManifestForms(plan) : i <= j]

PlanAccepted(plan) ==
    LayoutAccepted(plan) /\ ~ChunkRefused(plan) /\ ManifestForms(plan) # {}

-----------------------------------------------------------------------------
(* The encoders. A symbol has its format strip, what its first data cells    *)
(* carry and the rest, each painted under a mask.                            *)

SyncMask(frame) == ((frame.id \div 2) % 4) * 2
Spread(frame) == (frame.chunk + frame.epoch + frame.id) % 8

\* gray4 scores three masks by how they balance the header's cells; which one
\* wins depends on its bits.
Masks(plan, frame) ==
    CASE plan.protocol \in {"basic", "compact"} -> {3}
      [] plan.protocol \in {"gray4", "layered"} /\ frame.type = Sync -> {SyncMask(frame)}
      [] plan.protocol \in {"gray4", "layered"} /\ frame.type # Sync
            /\ (frame.type = End \/ frame.chunk \in ControlChunks) -> {3}
      [] plan.protocol = "gray4" /\ frame.type = Data /\ frame.chunk \notin ControlChunks ->
            {(Spread(frame) + offset) % 8 : offset \in {0, 3, 5}}
      [] plan.protocol = "layered" /\ frame.type = Data /\ frame.chunk \notin ControlChunks ->
            {Spread(frame)}

Blank == [kind |-> "blank"]
Quadrants(mask) == [kind |-> "quadrants", mask |-> mask]
\* Bits and symbols beyond the last cell are dropped without a word.
Cut(payload, fits, mask) ==
    [kind |-> "payload", mask |-> mask, content |-> IF fits THEN payload ELSE None]

BinaryFits(plan, size) == (HeaderSize + size) * 8 * Rep(plan.ecc) <= Cells(plan)
BinarySymbol(plan, frame, mask) ==
    [format |-> FormatInfo(frame.type, mask, plan.ecc),
     head |-> [mask |-> mask, content |-> MakeHeader(frame)],
     body |-> Cut(frame.payload, BinaryFits(plan, frame.payload.size), mask)]

Gray4Fits(plan, size) ==
    4 * size <= (Cells(plan) - HeaderCells(plan)) \div Rep(plan.ecc)
Gray4Symbol(plan, frame, mask) ==
    [format |-> FormatInfo(frame.type, mask, plan.ecc),
     head |-> [mask |-> mask, content |-> MakeHeader(frame)],
     body |-> IF frame.type = Sync THEN Quadrants(mask)
              ELSE Cut(frame.payload, Gray4Fits(plan, frame.payload.size), mask)]

LayeredSymbol(plan, frame, mask) ==
    [format |-> None,
     head |-> [mask |-> 0, content |-> Bootstrap(frame, Profile(plan.ecc), mask)],
     body |-> CASE frame.type = Sync -> Quadrants(mask)
                [] frame.type = Data -> Cut(BodyOf(frame), TRUE, mask)
                [] frame.type = End -> Blank]

EncodeRefused(plan, frame) ==
    \/ plan.protocol = "gray4" /\ HeaderCells(plan) > Cells(plan)
    \/ plan.protocol = "layered" /\ frame.type = Data /\ ~LayeredFits(plan, frame.payload.size)

Symbols(plan, frame) ==
    {CASE plan.protocol \in {"basic", "compact"} -> BinarySymbol(plan, frame, mask)
       [] plan.protocol = "gray4" -> Gray4Symbol(plan, frame, mask)
       [] plan.protocol = "layered" -> LayeredSymbol(plan, frame, mask) :
     mask \in IF EncodeRefused(plan, frame) THEN {} ELSE Masks(plan, frame)}
=============================================================================
