-------------------------------- MODULE Reader --------------------------------
(* The receiver's decoders: what each protocol makes of a picture and of the  *)
(* grid the locator laid over it.                                            *)
EXTENDS Locator, Sequences

\* The sender's side: what a plan's grid leaves room for.
P == INSTANCE Painter

(* A picture also has its symbol; how much of it is spoilt, per region: the   *)
(* copies of a bit of the format, the header or the payload, the bytes of a   *)
(* block in layered; the number of header bits that are hit (bits), and        *)
(* whether one of them is far from doubtful (firm); whether its four inks are  *)
(* evenly spread; and perhaps a speck, one payload cell of an ink at another   *)
(* level.                                                                     *)

Nothing == [decoded |-> FALSE]
Decoded(header, payload) == [decoded |-> TRUE, frame |-> DecodedFrame(header, payload)]

\* The first attempt that succeeds.
FirstDecoded(attempts) ==
    LET good == {i \in DOMAIN attempts : attempts[i] # Nothing}
    IN  IF good = {} THEN Nothing
        ELSE attempts[CHOOSE i \in good : \A j \in good : i <= j]

-----------------------------------------------------------------------------
(* basic and compact: bits, in either polarity.                              *)

\* Two copies out of three make a one; without a legible format the decoders
\* assume mask 3 and ECC Q.
BinaryFormat(plan, picture) ==
    LET copies == P!FormatCopies(plan)
    IN  IF copies - picture.hurt.format >= 2 /\ picture.hurt.format < 2
        THEN picture.symbol.format ELSE FormatInfo(None, 3, "Q")

\* The header and the payload are one stream of repeated bits.
DecodeBits(plan, picture, aligned) ==
    LET format == BinaryFormat(plan, picture)
        head == picture.symbol.head
        body == picture.symbol.body
    IN  IF /\ aligned /\ Contrasty(picture)
           /\ format.mask = head.mask /\ format.ecc = plan.ecc
           /\ VoteHolds(picture.hurt.head, Rep(format.ecc))
           /\ VoteHolds(picture.hurt.body, Rep(format.ecc))
           /\ PayloadAccepted(head.content, body.content)
        THEN Decoded(head.content, body.content) ELSE Nothing

\* basic tries the located grid and then, whatever the region, the box of what
\* is not black in the whole picture, cut at half the scale. The layout of older
\* senders never reads a symbol of this one.
Halved(picture) ==
    \/ picture.light[0] < 127 /\ picture.light[3] >= 127
    \/ picture.light[3] < 127 /\ picture.light[0] >= 127

DecodeBasic(plan, picture, engine, search) ==
    LET located == RunBasic(picture, engine, search)
    IN  IF ~located.grid.found THEN Nothing
        ELSE FirstDecoded(<<DecodeBits(plan, picture, located.grid.aligned),
                            DecodeBits(plan, picture,
                                       /\ NonBlackBox(picture, "none") = "outline"
                                       /\ Halved(picture))>>)

\* compact and gray4 retry with the legacy locator when the corners misled.
GridsToTry(picture, engine, search) ==
    LET located == RunCompact(picture, engine, search)
        again == RunCompact(picture, "legacy", search)
    IN  IF ~located.grid.found THEN <<>>
        ELSE IF engine = "auto" /\ located.engine # "legacy" /\ again.grid.found
             THEN <<located.grid, again.grid>> ELSE <<located.grid>>

\* A defect: the first grid that is found is the only one tried.
DecodeCompactOnce(plan, picture, engine, search) ==
    DecodeBits(plan, picture, RunCompact(picture, engine, search).grid.aligned)

DecodeCompact(plan, picture, engine, search) ==
    LET grids == GridsToTry(picture, engine, search)
    IN  FirstDecoded([i \in DOMAIN grids |-> DecodeBits(plan, picture, grids[i].aligned)])

-----------------------------------------------------------------------------
(* Four grey levels: centres, and what they make of a level.                 *)

Nominal == <<0, 85, 170, 255>>
Inks == 0..3

Quantize(centres, level) ==
    Cardinality({i \in 1..3 : 2 * level >= centres[i] + centres[i + 1]})

\* A level is in doubt when it lies beyond 0.55 of the way to the boundary.
Gap(centres, i) == IF centres[i + 1] - centres[i] < 2 THEN 2 ELSE centres[i + 1] - centres[i]
InDoubt(centres, level) ==
    LET ink == Quantize(centres, level)
        gaps == {Gap(centres, i) : i \in {i \in {ink, ink + 1} : i \in 1..3}}
        spacing == CHOOSE g \in gaps : \A h \in gaps : g <= h
        away == IF level < centres[ink + 1] THEN centres[ink + 1] - level
                ELSE level - centres[ink + 1]
    IN  40 * away > 11 * spacing

Increasing(means) ==
    LET second == IF means[2] <= means[1] THEN means[1] + 1 ELSE means[2]
        third == IF means[3] <= second THEN second + 1 ELSE means[3]
    IN  <<means[1], second, third, IF means[4] <= third THEN third + 1 ELSE means[4]>>

\* The centres fitted to a picture (k-means in gray4, percentiles in layered)
\* are its levels in ascending order when the inks are evenly spread, and its
\* two ends when hardly any but the darkest and lightest occur. The k-means keeps
\* to the fixed ones when the levels are closer than 24.
Ends(light) ==
    IF light[0] < light[3] THEN <<light[0], light[0] + 1, light[0] + 2, light[3]>>
    ELSE <<light[3], light[3] + 1, light[3] + 2, light[0]>>
Ascending(light) ==
    IF light[0] < light[3] THEN <<light[0], light[1], light[2], light[3]>>
    ELSE <<light[3], light[2], light[1], light[0]>>
Fitted(picture) ==
    IF picture.light[3] - picture.light[0] < 24 /\ picture.light[0] - picture.light[3] < 24
    THEN Nominal
    ELSE IF picture.even THEN Ascending(picture.light) ELSE Ends(picture.light)

\* How many of 36 cells a mask inverts.
Density(mask) == [m \in 0..7 |-> IF m \in {2, 3} THEN 12 ELSE IF m = 6 THEN 13 ELSE 18][mask]

\* The mean of each quadrant of a sync frame. The quadrants were painted under
\* the mask and are averaged without it; anything else averages out.
SyncCentres(picture) ==
    LET light == picture.light
        even == (light[0] + light[1] + light[2] + light[3]) \div 4
        body == picture.symbol.body
        Mean(ink) ==
            IF body.kind # "quadrants" THEN even
            ELSE ((36 - Density(body.mask)) * light[ink] + Density(body.mask) * light[3 - ink])
                     \div 36
    IN  Increasing(<<Mean(0), Mean(1), Mean(2), Mean(3)>>)

ReadsInks(centres, picture) == \A ink \in Inks : Quantize(centres, picture.light[ink]) = ink
Misread(centres, picture) ==
    picture.speck # None /\ Quantize(centres, picture.speck.level) # picture.speck.ink

BinaryLegible(picture) == picture.light[0] < picture.light[3] /\ Contrasty(picture)

-----------------------------------------------------------------------------
(* gray4.                                                                     *)

\* Every copy must agree; without a legible format all masks and ECC levels are
\* tried, and only the painted ones pass the header's check sum.
Gray4Format(picture) ==
    IF picture.hurt.format = 0 THEN picture.symbol.format
    ELSE FormatInfo(None, picture.symbol.head.mask, None)

\* Up to three bits of the header are guessed, among the twelve most in doubt when
\* the readings under all thresholds are added up. (Two among the eight of a single
\* reading, tried before, are not told apart from these.)
Gray4Header(plan, picture) ==
    LET format == Gray4Format(picture)
        head == picture.symbol.head
    IN  IF /\ BinaryLegible(picture)
           /\ format.mask = head.mask /\ format.ecc \in {plan.ecc, None}
           /\ \/ VoteHolds(picture.hurt.head, Rep(plan.ecc))
              \/ picture.hurt.bits <= 3 /\ ~picture.hurt.firm
        THEN head.content ELSE None

VariantReads(plan, centres, picture) ==
    /\ ReadsInks(centres, picture)
    /\ SymbolVoteHolds(picture.hurt.body
                         + (IF Misread(centres, picture) THEN 1 ELSE 0), Rep(plan.ecc))

\* When no variant reads the payload, the cell most in doubt of the last one
\* gets the smallest other value a variant gave it: the first trial is kept, so
\* no second is ever checked.
SearchReads(plan, variants, picture) ==
    LET base == variants[Len(variants)]
        level == picture.speck.level
        others == {Quantize(variants[i], level) : i \in DOMAIN variants} \ {Quantize(base, level)}
    IN  /\ picture.speck # None
        /\ others # {}
        /\ ReadsInks(base, picture)
        /\ SymbolVoteHolds(picture.hurt.body, Rep(plan.ecc))
        /\ InDoubt(base, level)
        /\ picture.speck.ink = CHOOSE v \in others : \A w \in others : v <= w

Variants(picture, cached) ==
    <<Nominal>> \o (IF Fitted(picture) # Nominal THEN <<Fitted(picture)>> ELSE <<>>)
                \o (IF cached # None THEN <<cached>> ELSE <<>>)

DecodeGray4(plan, picture, cache, aligned) ==
    LET header == Gray4Header(plan, picture)
        body == picture.symbol.body
        mask == picture.symbol.head.mask
        variants == Variants(picture, cache[mask])
        reads == \/ \E i \in DOMAIN variants : VariantReads(plan, variants[i], picture)
                 \/ Len(variants) >= 2 /\ SearchReads(plan, variants, picture)
    IN  IF ~aligned \/ header = None THEN Nothing
        ELSE IF header.length = 0 THEN Decoded(header, Empty)
        ELSE IF /\ body.kind = "payload"
                /\ body.mask = mask
                /\ reads
                /\ PayloadAccepted(header, body.content)
             THEN Decoded(header, body.content) ELSE Nothing

\* The box of what is not black, its cells sampled as they stand.
BoxSampled(picture) == NonBlackBox(picture, "none") = "outline"
DecodeAxisAligned(plan, picture, cache) ==
    DecodeGray4(plan, picture, cache, BoxSampled(picture))

\* A search of the whole picture takes that shortcut first.
DecodeFrameGray4(plan, picture, engine, search, cache) ==
    LET axis == IF search = "none" THEN DecodeAxisAligned(plan, picture, cache) ELSE Nothing
        grids == GridsToTry(picture, engine, search)
        located == FirstDecoded([i \in DOMAIN grids |->
                                    DecodeGray4(plan, picture, cache, grids[i].aligned)])
    IN  IF axis # Nothing THEN axis ELSE located

-----------------------------------------------------------------------------
(* layered.                                                                   *)

\* The reference strip's two levels, and the cells compared with them.
ControlLegible(picture) == picture.light[3] - picture.light[0] >= 12

LayeredBootstrap(picture) ==
    IF ControlLegible(picture) /\ RsDecodes(BootstrapNsym, picture.hurt.head)
    THEN picture.symbol.head.content ELSE None

\* A defect: the cached levels stand in for the fixed ones and for the picture's.
LayeredVariantsReplaced(picture, cached) ==
    IF cached # None THEN <<cached>> ELSE <<Nominal, Ascending(picture.light)>>

\* Fixed levels, the cached ones of the mask, the picture's own: the first that
\* passes Reed-Solomon and both check sums.
LayeredVariants(picture, cached) ==
    <<Nominal>> \o (IF cached # None THEN <<cached>> ELSE <<>>)
                \o <<IF picture.even THEN Ascending(picture.light) ELSE Ends(picture.light)>>

BodyReads(bootstrap, centres, picture) ==
    /\ ReadsInks(centres, picture)
    /\ RsDecodes(BodyNsym(bootstrap.profile),
                 picture.hurt.body + (IF Misread(centres, picture) THEN 1 ELSE 0))

DecodeLayered(picture, cache, aligned) ==
    LET bootstrap == LayeredBootstrap(picture)
        body == picture.symbol.body
        variants == LayeredVariants(picture, cache[bootstrap.mask])
    IN  IF ~aligned \/ bootstrap = None THEN Nothing
        ELSE IF bootstrap.type # Data THEN Decoded(BareHeader(bootstrap), Empty)
        ELSE IF /\ body.kind = "payload"
                /\ body.mask = bootstrap.mask
                /\ \E i \in DOMAIN variants : BodyReads(bootstrap, variants[i], picture)
                /\ BodyAccepted(bootstrap, body.content)
             THEN Decoded(LayeredHeader(bootstrap, body.content), body.content.payload)
             ELSE Nothing

\* layered does not retry with the legacy locator.
DecodeFrameLayered(picture, engine, search, cache) ==
    LET located == RunCompact(picture, engine, search)
    IN  DecodeLayered(picture, cache, located.grid.found /\ located.grid.aligned)

-----------------------------------------------------------------------------
(* The adapters.                                                              *)

Search(mode, region) == IF mode = "roi" THEN region ELSE "none"

DecodeFrame(plan, picture, engine, search, cache) ==
    CASE plan.protocol = "basic" -> DecodeBasic(plan, picture, engine, search)
      [] plan.protocol = "compact" -> DecodeCompact(plan, picture, engine, search)
      [] plan.protocol = "gray4" -> DecodeFrameGray4(plan, picture, engine, search, cache)
      [] plan.protocol = "layered" -> DecodeFrameLayered(picture, engine, search, cache)

\* gray4 and layered keep the centres of a sync frame under its mask.
Calibrated(plan, picture, result, cache) ==
    LET mask == IF plan.protocol = "gray4" THEN picture.symbol.head.mask
                ELSE picture.symbol.head.content.mask
    IN  IF plan.protocol \in {"gray4", "layered"} /\ result # Nothing
              /\ result.frame.header.type = Sync
        THEN [cache EXCEPT ![mask] = SyncCentres(picture)] ELSE cache
=============================================================================
