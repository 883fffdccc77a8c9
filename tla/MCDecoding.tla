----------------------------- MODULE MCDecoding -----------------------------
(* Every protocol, engine and mode on a stream of a few frames, photographed   *)
(* well with every kind of light and damage, and badly in every kind of scene. *)
EXTENDS Decoding, TLC

Light(a, b, c, d) == [ink \in Inks |-> <<a, b, c, d>>[ink + 1]]
Lights == {Shown, Light(60, 120, 180, 240), Light(40, 70, 100, 130), Light(0, 60, 200, 255),
           Light(255, 170, 85, 0), Light(100, 107, 114, 120), Light(100, 104, 107, 110)}

-----------------------------------------------------------------------------
(* Plans and their frames.                                                   *)

Plan(protocol, ecc, w, h, fill, coded) ==
    [protocol |-> protocol, ecc |-> ecc, w |-> w, h |-> h, fill |-> fill, coded |-> coded,
     requested |-> 0, manifest |-> <<382, 308, 207>>]

\* A large grid of each kind. Of basic and compact also one that the generation
\* control does not fit, a coded one with a small manifest, one too short for two
\* copies of the format, and one whose chunks no manifest fits. Layered in both
\* profiles.
Plans(protocol) ==
    IF protocol \in {"basic", "compact"}
    THEN {Plan(protocol, "L", 160, 96, 90, FALSE), Plan(protocol, "Q", 100, 61, 100, FALSE),
          Plan(protocol, "Q", 120, 72, 100, TRUE), Plan(protocol, "M", 80, 68, 100, FALSE),
          Plan(protocol, "H", 48, 34, 100, FALSE)}
    ELSE IF protocol = "gray4"
    THEN {Plan(protocol, "L", 160, 96, 100, TRUE), Plan(protocol, "Q", 160, 96, 90, FALSE)}
    ELSE {Plan(protocol, "L", 168, 60, 100, TRUE), Plan(protocol, "Q", 168, 60, 90, FALSE)}

Bytes(size, magic, name) == [size |-> size, magic |-> magic, fields |-> None, rest |-> name]
NoUnit == [kind |-> "none"]
Session(plan) == P!StreamSession(plan, 70007)
Frame(plan, type, epoch, id, chunk, payload, unit) ==
    [type |-> type, session |-> Session(plan), epoch |-> epoch, id |-> id, chunk |-> chunk,
     payload |-> payload, unit |-> unit]

CodedUnit(plan, size) ==
    [kind |-> "coded", session |-> Session(plan), equation |-> 1, seed |-> 5, degree |-> 2, scheme |-> 2,
     size |-> size, payload |-> "combined"]

\* The second sync of a stream, whose mask is that of a later data frame; manifest
\* and generation control; full chunks; a last chunk of one byte, the magic's first.
SyncFrame(plan) == Frame(plan, Sync, 0, 2, 0, Empty, NoUnit)
ManifestFrame(plan) ==
    Frame(plan, Data, 0, 3, 0, Bytes(P!ManifestSize(plan), FALSE, "manifest"), NoUnit)
ControlFrame(plan) == Frame(plan, Data, 0, 4, -4, Bytes(226, FALSE, "generation"), NoUnit)
ChunkFrame(plan, chunk, id) ==
    Frame(plan, Data, 0, id, chunk, Bytes(P!ChunkSize(plan), FALSE, "chunk" \o ToString(chunk)), NoUnit)
CodedFrame(plan) ==
    LET unit == CodedUnit(plan, P!ChunkSize(plan))
    IN  Frame(plan, Data, 0, 6, 5, EncodeCodedPayload(unit), unit)
LastFrame(plan) == Frame(plan, Data, 0, 7, 4, Bytes(1, TRUE, "S"), NoUnit)
EndFrame(plan) == Frame(plan, End, 0, 9, 0, Empty, NoUnit)

Frames(plan) ==
    {SyncFrame(plan), ManifestFrame(plan), ControlFrame(plan), ChunkFrame(plan, 1, 1),
     ChunkFrame(plan, 2, 5), LastFrame(plan), EndFrame(plan)}
        \cup (IF plan.coded THEN {CodedFrame(plan)} ELSE {})

-----------------------------------------------------------------------------
(* Pictures.                                                                 *)

Unhurt == [format |-> 0, head |-> 0, bits |-> 0, firm |-> FALSE, body |-> 0]
Hurts(plan) ==
    {Unhurt} \cup
    (IF plan.protocol = "layered"
     THEN {[Unhurt EXCEPT !.head = 7], [Unhurt EXCEPT !.head = 8],
           [Unhurt EXCEPT !.body = 4], [Unhurt EXCEPT !.body = 9]}
     ELSE {[Unhurt EXCEPT !.format = 1], [Unhurt EXCEPT !.body = 1],
           [Unhurt EXCEPT !.head = 1, !.bits = 3], [Unhurt EXCEPT !.head = 1, !.bits = 4],
           [Unhurt EXCEPT !.head = 1, !.bits = 1, !.firm = TRUE],
           [Unhurt EXCEPT !.head = 1, !.bits = 3, !.body = 2]})
Specks == {None, [ink |-> 1, level |-> 135], [ink |-> 2, level |-> 120], [ink |-> 1, level |-> 95]}

Good == [shape |-> "square", ground |-> "black", finders |-> "clear", place |-> "middle",
         window |-> TRUE, sure |-> TRUE, region |-> "around"]
Scenes ==
    [shape : {"square", "slanted", "steep"}, ground : {"black", "white", "busy"},
     finders : {"clear", "cores", "worn", "none"}, place : {"middle"}, window : BOOLEAN,
     sure : {TRUE}, region : {"around", "tight", "aside", "off"}]
    \cup [shape : {"square", "slanted"}, ground : {"black", "white", "decoys"}, finders : {"clear", "cores"},
          place : {"fills", "corner"}, window : {FALSE}, sure : {TRUE}, region : {"off"}]
    \cup {[Good EXCEPT !.sure = FALSE, !.shape = shape] : shape \in {"square", "slanted"}}

Photograph(seen, light, hurt, even, speck, scene) ==
    [symbol |-> seen.symbol, shown |-> seen.shown, light |-> light, hurt |-> hurt, even |-> even,
     speck |-> speck, shape |-> scene.shape, ground |-> scene.ground, finders |-> scene.finders,
     place |-> scene.place, window |-> scene.window, sure |-> scene.sure, region |-> scene.region]

Singles(plan) ==
    UNION {{Untorn(symbol, frame) : symbol \in P!Symbols(plan, frame)} : frame \in Frames(plan)}
Tears(plan) ==
    UNION {UNION {Torn(above, below, pair[1], pair[2]) :
                    above \in P!Symbols(plan, pair[1]), below \in P!Symbols(plan, pair[2])} :
           pair \in {<<SyncFrame(plan), ChunkFrame(plan, 1, 1)>>,
                     <<ChunkFrame(plan, 1, 1), LastFrame(plan)>>,
                     <<ChunkFrame(plan, 1, 1), ChunkFrame(plan, 2, 5)>>,
                     <<ChunkFrame(plan, 1, 1), SyncFrame(plan)>>}}

PicturesOf(plan) ==
    {Photograph(seen, light, Unhurt, even, None, Good) :
        seen \in Singles(plan) \cup Tears(plan), light \in Lights, even \in BOOLEAN}
    \cup {Photograph(seen, light, hurt, TRUE, speck, Good) :
        seen \in {seen \in Singles(plan) : seen.shown # {SyncFrame(plan)}},
        light \in {Shown, Light(60, 120, 180, 240)}, hurt \in Hurts(plan), speck \in Specks}
    \cup {Photograph(seen, light, Unhurt, TRUE, None, scene) :
        seen \in {seen \in Singles(plan) : seen.shown = {ChunkFrame(plan, 1, 1)}},
        light \in {Shown, Light(255, 170, 85, 0)}, scene \in Scenes}

AllPlans == UNION {Plans(protocol) : protocol \in Protocols}
MCPictures == [plan \in {plan \in AllPlans : P!PlanAccepted(plan)} |-> PicturesOf(plan)]

\* The body that layered's search ends with is the largest that fits (max_payload_size).
ASSUME LargestBodyFits ==
    \A plan \in {plan \in DOMAIN MCPictures : plan.protocol = "layered"} :
        /\ P!LayeredFits(plan, P!LargestPayload(plan))
        /\ ~P!LayeredFits(plan, P!LargestPayload(plan) + 1)

MCSetups ==
    [plan : AllPlans, engine : {"auto", "legacy", "new"}, mode : {"full", "roi"}]
    \cup [plan : Plans("layered"), engine : {"auto", "new"}, mode : {"stateful"}]
=============================================================================
