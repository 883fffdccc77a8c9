------------------------------- MODULE Decoding -------------------------------
(* A receiver's decoder at work on one picture after another: what it returns *)
(* and what it remembers. The sender shows frames of one stream; a picture may *)
(* be torn between two of them, spoilt, badly lit, or badly framed.           *)
EXTENDS Reader

CONSTANTS Setups,    \* the plan of the sender, the engine and mode of the receiver
          Pictures,  \* the pictures that are taken of a plan's frames
          Threshold  \* lock_fail_reacquire_threshold (5 in the code)

VARIABLES
    setup,     \* the plan, the engine, the mode
    cache,     \* centres by mask, from the sync frames decoded so far
    geometry,  \* a stateful replay's: the grid it is locked on
    streak,    \* failures in a row under that lock
    picture,   \* the picture just decoded
    used,      \* the grid that was kept when it was decoded
    result     \* what came of it

tracker == <<geometry, streak>>
vars == <<setup, cache, tracker, picture, used, result>>

Uncalibrated == [mask \in 0..7 |-> None]

-----------------------------------------------------------------------------
(* What is on the screen.                                                    *)

Untorn(symbol, frame) == [symbol |-> symbol, shown |-> {frame}]

\* The screen changed while the picture was taken: the rows above are the old
\* frame's. The format's strip has two copies in the row above the data.
Torn(above, below, old, new) ==
    {[symbol |-> [above EXCEPT !.head = below.head, !.body = below.body], shown |-> {old, new}],
     [symbol |-> [above EXCEPT !.body = below.body], shown |-> {old, new}]}

\* The unit the sender meant by a frame.
Meant(frame) ==
    IF frame.unit.kind = "coded" /\ frame.type = Data THEN frame.unit
    ELSE IF frame.type = Data /\ frame.chunk \notin ControlChunks
         THEN [kind |-> "systematic", session |-> frame.session, index |-> frame.chunk,
               size |-> frame.payload.size, payload |-> frame.payload]
         ELSE [kind |-> "none"]

-----------------------------------------------------------------------------
(* What can be sent and seen.                                                *)

PlanOK(plan) ==
    /\ plan.protocol \in Protocols /\ plan.ecc \in EccLevels /\ plan.coded \in BOOLEAN
    /\ {plan.w, plan.h, plan.fill, plan.requested} \subseteq Nat
    /\ plan.manifest \in Seq(Nat) /\ \A i \in DOMAIN plan.manifest : plan.manifest[i] > 1

\* A coded unit in its envelope.
CodedOK(plan, frame) ==
    LET unit == frame.unit
    IN  /\ plan.coded /\ frame.type = Data /\ frame.chunk \notin ControlChunks
        /\ unit = [kind |-> "coded", session |-> frame.session, equation |-> unit.equation,
                   seed |-> unit.seed, degree |-> unit.degree, scheme |-> unit.scheme,
                   size |-> unit.size, payload |-> unit.payload]
        /\ unit.size \in 1..P!ChunkSize(plan) /\ unit.degree \in Nat \ {0} /\ unit.scheme \in Schemes
        /\ frame.payload = EncodeCodedPayload(unit)

\* A frame of the plan's stream: chunks are at most as large as planned.
FrameOK(plan, frame) ==
    /\ frame.type \in {Sync, Data, End} /\ frame.chunk \in Int
    /\ {frame.id, frame.epoch, frame.session, frame.payload.size} \subseteq Nat
    /\ frame.session = P!StreamSession(plan, frame.session)
    /\ frame.payload.size = 0 \/ frame.type # Data => frame.payload = Empty
    /\ frame.unit.kind = "coded" => CodedOK(plan, frame)
    /\ frame.unit.kind # "coded" /\ frame.type = Data =>
          /\ frame.chunk \notin ControlChunks => frame.payload.size <= P!ChunkSize(plan)
          /\ frame.chunk = 0 => frame.payload.size = P!ManifestSize(plan)
    /\ None \notin {frame.payload, BodyOf(frame)}

\* A picture of one symbol, or torn between those of two frames.
PictureOK(plan, p) ==
    /\ \A frame \in p.shown : FrameOK(plan, frame)
    /\ \A old, new \in p.shown : old.session = new.session
    /\ LET seen == [symbol |-> p.symbol, shown |-> p.shown]
       IN  \E old, new \in p.shown :
              \E above \in P!Symbols(plan, old), below \in P!Symbols(plan, new) :
                 seen = Untorn(above, old) \/ (old # new /\ seen \in Torn(above, below, old, new))
    /\ None # p.symbol.head.content

ASSUME DecodingAssumption ==
    /\ Legible \in 1..255 /\ Black \in 0..254
    /\ None \notin {"outline", "inner", "centres", "other"}
    /\ \A s \in Setups : PlanOK(s.plan) /\ (s.mode = "stateful" => s.plan.protocol = "layered")
    /\ \A plan \in {s.plan : s \in Setups} :
          P!PlanAccepted(plan) => \A p \in Pictures[plan] : PictureOK(plan, p)

-----------------------------------------------------------------------------
Init ==
    /\ setup \in {s \in Setups : P!PlanAccepted(s.plan)}
    /\ cache = Uncalibrated
    /\ geometry = None /\ streak = 0
    /\ picture = None /\ used = None
    /\ result = Nothing

Ready == picture = None

Keep(p, outcome) ==
    /\ picture' = p
    /\ used' = geometry
    /\ result' = outcome
    /\ cache' = Calibrated(setup.plan, p, outcome, cache)
    /\ UNCHANGED setup

\* decode_frame of the adapter: every picture by itself.
Decode(p) ==
    /\ setup.mode # "stateful"
    /\ Keep(p, DecodeFrame(setup.plan, p, setup.engine, Search(setup.mode, p.region), cache))
    /\ UNCHANGED tracker

\* A replay of layered frames may keep a grid instead (stateful): where the symbol
\* stood, and whether the grid lay on it.
Locked == geometry # None
Grid(p, located) == [shape |-> p.shape, aligned |-> located.found /\ located.aligned]

\* It is located in the whole picture: the replay's locator has no region.
LocateGeometry(p) == Grid(p, RunCompact(p, setup.engine, "none").grid)
DecodeWithGeometry(p, grid) == DecodeLayered(p, cache, grid.aligned /\ grid.shape = p.shape)

\* _decode_frame_stateful under a lock: the symbol is read where it stood; enough
\* failures in a row lose the lock.
Reuse(p) ==
    /\ setup.mode = "stateful" /\ Locked
    /\ LET outcome == DecodeWithGeometry(p, geometry)
           loses == outcome = Nothing /\ streak + 1 >= Threshold
       IN  /\ Keep(p, outcome)
           /\ geometry' = IF loses THEN None ELSE geometry
           /\ streak' = IF outcome # Nothing \/ loses THEN 0 ELSE streak + 1

\* Without a lock: a decoded frame locks the grid it was decoded with when its
\* quality suffices. Failures count here too, but a lock starts at none.
Acquire(p) ==
    /\ setup.mode = "stateful" /\ ~Locked
    /\ LET grid == LocateGeometry(p)
           outcome == DecodeWithGeometry(p, grid)
       IN  /\ Keep(p, outcome)
           /\ geometry' = IF outcome # Nothing /\ p.sure THEN grid ELSE None
    /\ UNCHANGED streak

NextPicture ==
    /\ ~Ready
    /\ picture' = None /\ used' = None
    /\ result' = Nothing
    /\ UNCHANGED <<setup, cache, tracker>>

Next ==
    \/ /\ Ready
       /\ \E p \in Pictures[setup.plan] :
             Decode(p) \/ Reuse(p) \/ Acquire(p)
    \/ NextPicture

Spec == Init /\ [][Next]_vars

-----------------------------------------------------------------------------
(* Properties.                                                               *)

Shows(frame, decoded) ==
    /\ decoded.header.type = frame.type
    /\ decoded.header.session = frame.session
    /\ decoded.header.type = Data =>
          /\ decoded.header.chunk = frame.chunk
          /\ decoded.payload = frame.payload

\* A frame that is decoded was on the screen, payload and all, however the
\* picture was torn, spoilt or misread; and a search that is confined to a region
\* the symbol is not in finds nothing, but for basic, whose last resort looks at
\* the whole picture.
OnlyWhatIsShown ==
    result # Nothing =>
        /\ \E frame \in picture.shown : Shows(frame, result.frame)
        /\ Search(setup.mode, picture.region) = "aside" => setup.plan.protocol = "basic"

\* The symbol no longer stands where the grid was kept.
Moved == used # None /\ used.shape # picture.shape

\* What the receiver remembers never costs it a frame that it would have decoded
\* without: neither the centres taken from sync frames (always in layered, and in
\* gray4 whenever one of the plain readings is right, without the search for a
\* doubtful symbol), nor the grid a stateful replay keeps, as long as the symbol
\* stands still.
MemoryNeverHurts ==
    picture # None /\ ~Moved =>
        LET search == Search(setup.mode, picture.region)
            fresh == DecodeFrame(setup.plan, picture, setup.engine, search, Uncalibrated)
        IN  fresh # Nothing /\ (picture.speck = None \/ setup.plan.protocol = "layered") =>
                result = fresh

\* Asking for the automatic choice of locator never does worse than asking for
\* the legacy one, whatever the corners made the receiver believe.
AutoIsNoWeaker ==
    /\ picture # None
    /\ setup.engine = "auto"
    /\ setup.plan.protocol \in {"compact", "gray4"}
    /\ DecodeFrame(setup.plan, picture, "legacy", Search(setup.mode, picture.region), cache)
          # Nothing
    => result # Nothing

\* The inks as the sender shows them.
Shown == [ink \in Inks |-> Nominal[ink + 1]]

Clean(p) ==
    /\ p.light = Shown /\ p.shape = "square" /\ Plain(p) /\ p.finders = "clear"
    /\ p.place # "corner" /\ p.sure
    /\ p.hurt = [format |-> 0, head |-> 0, bits |-> 0, firm |-> FALSE, body |-> 0]
    /\ p.speck = None
    /\ Cardinality(p.shown) = 1

\* The stream's own frames come back: a clean picture of a planned frame gives
\* what its sender meant, for chunks as large as the plan makes them, for coded
\* ones in their envelope and for the manifest in whatever form it took, unless a
\* replay is still locked on another place. Left out is what the code cannot bring
\* back: a grid whose strip has no room for two copies of the format, under an ECC
\* level the decoders do not assume; a chunk that begins as the envelope does; and
\* a control item other than the manifest that is larger than the frame.
CleanFramesComeBack ==
    /\ picture # None
    /\ Clean(picture)
    /\ Search(setup.mode, picture.region) \in {"none", "around"}
    /\ setup.engine # "new" /\ ~Moved
    /\ setup.plan.protocol \in {"basic", "compact"} =>
          P!FormatCopies(setup.plan) >= 2 \/ setup.plan.ecc = "Q"
    => \A frame \in picture.shown :
          /\ frame.unit.kind = "coded" \/ ~frame.payload.magic \/ frame.type # Data
          /\ frame.chunk \in ControlChunks \ {0} =>
                frame.payload.size <= P!FrameCapacity(setup.plan)
          => /\ result # Nothing
             /\ result.frame.unit = Meant(frame)
=============================================================================
