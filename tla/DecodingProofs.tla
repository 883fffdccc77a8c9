---------------------------- MODULE DecodingProofs ----------------------------
(***************************************************************************)
(* What holds of the decoders for every plan of a stream, every picture of *)
(* its frames and every history of pictures: what is decoded was shown;    *)
(* memory costs nothing; the automatic locator is no weaker than the       *)
(* legacy one; and a clean picture gives back what was sent.               *)
(*                                                                         *)
(* Every decoder, whatever its retries, is of one form (FindsAndReads):    *)
(* some grid that is tried lies on the symbol, and then the symbol is read *)
(* from the picture and what is remembered.  A kept grid lay on the symbol *)
(* too (DInv).  So what a search does and what a reading does can be told  *)
(* apart, and memory only ever concerns the reading.                       *)
(***************************************************************************)
EXTENDS Decoding, FiniteSetTheorems, SequenceTheorems, WellFoundedInduction, TLAPS

-----------------------------------------------------------------------------
(* Attempts.                                                                 *)

\* A set of naturals has a least member.
LEMMA LeastOf ==
  ASSUME NEW S \in SUBSET Nat, S # {}
  PROVE  \E x \in S : \A y \in S : x <= y
<1>1. PICK x \in S : \A y \in S : ~ (<<y, x>> \in OpToRel(<, Nat))
  BY NatLessThanWellFounded, WFMin
<1>2. \A y \in S : ~(y < x)
  BY <1>1 DEF OpToRel
<1> QED
  BY <1>2

\* Attempts that succeed alike succeed when one of them does.
LEMMA FirstOfAlike ==
  ASSUME NEW attempts, DOMAIN attempts \in SUBSET Nat, NEW v,
         \A i \in DOMAIN attempts : attempts[i] \in {Nothing, v}
  PROVE  FirstDecoded(attempts) = IF \E i \in DOMAIN attempts : attempts[i] # Nothing
                                  THEN v ELSE Nothing
<1> DEFINE good == {i \in DOMAIN attempts : attempts[i] # Nothing}
<1>1. CASE good = {}
  BY <1>1 DEF FirstDecoded
<1>2. CASE good # {}
  <2>1. \E i \in good : \A j \in good : i <= j
    BY <1>2, LeastOf
  <2>2. FirstDecoded(attempts) = attempts[CHOOSE i \in good : \A j \in good : i <= j]
    BY <1>2 DEF FirstDecoded
  <2>3. (CHOOSE i \in good : \A j \in good : i <= j) \in good
    BY <2>1
  <2> QED BY <2>2, <2>3
<1> QED
  BY <1>1, <1>2

\* One attempt on each grid, where only an aligned one can succeed.
LEMMA FirstOfGrids ==
  ASSUME NEW grids, DOMAIN grids \in SUBSET Nat, NEW v,
         NEW attempts, DOMAIN attempts = DOMAIN grids,
         \A i \in DOMAIN grids : attempts[i] = IF grids[i].aligned THEN v ELSE Nothing
  PROVE  FirstDecoded(attempts) = IF \E i \in DOMAIN grids : grids[i].aligned THEN v ELSE Nothing
<1>1. FirstDecoded(attempts) = IF \E i \in DOMAIN attempts : attempts[i] # Nothing
                               THEN v ELSE Nothing
  BY FirstOfAlike
<1> QED
  BY <1>1

-----------------------------------------------------------------------------
(* A decoder locates the symbol and reads it: on an aligned grid it reads    *)
(* what it reads, on another nothing.                                        *)

\* The located grids lie on the symbol, one of them.
Finds(plan, p, engine, search) ==
    CASE plan.protocol = "basic" ->
            LET grid == RunBasic(p, engine, search).grid
            IN  grid.found /\ (grid.aligned \/ (NonBlackBox(p, "none") = "outline" /\ Halved(p)))
      [] plan.protocol \in {"compact", "gray4"} ->
            \/ plan.protocol = "gray4" /\ search = "none" /\ BoxSampled(p)
            \/ LET grids == GridsToTry(p, engine, search)
               IN  \E i \in DOMAIN grids : grids[i].aligned
      [] plan.protocol = "layered" ->
            RunCompact(p, engine, search).grid.found /\ RunCompact(p, engine, search).grid.aligned

\* What is read then.
Reads(plan, p, centres) ==
    CASE plan.protocol \in {"basic", "compact"} -> DecodeBits(plan, p, TRUE)
      [] plan.protocol = "gray4" -> DecodeGray4(plan, p, centres, TRUE)
      [] plan.protocol = "layered" -> DecodeLayered(p, centres, TRUE)

\* Grids are tried in order.
LEMMA GridsAreNumbered ==
  ASSUME NEW p, NEW engine, NEW search
  PROVE  DOMAIN GridsToTry(p, engine, search) \in SUBSET Nat
BY DEF GridsToTry

\* Off the symbol nothing is read.
LEMMA BitsOnGrid ==
  ASSUME NEW plan, NEW p, NEW aligned
  PROVE  DecodeBits(plan, p, aligned) = IF aligned THEN DecodeBits(plan, p, TRUE) ELSE Nothing
BY DEF DecodeBits

\* The same of gray4.
LEMMA Gray4OnGrid ==
  ASSUME NEW plan, NEW p, NEW centres, NEW aligned
  PROVE  DecodeGray4(plan, p, centres, aligned)
            = IF aligned THEN DecodeGray4(plan, p, centres, TRUE) ELSE Nothing
BY DEF DecodeGray4

\* And of layered.
LEMMA LayeredOnGrid ==
  ASSUME NEW p, NEW centres, NEW aligned
  PROVE  DecodeLayered(p, centres, aligned)
            = IF aligned THEN DecodeLayered(p, centres, TRUE) ELSE Nothing
BY DEF DecodeLayered

\* Every decoder is of that form.
LEMMA FindsAndReads ==
  ASSUME NEW plan, plan.protocol \in Protocols, NEW p, NEW engine, NEW search, NEW centres
  PROVE  DecodeFrame(plan, p, engine, search, centres)
            = IF Finds(plan, p, engine, search) THEN Reads(plan, p, centres) ELSE Nothing
<1> DEFINE grids == GridsToTry(p, engine, search)
<1>0. DOMAIN grids \in SUBSET Nat
  BY GridsAreNumbered
<1>1. CASE plan.protocol = "basic"
  <2> DEFINE grid == RunBasic(p, engine, search).grid
             box == NonBlackBox(p, "none") = "outline" /\ Halved(p)
             v == DecodeBits(plan, p, TRUE)
             attempts == <<DecodeBits(plan, p, grid.aligned), DecodeBits(plan, p, box)>>
  <2>1. DecodeFrame(plan, p, engine, search, centres)
          = IF ~grid.found THEN Nothing ELSE FirstDecoded(attempts)
    BY <1>1 DEF DecodeFrame, DecodeBasic
  <2>2. /\ DecodeBits(plan, p, grid.aligned) = IF grid.aligned THEN v ELSE Nothing
        /\ DecodeBits(plan, p, box) = IF box THEN v ELSE Nothing
    BY BitsOnGrid
  <2>3. Finds(plan, p, engine, search) = (grid.found /\ (grid.aligned \/ box))
    BY <1>1 DEF Finds
  <2>4. Reads(plan, p, centres) = v
    BY <1>1 DEF Reads
  <2> HIDE DEF grid, box, v
  <2>5. /\ DOMAIN attempts = 1..2 /\ attempts[1] = DecodeBits(plan, p, grid.aligned)
        /\ attempts[2] = DecodeBits(plan, p, box)
    OBVIOUS
  <2> HIDE DEF attempts
  <2>6. FirstDecoded(attempts) = IF \E i \in DOMAIN attempts : attempts[i] # Nothing
                                 THEN v ELSE Nothing
    BY <2>2, <2>5, FirstOfAlike
  <2>7. (\E i \in DOMAIN attempts : attempts[i] # Nothing) <=> (grid.aligned \/ box) /\ v # Nothing
    BY <2>2, <2>5
  <2> QED BY <2>1, <2>3, <2>4, <2>6, <2>7
<1>2. CASE plan.protocol = "compact"
  <2> DEFINE v == DecodeBits(plan, p, TRUE)
             attempts == [i \in DOMAIN grids |-> DecodeBits(plan, p, grids[i].aligned)]
  <2>1. /\ DOMAIN attempts = DOMAIN grids
        /\ \A i \in DOMAIN grids : attempts[i] = IF grids[i].aligned THEN v ELSE Nothing
    BY BitsOnGrid
  <2>2. DecodeFrame(plan, p, engine, search, centres) = FirstDecoded(attempts)
    BY <1>2 DEF DecodeFrame, DecodeCompact
  <2>3. Finds(plan, p, engine, search) <=> \E i \in DOMAIN grids : grids[i].aligned
    BY <1>2 DEF Finds
  <2>4. Reads(plan, p, centres) = v
    BY <1>2 DEF Reads
  <2> HIDE DEF attempts, v, grids
  <2>5. FirstDecoded(attempts) = IF \E i \in DOMAIN grids : grids[i].aligned THEN v ELSE Nothing
    BY <1>0, <2>1, FirstOfGrids
  <2> QED BY <2>2, <2>3, <2>4, <2>5
<1>3. CASE plan.protocol = "gray4"
  <2> DEFINE v == DecodeGray4(plan, p, centres, TRUE)
             attempts == [i \in DOMAIN grids |-> DecodeGray4(plan, p, centres, grids[i].aligned)]
             axis == IF search = "none" THEN DecodeAxisAligned(plan, p, centres) ELSE Nothing
  <2>1. /\ DOMAIN attempts = DOMAIN grids
        /\ \A i \in DOMAIN grids : attempts[i] = IF grids[i].aligned THEN v ELSE Nothing
    BY Gray4OnGrid
  <2>2. DecodeFrame(plan, p, engine, search, centres)
          = IF axis # Nothing THEN axis ELSE FirstDecoded(attempts)
    BY <1>3 DEF DecodeFrame, DecodeFrameGray4
  <2>3. axis = IF search = "none" /\ BoxSampled(p) THEN v ELSE Nothing
    BY Gray4OnGrid DEF DecodeAxisAligned
  <2>4. Finds(plan, p, engine, search)
          <=> (search = "none" /\ BoxSampled(p)) \/ \E i \in DOMAIN grids : grids[i].aligned
    BY <1>3 DEF Finds
  <2>5. Reads(plan, p, centres) = v
    BY <1>3 DEF Reads
  <2> HIDE DEF grids, attempts, v, axis
  <2>6. FirstDecoded(attempts) = IF \E i \in DOMAIN grids : grids[i].aligned THEN v ELSE Nothing
    BY <1>0, <2>1, FirstOfGrids
  <2> QED BY <2>2, <2>3, <2>4, <2>5, <2>6
<1>4. CASE plan.protocol = "layered"
  BY <1>4, LayeredOnGrid DEF DecodeFrame, DecodeFrameLayered, Finds, Reads
<1> QED
  BY <1>1, <1>2, <1>3, <1>4 DEF Protocols

-----------------------------------------------------------------------------
(* What a decoder returned, from what it remembered before.                  *)

\* The symbol was found: by the locator, or because it still stood where the kept grid
\* was.
Located ==
    IF used = None
    THEN Finds(setup.plan, picture, setup.engine, Search(setup.mode, picture.region))
    ELSE used.shape = picture.shape

\* A kept grid lay on the symbol. What was returned was read with what was remembered
\* before, and a failure leaves that as it is.
DInv ==
    /\ setup \in Setups /\ P!PlanAccepted(setup.plan)
    /\ geometry # None => setup.mode = "stateful" /\ geometry.aligned
    /\ \/ picture = None /\ used = None /\ result = Nothing
       \/ /\ picture \in Pictures[setup.plan]
          /\ used # None => setup.mode = "stateful"
          /\ \E before :
                /\ result = IF Located THEN Reads(setup.plan, picture, before) ELSE Nothing
                /\ result = Nothing => cache = before

\* At first nothing was decoded.
LEMMA DecodingInit == Init => DInv
BY DEF Init, DInv

\* A setup is as assumed.
LEMMA SetupIsOK ==
  ASSUME setup \in Setups
  PROVE  PlanOK(setup.plan) /\ (setup.mode = "stateful" => setup.plan.protocol = "layered")
BY DecodingAssumption

\* A failure calibrates nothing.
LEMMA FailuresTeachNothing ==
  ASSUME NEW plan, NEW p, NEW before
  PROVE  Calibrated(plan, p, Nothing, before) = before
BY DEF Calibrated

\* A step keeps the invariant.
LEMMA DecodingStep == DInv /\ [Next]_vars => DInv'
<1> SUFFICES ASSUME DInv, [Next]_vars PROVE DInv'
  OBVIOUS
<1>1. /\ setup \in Setups /\ P!PlanAccepted(setup.plan)
      /\ geometry # None => setup.mode = "stateful" /\ geometry.aligned
      /\ setup.plan.protocol \in Protocols
      /\ setup.mode = "stateful" => setup.plan.protocol = "layered"
  BY SetupIsOK DEF DInv, PlanOK
<1>2. ASSUME NEW p \in Pictures[setup.plan], Decode(p)
      PROVE  DInv'
  <2>1. /\ setup.mode # "stateful" /\ geometry = None
        /\ UNCHANGED <<setup, geometry>> /\ picture' = p /\ used' = None
        /\ result' = DecodeFrame(setup.plan, p, setup.engine, Search(setup.mode, p.region), cache)
        /\ cache' = Calibrated(setup.plan, p, result', cache)
    BY <1>1, <1>2 DEF Decode, Keep, tracker
  <2>2. Located' <=> Finds(setup.plan, p, setup.engine, Search(setup.mode, p.region))
    BY <2>1 DEF Located
  <2>3. result' = IF Located' THEN Reads(setup.plan, p, cache) ELSE Nothing
    BY <1>1, <2>1, <2>2, FindsAndReads
  <2>4. result' = Nothing => cache' = cache
    BY <2>1, FailuresTeachNothing
  <2> QED BY <1>1, <2>1, <2>3, <2>4 DEF DInv
<1>3. ASSUME NEW p \in Pictures[setup.plan], Reuse(p)
      PROVE  DInv'
  <2>1. /\ setup.mode = "stateful" /\ geometry # None
        /\ UNCHANGED setup /\ picture' = p /\ used' = geometry /\ geometry' \in {None, geometry}
        /\ result' = DecodeLayered(p, cache, geometry.aligned /\ geometry.shape = p.shape)
        /\ cache' = Calibrated(setup.plan, p, result', cache)
    BY <1>3 DEF Reuse, Keep, Locked, DecodeWithGeometry
  <2>2. Located' <=> geometry.shape = p.shape
    BY <2>1 DEF Located
  <2>3. result' = IF geometry.aligned /\ geometry.shape = p.shape
                  THEN DecodeLayered(p, cache, TRUE) ELSE Nothing
    BY <2>1, LayeredOnGrid
  <2>4. Reads(setup.plan, p, cache) = DecodeLayered(p, cache, TRUE)
    BY <1>1, <2>1 DEF Reads
  <2>5. result' = IF Located' THEN Reads(setup.plan, p, cache) ELSE Nothing
    BY <1>1, <2>1, <2>2, <2>3, <2>4
  <2>6. result' = Nothing => cache' = cache
    BY <2>1, FailuresTeachNothing
  <2> QED BY <1>1, <2>1, <2>5, <2>6 DEF DInv
<1>4. ASSUME NEW p \in Pictures[setup.plan], Acquire(p)
      PROVE  DInv'
  <2> DEFINE located == RunCompact(p, setup.engine, "none").grid
             grid == LocateGeometry(p)
  <2>1. /\ setup.mode = "stateful" /\ geometry = None
        /\ UNCHANGED setup /\ picture' = p /\ used' = geometry
        /\ geometry' = IF result' # Nothing /\ p.sure THEN grid ELSE None
        /\ result' = DecodeLayered(p, cache, grid.aligned /\ grid.shape = p.shape)
        /\ cache' = Calibrated(setup.plan, p, result', cache)
    BY <1>4 DEF Acquire, Keep, Locked, DecodeWithGeometry
  <2>2. grid.shape = p.shape /\ grid.aligned = (located.found /\ located.aligned)
    BY DEF LocateGeometry, Grid
  <2>3. Located' <=> located.found /\ located.aligned
    BY <1>1, <2>1 DEF Located, Finds, Search
  <2> HIDE DEF grid, located
  <2>4. result' = IF grid.aligned THEN DecodeLayered(p, cache, TRUE) ELSE Nothing
    BY <2>1, <2>2, LayeredOnGrid
  <2>5. Reads(setup.plan, p, cache) = DecodeLayered(p, cache, TRUE)
    BY <1>1, <2>1 DEF Reads
  <2>6. result' = IF Located' THEN Reads(setup.plan, p, cache) ELSE Nothing
    BY <2>2, <2>3, <2>4, <2>5
  <2>7. result' = Nothing => cache' = cache
    BY <2>1, FailuresTeachNothing
  <2>8. geometry' # None => geometry'.aligned
    BY <2>1, <2>4
  <2> QED BY <1>1, <2>1, <2>6, <2>7, <2>8 DEF DInv
<1>5. CASE NextPicture
  BY <1>1, <1>5 DEF NextPicture, tracker, DInv
<1>6. CASE UNCHANGED vars
  BY <1>6 DEF vars, tracker, DInv, Located
<1> QED
  BY <1>2, <1>3, <1>4, <1>5, <1>6 DEF Next

\* So it always holds.
LEMMA DecodingInvariant == Spec => []DInv
BY DecodingInit, DecodingStep, PTL DEF Spec

-----------------------------------------------------------------------------
(* The automatic locator.                                                    *)

\* It tries the legacy locator's grid, or has nothing else.
LEMMA AutoTriesLegacy ==
  ASSUME NEW plan, plan.protocol \in {"compact", "gray4"}, NEW p, NEW search,
         Finds(plan, p, "legacy", search)
  PROVE  Finds(plan, p, "auto", search)
<1> DEFINE legacy == LocateLegacy(p, search)  corners == LocateCorners(p, search)
<1>1. legacy.found = TRUE
  BY DEF LocateLegacy, Measured
<1>2. corners.trusted => corners.found
  BY DEF LocateCorners, Lost, Measured
<1>3. /\ RunCompact(p, "legacy", search) = [engine |-> "legacy", grid |-> legacy]
      /\ RunCompact(p, "auto", search)
           = IF corners.trusted THEN [engine |-> "corner", grid |-> corners]
             ELSE [engine |-> "legacy", grid |-> legacy]
  BY DEF RunCompact
<1> HIDE DEF legacy, corners
<1>4. GridsToTry(p, "legacy", search) = <<legacy>>
  BY <1>1, <1>3 DEF GridsToTry
<1>5. GridsToTry(p, "auto", search)
        = IF corners.trusted THEN <<corners, legacy>> ELSE <<legacy>>
  BY <1>1, <1>2, <1>3 DEF GridsToTry
<1>6. (\E i \in DOMAIN GridsToTry(p, "legacy", search) : GridsToTry(p, "legacy", search)[i].aligned)
        => \E i \in DOMAIN GridsToTry(p, "auto", search) : GridsToTry(p, "auto", search)[i].aligned
  <2>1. DOMAIN <<legacy>> = {1} /\ <<legacy>>[1] = legacy
    OBVIOUS
  <2>2. 2 \in DOMAIN <<corners, legacy>> /\ <<corners, legacy>>[2] = legacy
    OBVIOUS
  <2> QED BY <1>4, <1>5, <2>1, <2>2
<1> QED
  BY <1>6 DEF Finds

\* Asking for the automatic choice of locator never does worse than asking for the
\* legacy one, for every plan, picture and state of the calibration (the retry in
\* decode_frame_compact and decode_frame_gray4).
THEOREM AutoDoesNoWorse == Spec => []AutoIsNoWeaker
<1>1. DInv => AutoIsNoWeaker
  <2> DEFINE search == Search(setup.mode, picture.region)
  <2> SUFFICES ASSUME DInv, picture # None, setup.engine = "auto",
                      setup.plan.protocol \in {"compact", "gray4"},
                      DecodeFrame(setup.plan, picture, "legacy", search, cache) # Nothing,
                      result = Nothing
               PROVE  FALSE
    BY DEF AutoIsNoWeaker
  <2>1. used = None
    BY SetupIsOK DEF DInv
  <2>2. PICK before : /\ result = IF Located THEN Reads(setup.plan, picture, before) ELSE Nothing
                      /\ result = Nothing => cache = before
    BY DEF DInv
  <2>3. Finds(setup.plan, picture, "legacy", search) /\ Reads(setup.plan, picture, cache) # Nothing
    BY FindsAndReads DEF Protocols
  <2>4. Located
    BY <2>1, <2>3, AutoTriesLegacy DEF Located
  <2> QED BY <2>2, <2>3, <2>4
<1> QED
  BY <1>1, DecodingInvariant, PTL

-----------------------------------------------------------------------------
(* What a picture shows.                                                     *)

\* The symbol of a frame under a mask.
Symbol(plan, frame, mask) ==
    CASE plan.protocol \in {"basic", "compact"} -> P!BinarySymbol(plan, frame, mask)
      [] plan.protocol = "gray4" -> P!Gray4Symbol(plan, frame, mask)
      [] plan.protocol = "layered" -> P!LayeredSymbol(plan, frame, mask)

\* There are eight masks.
LEMMA EightMasks ==
  ASSUME NEW plan, PlanOK(plan), NEW frame, FrameOK(plan, frame)
  PROVE  P!Masks(plan, frame) \subseteq 0..7
<1>1. frame.id \in Nat /\ frame.epoch \in Nat /\ frame.chunk \in Int
  BY DEF FrameOK
<1>2. P!SyncMask(frame) \in 0..7
  BY <1>1 DEF P!SyncMask
<1>3. \A offset \in {0, 3, 5} : (P!Spread(frame) + offset) % 8 \in 0..7 /\ P!Spread(frame) \in 0..7
  BY <1>1 DEF P!Spread
<1>4. CASE plan.protocol \in {"basic", "compact"}
  BY <1>4 DEF P!Masks
<1>5. CASE plan.protocol \in {"gray4", "layered"}
  <2>1. CASE frame.type = Sync
    BY <1>2, <1>5, <2>1 DEF P!Masks, P!Sync, Sync, P!Data, P!End
  <2>2. CASE frame.type # Sync /\ (frame.type = End \/ frame.chunk \in ControlChunks)
    BY <1>5, <2>2 DEF P!Masks, P!Sync, Sync, P!End, End, P!Data, Data, P!ControlChunks, ControlChunks
  <2>3. CASE frame.type = Data /\ frame.chunk \notin ControlChunks
    BY <1>3, <1>5, <2>3
       DEF P!Masks, P!Sync, Sync, P!End, End, P!Data, Data, P!ControlChunks, ControlChunks
  <2> QED BY <2>1, <2>2, <2>3 DEF FrameOK
<1> QED
  BY <1>4, <1>5 DEF PlanOK, Protocols

\* A frame is painted under one of them.
LEMMA SymbolsArePainted ==
  ASSUME NEW plan, PlanOK(plan), NEW frame, FrameOK(plan, frame), NEW s \in P!Symbols(plan, frame)
  PROVE  \E mask \in 0..7 : s = Symbol(plan, frame, mask)
<1>1. PICK mask \in P!Masks(plan, frame) :
         s = CASE plan.protocol \in {"basic", "compact"} -> P!BinarySymbol(plan, frame, mask)
               [] plan.protocol = "gray4" -> P!Gray4Symbol(plan, frame, mask)
               [] plan.protocol = "layered" -> P!LayeredSymbol(plan, frame, mask)
  BY DEF P!Symbols
<1> QED
  BY <1>1, EightMasks DEF Symbol

\* What a picture shows was painted: the head of one frame and the body of the same or
\* another of its session.
LEMMA SeenWasPainted ==
  ASSUME NEW plan, PlanOK(plan), NEW p, PictureOK(plan, p)
  PROVE  \E h, g \in p.shown : \E m, n \in 0..7 :
            /\ FrameOK(plan, h) /\ FrameOK(plan, g) /\ h.session = g.session
            /\ p.symbol.head = Symbol(plan, h, m).head
            /\ p.symbol.body = Symbol(plan, g, n).body
<1> DEFINE seen == [symbol |-> p.symbol, shown |-> p.shown]
<1>1. PICK old \in p.shown, new \in p.shown :
         \E above \in P!Symbols(plan, old), below \in P!Symbols(plan, new) :
            seen = Untorn(above, old) \/ (old # new /\ seen \in Torn(above, below, old, new))
  BY DEF PictureOK
<1>2. PICK above \in P!Symbols(plan, old), below \in P!Symbols(plan, new) :
            seen = Untorn(above, old) \/ (old # new /\ seen \in Torn(above, below, old, new))
  BY <1>1
<1>3. FrameOK(plan, old) /\ FrameOK(plan, new) /\ old.session = new.session
  BY DEF PictureOK
<1>4. PICK m \in 0..7 : above = Symbol(plan, old, m)
  BY <1>3, SymbolsArePainted
<1>5. PICK n \in 0..7 : below = Symbol(plan, new, n)
  BY <1>3, SymbolsArePainted
<1>6. seen.symbol = p.symbol
  OBVIOUS
<1> HIDE DEF seen
<1>7. CASE seen = Untorn(above, old)
  BY <1>3, <1>4, <1>6, <1>7 DEF Untorn
<1>8. CASE seen \in Torn(above, below, old, new)
  <2>1. \/ p.symbol = [above EXCEPT !.head = below.head, !.body = below.body]
        \/ p.symbol = [above EXCEPT !.body = below.body]
    BY <1>6, <1>8 DEF Torn
  <2>2. /\ "head" \in DOMAIN above /\ "body" \in DOMAIN above
    BY <1>4 DEF Symbol, P!BinarySymbol, P!Gray4Symbol, P!LayeredSymbol, PlanOK, Protocols
  <2>3. p.symbol.body = below.body /\ p.symbol.head \in {above.head, below.head}
    BY <2>1, <2>2
  <2>4. CASE p.symbol.head = above.head
    BY <1>3, <1>4, <1>5, <2>3, <2>4
  <2>5. CASE p.symbol.head = below.head
    BY <1>3, <1>5, <2>3, <2>5
  <2> QED BY <2>3, <2>4, <2>5
<1> QED
  BY <1>2, <1>7, <1>8

\* The parts of a symbol: of basic and compact, where a payload that does not fit is cut.
LEMMA BinaryParts ==
  ASSUME NEW plan, plan.protocol \in {"basic", "compact"}, NEW frame, NEW mask, NEW s,
         s = Symbol(plan, frame, mask)
  PROVE  /\ s.format = FormatInfo(frame.type, mask, plan.ecc)
         /\ s.head.mask = mask /\ s.head.content = MakeHeader(frame)
         /\ s.body.content
              = IF P!BinaryFits(plan, frame.payload.size) THEN frame.payload ELSE None
BY DEF Symbol, P!BinarySymbol, P!FormatInfo, FormatInfo, P!MakeHeader, MakeHeader, P!Cut

\* Of gray4, whose header has room of its own.
LEMMA Gray4Parts ==
  ASSUME NEW plan, plan.protocol = "gray4", NEW frame, NEW mask, NEW s,
         s = Symbol(plan, frame, mask)
  PROVE  /\ s.format = FormatInfo(frame.type, mask, plan.ecc)
         /\ s.head.mask = mask /\ s.head.content = MakeHeader(frame)
         /\ frame.type # Sync =>
               /\ s.body.kind = "payload" /\ s.body.mask = mask
               /\ s.body.content
                    = IF P!Gray4Fits(plan, frame.payload.size) THEN frame.payload ELSE None
<1>1. s = P!Gray4Symbol(plan, frame, mask)
  BY DEF Symbol
<1>2. /\ s.format = FormatInfo(frame.type, mask, plan.ecc)
      /\ s.head.mask = mask /\ s.head.content = MakeHeader(frame)
  BY <1>1 DEF P!Gray4Symbol, P!FormatInfo, FormatInfo, P!MakeHeader, MakeHeader
<1>3. ASSUME frame.type # Sync
      PROVE  s.body = P!Cut(frame.payload, P!Gray4Fits(plan, frame.payload.size), mask)
  BY <1>1, <1>3 DEF P!Gray4Symbol, P!Sync, Sync
<1> QED
  BY <1>2, <1>3 DEF P!Cut

\* Of layered, where nothing is cut: what does not fit is refused.
LEMMA LayeredParts ==
  ASSUME NEW plan, plan.protocol = "layered", NEW frame, NEW mask,
         frame.type \in {Sync, Data, End}, NEW s, s = Symbol(plan, frame, mask)
  PROVE  /\ s.head.content = Bootstrap(frame, P!Profile(plan.ecc), mask)
         /\ frame.type = Data =>
               s.body.kind = "payload" /\ s.body.mask = mask /\ s.body.content = BodyOf(frame)
         /\ frame.type # Data => s.body.kind # "payload"
<1>1. s = P!LayeredSymbol(plan, frame, mask)
  BY DEF Symbol
<1>2. /\ P!Bootstrap(frame, P!Profile(plan.ecc), mask) = Bootstrap(frame, P!Profile(plan.ecc), mask)
      /\ P!BodyOf(frame) = BodyOf(frame)
  BY DEF P!Bootstrap, Bootstrap, P!BodyOf, BodyOf, P!ShortTag, ShortTag
<1>3. s.head.content = Bootstrap(frame, P!Profile(plan.ecc), mask)
  BY <1>1, <1>2 DEF P!LayeredSymbol
<1>4. CASE frame.type = Sync
  BY <1>1, <1>3, <1>4 DEF P!LayeredSymbol, P!Quadrants, P!Sync, Sync, P!Data, Data, P!End, End
<1>5. CASE frame.type = Data
  BY <1>1, <1>2, <1>3, <1>5 DEF P!LayeredSymbol, P!Cut, P!Sync, Sync, P!Data, Data, P!End, End
<1>6. CASE frame.type = End
  BY <1>1, <1>3, <1>6 DEF P!LayeredSymbol, P!Blank, P!Sync, Sync, P!Data, Data, P!End, End
<1> QED
  BY <1>4, <1>5, <1>6 DEF Sync, Data, End

-----------------------------------------------------------------------------
(* Memory.                                                                   *)

Items(s) == {s[i] : i \in DOMAIN s}

\* The items of two sequences in a row.
LEMMA ItemsOfBoth ==
  ASSUME NEW S, NEW s \in Seq(S), NEW t \in Seq(S)
  PROVE  s \o t \in Seq(S) /\ Items(s \o t) = Items(s) \cup Items(t)
<1>1. /\ s \o t \in Seq(S) /\ Len(s \o t) = Len(s) + Len(t)
      /\ \A i \in 1..Len(s) + Len(t) : (s \o t)[i] = IF i <= Len(s) THEN s[i] ELSE t[i - Len(s)]
  BY ConcatProperties
<1>2. /\ Len(s) \in Nat /\ DOMAIN s = 1..Len(s) /\ Len(t) \in Nat /\ DOMAIN t = 1..Len(t)
      /\ DOMAIN (s \o t) = 1..Len(s) + Len(t)
  BY <1>1, LenProperties
<1>3. Items(s \o t) \subseteq Items(s) \cup Items(t)
  <2> SUFFICES ASSUME NEW i \in 1..Len(s) + Len(t) PROVE (s \o t)[i] \in Items(s) \cup Items(t)
    BY <1>2 DEF Items
  <2>1. CASE i <= Len(s)
    BY <1>1, <1>2, <2>1 DEF Items
  <2>2. CASE i > Len(s)
    <3>1. i - Len(s) \in 1..Len(t) /\ (s \o t)[i] = t[i - Len(s)]
      BY <1>1, <1>2, <2>2
    <3> QED BY <1>2, <3>1 DEF Items
  <2> QED BY <1>2, <2>1, <2>2
<1>4. ASSUME NEW i \in 1..Len(s) PROVE s[i] \in Items(s \o t)
  <2>1. i \in 1..Len(s) + Len(t) /\ (s \o t)[i] = s[i]
    BY <1>1, <1>2
  <2> QED BY <1>2, <2>1 DEF Items
<1>5. ASSUME NEW i \in 1..Len(t) PROVE t[i] \in Items(s \o t)
  <2>1. i + Len(s) \in 1..Len(s) + Len(t) /\ ~(i + Len(s) <= Len(s)) /\ (i + Len(s)) - Len(s) = i
    BY <1>2
  <2>2. (s \o t)[i + Len(s)] = t[i]
    BY <1>1, <2>1
  <2> QED BY <1>2, <2>1, <2>2 DEF Items
<1> QED
  BY <1>1, <1>2, <1>3, <1>4, <1>5 DEF Items

\* The items of one and of none.
LEMMA ItemsOfFew ==
  ASSUME NEW S, NEW x \in S
  PROVE  /\ <<x>> \in Seq(S) /\ Items(<<x>>) = {x}
         /\ <<>> \in Seq(S) /\ Items(<<>>) = {}
<1>1. <<x>> \in Seq(S) /\ DOMAIN <<x>> = {1} /\ <<x>>[1] = x
  OBVIOUS
<1>2. <<>> \in Seq(S) /\ DOMAIN <<>> = {}
  OBVIOUS
<1> QED
  BY <1>1, <1>2 DEF Items

\* Three choices in a row, the middle one or the last perhaps missing.
LEMMA ItemsOfThree ==
  ASSUME NEW x, NEW y, NEW z, NEW withY \in BOOLEAN, NEW withZ \in BOOLEAN
  PROVE  Items(<<x>> \o (IF withY THEN <<y>> ELSE <<>>) \o (IF withZ THEN <<z>> ELSE <<>>))
           = {x} \cup (IF withY THEN {y} ELSE {}) \cup (IF withZ THEN {z} ELSE {})
<1> DEFINE S == {x, y, z}
           a == <<x>>
           b == IF withY THEN <<y>> ELSE <<>>
           c == IF withZ THEN <<z>> ELSE <<>>
<1>1. a \in Seq(S) /\ Items(a) = {x}
  BY ItemsOfFew
<1>2. b \in Seq(S) /\ Items(b) = IF withY THEN {y} ELSE {}
  BY ItemsOfFew
<1>3. c \in Seq(S) /\ Items(c) = IF withZ THEN {z} ELSE {}
  BY ItemsOfFew
<1> HIDE DEF S, a, b, c
<1>4. a \o b \in Seq(S) /\ Items(a \o b) = {x} \cup Items(b)
  BY <1>1, <1>2, ItemsOfBoth
<1>5. Items(a \o b \o c) = {x} \cup Items(b) \cup Items(c)
  <2> DEFINE ab == a \o b
  <2>1. ab \in Seq(S) /\ Items(ab) = {x} \cup Items(b)
    BY <1>4
  <2> HIDE DEF ab
  <2>2. Items(ab \o c) = Items(ab) \cup Items(c)
    BY <1>3, <2>1, ItemsOfBoth
  <2> QED BY <2>1, <2>2 DEF ab
<1>6. Items(a \o b \o c)
        = {x} \cup (IF withY THEN {y} ELSE {}) \cup (IF withZ THEN {z} ELSE {})
  BY <1>2, <1>3, <1>5
<1> QED
  BY <1>6 DEF a, b, c

\* The centres tried in gray4 and in layered: cached ones are one more choice.
LEMMA CentresTried ==
  ASSUME NEW p, NEW cached
  PROVE  /\ Items(Variants(p, cached))
              = {Nominal} \cup (IF Fitted(p) # Nominal THEN {Fitted(p)} ELSE {})
                          \cup (IF cached # None THEN {cached} ELSE {})
         /\ Items(LayeredVariants(p, cached))
              = {Nominal} \cup (IF cached # None THEN {cached} ELSE {})
                          \cup {IF p.even THEN Ascending(p.light) ELSE Ends(p.light)}
<1> DEFINE own == IF p.even THEN Ascending(p.light) ELSE Ends(p.light)
           withFitted == Fitted(p) # Nominal
           withCached == cached # None
<1>1. Variants(p, cached) = <<Nominal>> \o (IF withFitted THEN <<Fitted(p)>> ELSE <<>>)
                                        \o (IF withCached THEN <<cached>> ELSE <<>>)
  BY DEF Variants
<1>2. LayeredVariants(p, cached) = <<Nominal>> \o (IF withCached THEN <<cached>> ELSE <<>>)
                                               \o (IF TRUE THEN <<own>> ELSE <<>>)
  BY DEF LayeredVariants
<1>3. withFitted \in BOOLEAN /\ withCached \in BOOLEAN /\ TRUE \in BOOLEAN
  OBVIOUS
<1>4. Items(Variants(p, cached)) = {Nominal} \cup (IF withFitted THEN {Fitted(p)} ELSE {})
                                             \cup (IF withCached THEN {cached} ELSE {})
  <2> HIDE DEF withFitted, withCached
  <2> QED BY <1>1, <1>3, ItemsOfThree
<1>5. Items(LayeredVariants(p, cached)) = {Nominal} \cup (IF withCached THEN {cached} ELSE {})
                                                    \cup (IF TRUE THEN {own} ELSE {})
  <2>1. Items(<<Nominal>> \o (IF withCached THEN <<cached>> ELSE <<>>)
                          \o (IF TRUE THEN <<own>> ELSE <<>>))
          = {Nominal} \cup (IF withCached THEN {cached} ELSE {}) \cup (IF TRUE THEN {own} ELSE {})
    <3> DEFINE always == TRUE
    <3>1. always \in BOOLEAN
      OBVIOUS
    <3> HIDE DEF own, withCached, always
    <3>2. Items(<<Nominal>> \o (IF withCached THEN <<cached>> ELSE <<>>)
                            \o (IF always THEN <<own>> ELSE <<>>))
            = {Nominal} \cup (IF withCached THEN {cached} ELSE {}) \cup (IF always THEN {own} ELSE {})
      BY <1>3, <3>1, ItemsOfThree
    <3> QED BY <3>2 DEF always
  <2> HIDE DEF own, withCached
  <2> QED BY <1>2, <2>1, Zenon
<1> QED
  BY <1>4, <1>5

\* Without memory nothing is remembered for the mask a symbol is painted under.
LEMMA NothingCached ==
  ASSUME NEW plan, PlanOK(plan), NEW p, PictureOK(plan, p)
  PROVE  /\ plan.protocol = "gray4" => Uncalibrated[p.symbol.head.mask] = None
         /\ plan.protocol = "layered" /\ LayeredBootstrap(p) # None =>
               Uncalibrated[LayeredBootstrap(p).mask] = None
<1>1. PICK h \in p.shown, g \in p.shown, m \in 0..7, n \in 0..7 :
         FrameOK(plan, h) /\ p.symbol.head = Symbol(plan, h, m).head
  BY SeenWasPainted
<1>2. Uncalibrated[m] = None
  BY DEF Uncalibrated
<1>3. ASSUME plan.protocol = "gray4" PROVE p.symbol.head.mask = m
  BY <1>1, <1>3, Gray4Parts
<1>4. ASSUME plan.protocol = "layered", LayeredBootstrap(p) # None
      PROVE  LayeredBootstrap(p).mask = m
  <2>1. LayeredBootstrap(p) = p.symbol.head.content
    BY <1>4 DEF LayeredBootstrap
  <2>2. p.symbol.head.content = Bootstrap(h, P!Profile(plan.ecc), m)
    BY <1>1, <1>4, LayeredParts DEF FrameOK
  <2> QED BY <2>1, <2>2 DEF Bootstrap
<1> QED
  BY <1>2, <1>3, <1>4

\* What is read without memory is read with any.
LEMMA MemoryAdds ==
  ASSUME NEW plan, PlanOK(plan), NEW p, PictureOK(plan, p), NEW centres,
         p.speck = None \/ plan.protocol = "layered", Reads(plan, p, Uncalibrated) # Nothing
  PROVE  Reads(plan, p, centres) = Reads(plan, p, Uncalibrated)
<1>1. CASE plan.protocol \in {"basic", "compact"}
  BY <1>1 DEF Reads
<1>2. CASE plan.protocol = "gray4"
  <2> DEFINE header == Gray4Header(plan, p)
             body == p.symbol.body
             mask == p.symbol.head.mask
             fresh == Variants(p, Uncalibrated[mask])
             tried == Variants(p, centres[mask])
             reads(variants) == \/ \E i \in DOMAIN variants : VariantReads(plan, variants[i], p)
                                \/ Len(variants) >= 2 /\ SearchReads(plan, variants, p)
             fits == body.kind = "payload" /\ body.mask = mask /\ PayloadAccepted(header, body.content)
             whole == Decoded(header, body.content)
  <2>1. \A variants : ~SearchReads(plan, variants, p)
    BY <1>2 DEF SearchReads
  <2>2. Items(fresh) \subseteq Items(tried)
    BY <1>2, NothingCached, CentresTried
  <2>3. reads(fresh) => reads(tried)
    <3>1. \A variants : reads(variants) <=> \E x \in Items(variants) : VariantReads(plan, x, p)
      BY <2>1 DEF Items
    <3> HIDE DEF reads, fresh, tried
    <3> QED BY <2>2, <3>1
  <2>4. /\ Reads(plan, p, Uncalibrated)
             = IF header = None THEN Nothing
               ELSE IF header.length = 0 THEN Decoded(header, Empty)
               ELSE IF fits /\ reads(fresh) THEN whole ELSE Nothing
        /\ Reads(plan, p, centres)
             = IF header = None THEN Nothing
               ELSE IF header.length = 0 THEN Decoded(header, Empty)
               ELSE IF fits /\ reads(tried) THEN whole ELSE Nothing
    BY <1>2 DEF Reads, DecodeGray4
  <2> HIDE DEF header, fits, whole, reads, fresh, tried
  <2> QED BY <2>3, <2>4
<1>3. CASE plan.protocol = "layered"
  <2> DEFINE bootstrap == LayeredBootstrap(p)
             body == p.symbol.body
             fresh == LayeredVariants(p, Uncalibrated[bootstrap.mask])
             tried == LayeredVariants(p, centres[bootstrap.mask])
             reads(variants) == \E i \in DOMAIN variants : BodyReads(bootstrap, variants[i], p)
             fits == /\ body.kind = "payload" /\ body.mask = bootstrap.mask
                     /\ BodyAccepted(bootstrap, body.content)
             bare == Decoded(BareHeader(bootstrap), Empty)
             whole == Decoded(LayeredHeader(bootstrap, body.content), body.content.payload)
  <2>1. bootstrap # None => Items(fresh) \subseteq Items(tried)
    BY <1>3, NothingCached, CentresTried
  <2>2. bootstrap # None => (reads(fresh) => reads(tried))
    <3>1. \A variants : reads(variants) <=> \E x \in Items(variants) : BodyReads(bootstrap, x, p)
      BY DEF Items
    <3> HIDE DEF reads, fresh, tried, bootstrap
    <3> QED BY <2>1, <3>1
  <2>3. /\ Reads(plan, p, Uncalibrated)
             = IF bootstrap = None THEN Nothing
               ELSE IF bootstrap.type # Data THEN bare
               ELSE IF fits /\ reads(fresh) THEN whole ELSE Nothing
        /\ Reads(plan, p, centres)
             = IF bootstrap = None THEN Nothing
               ELSE IF bootstrap.type # Data THEN bare
               ELSE IF fits /\ reads(tried) THEN whole ELSE Nothing
    BY <1>3 DEF Reads, DecodeLayered
  <2> HIDE DEF bootstrap, fits, bare, whole, reads, fresh, tried
  <2> QED BY <2>2, <2>3
<1> QED
  BY <1>1, <1>2, <1>3 DEF PlanOK, Protocols

\* The picture just decoded is one that can be taken.
LEMMA PictureIsOK ==
  ASSUME DInv, picture # None \/ result # Nothing
  PROVE  /\ PlanOK(setup.plan) /\ PictureOK(setup.plan, picture)
         /\ setup.mode = "stateful" => setup.plan.protocol = "layered"
BY DecodingAssumption DEF DInv

\* What a receiver remembers, calibrated centres or a grid, never costs it a frame it
\* would have decoded without, for every stream, picture and history of pictures
\* (the calibration of the gray4 and layered adapters, the stateful replay).
THEOREM MemoryIsHarmless == Spec => []MemoryNeverHurts
<1>1. DInv => MemoryNeverHurts
  <2> DEFINE search == Search(setup.mode, picture.region)
             fresh == DecodeFrame(setup.plan, picture, setup.engine, search, Uncalibrated)
  <2> SUFFICES ASSUME DInv, picture # None, ~Moved, fresh # Nothing,
                      picture.speck = None \/ setup.plan.protocol = "layered"
               PROVE  result = fresh
    BY DEF MemoryNeverHurts
  <2>1. PlanOK(setup.plan) /\ PictureOK(setup.plan, picture)
    BY PictureIsOK
  <2>2. PICK before : result = IF Located THEN Reads(setup.plan, picture, before) ELSE Nothing
    BY DEF DInv
  <2>3. /\ Finds(setup.plan, picture, setup.engine, search)
        /\ fresh = Reads(setup.plan, picture, Uncalibrated)
    BY <2>1, FindsAndReads DEF PlanOK
  <2>4. Located
    BY <2>3 DEF Located, Moved
  <2> HIDE DEF fresh
  <2>5. Reads(setup.plan, picture, before) = Reads(setup.plan, picture, Uncalibrated)
    BY <2>1, <2>3, MemoryAdds
  <2> QED BY <2>2, <2>3, <2>4, <2>5
<1> QED
  BY <1>1, DecodingInvariant, PTL

-----------------------------------------------------------------------------
(* Only what is shown.                                                       *)

\* Every check sum is of one frame: what is read was shown.
LEMMA ReadWasShown ==
  ASSUME NEW plan, PlanOK(plan), NEW p, PictureOK(plan, p), NEW centres,
         Reads(plan, p, centres) # Nothing
  PROVE  \E frame \in p.shown : Shows(frame, Reads(plan, p, centres).frame)
<1>1. PICK h \in p.shown, g \in p.shown, m \in 0..7, n \in 0..7 :
         /\ FrameOK(plan, h) /\ FrameOK(plan, g) /\ h.session = g.session
         /\ p.symbol.head = Symbol(plan, h, m).head
         /\ p.symbol.body = Symbol(plan, g, n).body
  BY SeenWasPainted
<1> DEFINE read == Reads(plan, p, centres)
<1>2. \A header, payload : /\ Decoded(header, payload).frame.header = header
                           /\ Decoded(header, payload).frame.payload = payload
  BY DEF Decoded, DecodedFrame
<1>3. CASE plan.protocol \in {"basic", "compact"}
  <2>1. p.symbol.head.content = MakeHeader(h)
    BY <1>1, <1>3, BinaryParts
  <2>2. /\ read = Decoded(MakeHeader(h), p.symbol.body.content)
        /\ PayloadAccepted(MakeHeader(h), p.symbol.body.content)
    BY <1>3, <2>1 DEF Reads, DecodeBits
  <2>3. p.symbol.body.content = h.payload
    BY <2>2 DEF PayloadAccepted, MakeHeader
  <2>4. read.frame.header = MakeHeader(h) /\ read.frame.payload = h.payload
    BY <1>2, <2>2, <2>3
  <2> QED BY <2>4 DEF Shows, MakeHeader
<1>4. CASE plan.protocol = "gray4"
  <2>1. p.symbol.head.content = MakeHeader(h)
    BY <1>1, <1>4, Gray4Parts
  <2>2. Gray4Header(plan, p) \in {MakeHeader(h), None}
    BY <2>1 DEF Gray4Header
  <2>3. \/ h.payload.size = 0 /\ read = Decoded(MakeHeader(h), Empty)
        \/ /\ read = Decoded(MakeHeader(h), p.symbol.body.content)
           /\ PayloadAccepted(MakeHeader(h), p.symbol.body.content)
    <3>1. MakeHeader(h).length = h.payload.size
      BY DEF MakeHeader
    <3> QED BY <1>4, <2>2, <3>1 DEF Reads, DecodeGray4
  <2>4. read.frame.header = MakeHeader(h) /\ read.frame.payload = h.payload
    <3>1. CASE h.payload.size = 0 /\ read = Decoded(MakeHeader(h), Empty)
      BY <1>1, <1>2, <3>1 DEF FrameOK
    <3>2. CASE /\ read = Decoded(MakeHeader(h), p.symbol.body.content)
               /\ PayloadAccepted(MakeHeader(h), p.symbol.body.content)
      BY <1>2, <3>2 DEF PayloadAccepted, MakeHeader
    <3> QED BY <2>3, <3>1, <3>2
  <2> QED BY <2>4 DEF Shows, MakeHeader
<1>5. CASE plan.protocol = "layered"
  <2> DEFINE bootstrap == Bootstrap(h, P!Profile(plan.ecc), m)
  <2>1. p.symbol.head.content = bootstrap
    BY <1>1, <1>5, LayeredParts DEF FrameOK
  <2>2. LayeredBootstrap(p) \in {bootstrap, None}
    BY <2>1 DEF LayeredBootstrap
  <2>3. /\ bootstrap.type = h.type /\ bootstrap.tag = ShortTag(h.session)
        /\ h.session = ShortTag(h.session)
    <3>1. h.session = ShortTag(h.session)
      BY <1>1, <1>5 DEF FrameOK, P!StreamSession, P!ShortTag, ShortTag
    <3> QED BY <3>1 DEF Bootstrap
  <2>4. \/ h.type # Data /\ read = Decoded(BareHeader(bootstrap), Empty)
        \/ /\ h.type = Data /\ p.symbol.body.kind = "payload"
           /\ read = Decoded(LayeredHeader(bootstrap, p.symbol.body.content),
                             p.symbol.body.content.payload)
    <3> HIDE DEF bootstrap
    <3> QED BY <1>5, <2>2, <2>3 DEF Reads, DecodeLayered
  <2>5. CASE h.type # Data /\ read = Decoded(BareHeader(bootstrap), Empty)
    <3>1. read.frame.header = BareHeader(bootstrap)
      BY <1>2, <2>5
    <3> HIDE DEF bootstrap
    <3>2. read.frame.header.type = h.type /\ read.frame.header.session = h.session
      BY <2>3, <3>1 DEF BareHeader
    <3> QED BY <2>5, <3>2 DEF Shows
  <2>6. CASE /\ h.type = Data /\ p.symbol.body.kind = "payload"
             /\ read = Decoded(LayeredHeader(bootstrap, p.symbol.body.content),
                               p.symbol.body.content.payload)
    <3>1. g.type = Data /\ p.symbol.body.content = BodyOf(g)
      BY <1>1, <1>5, <2>6, LayeredParts DEF FrameOK
    <3>2. /\ read.frame.header = LayeredHeader(bootstrap, BodyOf(g))
          /\ read.frame.payload = BodyOf(g).payload
      BY <1>2, <2>6, <3>1
    <3> HIDE DEF bootstrap
    <3>3. /\ read.frame.header.type = g.type /\ read.frame.header.session = g.session
          /\ read.frame.header.chunk = g.chunk /\ read.frame.payload = g.payload
      BY <1>1, <2>3, <2>6, <3>1, <3>2 DEF LayeredHeader, BodyOf
    <3> QED BY <3>3 DEF Shows
  <2> QED BY <2>4, <2>5, <2>6
<1> QED
  BY <1>3, <1>4, <1>5 DEF PlanOK, Protocols

\* The first of three choices.
LEMMA FirstOfThree ==
  ASSUME NEW s, DOMAIN s = 1..3
  PROVE  /\ s[1] # None => First(s) = s[1]
         /\ s[1] = None /\ s[2] # None => First(s) = s[2]
         /\ s[1] = None /\ s[2] = None => First(s) = s[3]
<1> DEFINE found == {i \in 1..3 : s[i] # None}
           k == CHOOSE i \in found : \A j \in found : i <= j
<1>1. First(s) = IF found = {} THEN None ELSE s[k]
  BY DEF First
<1>2. CASE found = {}
  <2>1. s[1] = None /\ s[2] = None /\ s[3] = None
    BY <1>2
  <2> QED BY <1>1, <1>2, <2>1
<1>3. CASE found # {}
  <2>1. found \subseteq Nat
    OBVIOUS
  <2>2. \E i \in found : \A j \in found : i <= j
    <3> HIDE DEF found
    <3> QED BY <1>3, <2>1, LeastOf
  <2>3. k \in found /\ \A j \in found : k <= j
    <3> HIDE DEF found
    <3> QED BY <2>2
  <2>4. First(s) = s[k]
    BY <1>1, <1>3
  <2> HIDE DEF k
  <2>5. k \in 1..3 /\ s[k] # None /\ \A j \in 1..3 : s[j] # None => k <= j
    BY <2>3
  <2>6. k = 1 \/ k = 2 \/ k = 3
    BY <2>5
  <2>7. (s[1] # None => k = 1) /\ (s[2] # None => k <= 2)
    BY <2>5, <2>6
  <2> QED BY <2>4, <2>5, <2>6, <2>7
<1> QED
  BY <1>2, <1>3

\* The first of two.
LEMMA FirstOfTwo ==
  ASSUME NEW s, DOMAIN s = 1..2
  PROVE  /\ s[1] # None => First(s) = s[1]
         /\ s[1] = None => First(s) = s[2]
<1> DEFINE found == {i \in 1..2 : s[i] # None}
           k == CHOOSE i \in found : \A j \in found : i <= j
<1>1. First(s) = IF found = {} THEN None ELSE s[k]
  BY DEF First
<1>2. CASE found = {}
  <2>1. s[1] = None /\ s[2] = None
    BY <1>2
  <2> QED BY <1>1, <1>2, <2>1
<1>3. CASE found # {}
  <2>1. found \subseteq Nat
    OBVIOUS
  <2>2. \E i \in found : \A j \in found : i <= j
    <3> HIDE DEF found
    <3> QED BY <1>3, <2>1, LeastOf
  <2>3. k \in found /\ \A j \in found : k <= j
    <3> HIDE DEF found
    <3> QED BY <2>2
  <2>4. First(s) = s[k]
    BY <1>1, <1>3
  <2> HIDE DEF k
  <2>5. k \in 1..2 /\ s[k] # None /\ \A j \in 1..2 : s[j] # None => k <= j
    BY <2>3
  <2>6. k = 1 \/ k = 2
    BY <2>5
  <2>7. s[1] # None => k = 1
    BY <2>5, <2>6
  <2> QED BY <2>4, <2>5, <2>6, <2>7
<1> QED
  BY <1>2, <1>3

\* What is tried is what the engine finds or what the legacy one does.
LEMMA TriedGrids ==
  ASSUME NEW p, NEW engine, NEW search,
         NEW i \in DOMAIN GridsToTry(p, engine, search)
  PROVE  GridsToTry(p, engine, search)[i]
            \in {RunCompact(p, engine, search).grid, RunCompact(p, "legacy", search).grid}
BY DEF GridsToTry

\* A search confined to a region the symbol is not in finds nothing.
LEMMA NothingAside ==
  ASSUME NEW plan, plan.protocol \in {"compact", "gray4", "layered"}, NEW p, NEW engine
  PROVE  ~Finds(plan, p, engine, "aside")
<1>1. /\ ~InView("aside") /\ ~Whole("aside") /\ ~Margin(p, "aside")
      /\ ~InCorners(p, "aside") /\ ~Decoyed(p, "aside")
  BY DEF InView, Whole, Margin, InCorners, Decoyed
<1>2. NonBlackBox(p, "aside") = None /\ SymbolBox(p, "aside") = None
  BY <1>1 DEF NonBlackBox, SymbolBox
<1>3. CompactQuad(p, "aside") = None
  <2>1. /\ InnerCores(p, "aside") = None /\ CornerTemplates(p, "aside") = None
        /\ HybridFinders(p, "aside") = None
    BY <1>1 DEF InnerCores, CornerTemplates, HybridFinders
  <2> DEFINE choices == <<InnerCores(p, "aside"), CornerTemplates(p, "aside"),
                          HybridFinders(p, "aside")>>
  <2>2. DOMAIN choices = 1..3 /\ choices[1] = None /\ choices[2] = None /\ choices[3] = None
    BY <2>1
  <2>3. First(choices) = None
    <3> HIDE DEF choices
    <3> QED BY <2>2, FirstOfThree
  <2> QED BY <2>3 DEF CompactQuad, PickCorners
<1>4. LocateCorners(p, "aside") = Lost
  <2> DEFINE choices == <<CompactQuad(p, "aside"), NonBlackBox(p, "aside"), SymbolBox(p, "aside")>>
  <2>1. DOMAIN choices = 1..3 /\ choices[1] = None /\ choices[2] = None /\ choices[3] = None
    BY <1>2, <1>3
  <2>2. First(choices) = None
    <3> HIDE DEF choices
    <3> QED BY <2>1, FirstOfThree
  <2> QED BY <2>2 DEF LocateCorners
<1>5. ~LocateOutline(p, "aside").aligned
  <2>1. OutlineBox(p, "aside") = "other"
    <3> DEFINE whole == [none |-> None, tight |-> "outline", around |-> "other",
                         aside |-> "other", off |-> "other"]["aside"]
    <3>1. whole = "other"
      OBVIOUS
    <3>2. OutlineBox(p, "aside") = First(<<NonBlackBox(p, "aside"), SymbolBox(p, "aside"), whole>>)
      BY DEF OutlineBox
    <3> HIDE DEF whole
    <3> DEFINE choices == <<NonBlackBox(p, "aside"), SymbolBox(p, "aside"), whole>>
    <3>3. DOMAIN choices = 1..3 /\ choices[1] = None /\ choices[2] = None /\ choices[3] = whole
      BY <1>2
    <3> HIDE DEF choices
    <3>4. First(choices) = whole
      BY <3>3, FirstOfThree
    <3> QED BY <3>1, <3>2, <3>4 DEF choices
  <2> QED BY <2>1 DEF LocateOutline, Lost, Measured, Warped
<1>6. ~LocateLegacy(p, "aside").aligned
  BY <1>1, <1>2 DEF LocateLegacy, DarkBox, Measured, Warped
<1>7. ~RunCompact(p, engine, "aside").grid.aligned /\ ~RunCompact(p, "legacy", "aside").grid.aligned
  BY <1>4, <1>5, <1>6 DEF RunCompact, Lost
<1> QED
  BY <1>7, TriedGrids DEF Finds

\* A frame that is decoded was on the screen, payload and all, however the picture was
\* torn, spoilt or misread, and it was seen where it was looked for, but for basic
\* (the check sums of decode_frame_*).
THEOREM DecodedWasShown == Spec => []OnlyWhatIsShown
<1>1. DInv => OnlyWhatIsShown
  <2> DEFINE search == Search(setup.mode, picture.region)
  <2> SUFFICES ASSUME DInv, result # Nothing
               PROVE  /\ \E frame \in picture.shown : Shows(frame, result.frame)
                      /\ search = "aside" => setup.plan.protocol = "basic"
    BY DEF OnlyWhatIsShown
  <2>1. /\ PlanOK(setup.plan) /\ PictureOK(setup.plan, picture)
        /\ used # None => setup.mode = "stateful"
    BY PictureIsOK DEF DInv
  <2>2. PICK before : result = IF Located THEN Reads(setup.plan, picture, before) ELSE Nothing
    BY DEF DInv
  <2>3. Located /\ result = Reads(setup.plan, picture, before)
    BY <2>2
  <2>4. \E frame \in picture.shown : Shows(frame, result.frame)
    BY <2>1, <2>3, ReadWasShown
  <2>5. ASSUME search = "aside", setup.plan.protocol # "basic" PROVE FALSE
    <3>1. setup.mode # "stateful"
      BY <2>5 DEF Search
    <3>2. Finds(setup.plan, picture, setup.engine, "aside")
      BY <2>1, <2>3, <2>5, <3>1 DEF Located
    <3> QED BY <2>1, <2>5, <3>2, NothingAside DEF PlanOK, Protocols
  <2> QED BY <2>4, <2>5
<1> QED
  BY <1>1, DecodingInvariant, PTL

-----------------------------------------------------------------------------
(* Clean pictures.                                                           *)

\* The inks are shown as four levels.
LEMMA ShownLevels ==
  ASSUME NEW p, Clean(p)
  PROVE  p.light[0] = 0 /\ p.light[1] = 85 /\ p.light[2] = 170 /\ p.light[3] = 255
<1>1. p.light = Shown
  BY DEF Clean
<1>2. \A ink \in 0..3 : Shown[ink] = Nominal[ink + 1]
  BY DEF Shown, Inks
<1> QED
  BY <1>1, <1>2 DEF Nominal

\* They are read for what they are.
LEMMA InksAreRead ==
  ASSUME NEW p, Clean(p)
  PROVE  ReadsInks(Nominal, p)
<1> SUFFICES ASSUME NEW ink \in 0..3 PROVE Quantize(Nominal, p.light[ink]) = ink
  BY DEF ReadsInks, Inks
<1>1. {i \in 1..3 : 2 * p.light[ink] >= Nominal[i] + Nominal[i + 1]} = 1..ink
  <2>1. Nominal[1] = 0 /\ Nominal[2] = 85 /\ Nominal[3] = 170 /\ Nominal[4] = 255
    BY DEF Nominal
  <2>2. \A i \in 1..3 : Nominal[i] + Nominal[i + 1] = 170 * i - 85
    BY <2>1
  <2>3. p.light[ink] = 85 * ink
    BY ShownLevels
  <2> QED BY <2>2, <2>3
<1>2. Cardinality(1..ink) = ink
  <2>1. 1 \in Int /\ ink \in Int
    OBVIOUS
  <2>2. Cardinality(1..ink) = IF 1 > ink THEN 0 ELSE ink - 1 + 1
    BY <2>1, FS_Interval
  <2> QED BY <2>2
<1> QED
  BY <1>1, <1>2 DEF Quantize

\* Its corners are found by all who look for finders, the first choice or not.
LEMMA CleanCorners ==
  ASSUME NEW p, Clean(p), NEW search \in {"none", "around"}
  PROVE  /\ BasicQuad(p, search) = "centres"
         /\ LocateCorners(p, search) = Measured(p, TRUE)
<1>1. /\ InView(search) /\ p.finders = "clear" /\ p.shape = "square" /\ p.place # "corner"
      /\ ~Decoyed(p, search) /\ None # "centres"
  BY DecodingAssumption DEF Clean, InView, Decoyed, Plain
<1>2. p.light[0] = 0 /\ p.light[3] = 255
  BY ShownLevels
<1>3. FinderQuad(p, search) = "centres"
  BY <1>1 DEF FinderQuad
<1>4. BasicQuad(p, search) = "centres"
  <2> DEFINE choices == <<FinderQuad(p, search), SymbolBox(p, search)>>
  <2>1. DOMAIN choices = 1..2 /\ choices[1] = "centres"
    BY <1>3
  <2>2. First(choices) = "centres"
    <3> HIDE DEF choices
    <3> QED BY <1>1, <2>1, FirstOfTwo
  <2> QED BY <2>2 DEF BasicQuad
<1>5. CompactQuad(p, search) = "centres"
  <2>1. /\ InnerCores(p, search) \in {"centres", None}
        /\ CornerTemplates(p, search) \in {"centres", None}
    BY <1>1 DEF InnerCores, CornerTemplates
  <2>2. HybridFinders(p, search) = "centres"
    BY <1>1, <1>2 DEF HybridFinders
  <2> DEFINE choices == <<InnerCores(p, search), CornerTemplates(p, search),
                          HybridFinders(p, search)>>
  <2>3. First(choices) = "centres"
    <3>1. /\ DOMAIN choices = 1..3 /\ choices[1] \in {"centres", None}
          /\ choices[2] \in {"centres", None} /\ choices[3] = "centres"
      BY <2>1, <2>2
    <3> HIDE DEF choices
    <3> QED BY <1>1, <3>1, FirstOfThree
  <2>4. PickCorners(p, search, "centres") = "centres"
    BY <1>1 DEF PickCorners
  <2> QED BY <2>3, <2>4 DEF CompactQuad
<1>6. LocateCorners(p, search) = Measured(p, TRUE)
  <2> DEFINE choices == <<CompactQuad(p, search), NonBlackBox(p, search), SymbolBox(p, search)>>
  <2>1. DOMAIN choices = 1..3 /\ choices[1] = "centres"
    BY <1>5
  <2>2. First(choices) = "centres"
    <3> HIDE DEF choices
    <3> QED BY <1>1, <2>1, FirstOfThree
  <2> QED BY <1>1, <2>2 DEF LocateCorners, Warped
<1> QED
  BY <1>4, <1>6

\* The boxes fit what the legacy locator takes them for.
LEMMA CleanBoxes ==
  ASSUME NEW p, Clean(p), NEW search \in {"none", "around"}
  PROVE  LocateLegacy(p, search) = Measured(p, TRUE)
<1>1. /\ InView(search) /\ p.shape = "square" /\ p.ground \in {"black", "white"}
      /\ Margin(p, search) <=> p.place # "fills"
      /\ None # "outline" /\ Black \in 0..254
  BY DecodingAssumption DEF Clean, InView, Margin, Whole, Plain
<1>2. p.light[0] = 0 /\ p.light[3] = 255
  BY ShownLevels
<1>3. CASE p.ground = "black" /\ p.place # "fills"
  <2>1. NonBlackBox(p, search) = "outline"
    BY <1>1, <1>2, <1>3 DEF NonBlackBox, Ground, Quiet
  <2> QED BY <1>1, <2>1 DEF LocateLegacy, Warped
<1>4. CASE p.ground = "white" \/ p.place = "fills"
  <2>1. NonBlackBox(p, search) = None
    BY <1>1, <1>2, <1>4 DEF NonBlackBox, Ground, Quiet
  <2>2. DarkBox(p, search) = "inner"
    BY <1>1, <1>2, <1>4 DEF DarkBox, Ground, Quiet, Plain
  <2> QED BY <2>1, <2>2 DEF LocateLegacy, Warped
<1> QED
  BY <1>1, <1>3, <1>4

\* A clean picture's symbol is found.
LEMMA CleanIsFound ==
  ASSUME NEW plan, plan.protocol \in Protocols, NEW p, Clean(p),
         NEW search \in {"none", "around"}, NEW engine, engine # "new"
  PROVE  Finds(plan, p, engine, search)
<1>1. p.sure /\ Contrasty(p)
  BY ShownLevels, DecodingAssumption DEF Clean, Contrasty
<1>2. Measured(p, TRUE).found /\ Measured(p, TRUE).aligned /\ Measured(p, TRUE).trusted
  BY <1>1 DEF Measured
<1>3. RunBasic(p, engine, search).grid.found /\ RunBasic(p, engine, search).grid.aligned
  <2>1. /\ LocateBasic(p, search) = Measured(p, TRUE)
        /\ LocateBasicLegacy(p, search).found /\ LocateBasicLegacy(p, search).aligned
    <3>1. BasicQuad(p, search) = "centres" /\ "centres" # None
      BY CleanCorners, DecodingAssumption
    <3>2. LocateBasic(p, search) = Measured(p, TRUE)
      BY <3>1 DEF LocateBasic, Warped
    <3>3. LocateBasicLegacy(p, search) = [found |-> TRUE, aligned |-> TRUE, trusted |-> p.sure]
      BY <3>1 DEF LocateBasicLegacy, Warped
    <3> QED BY <3>2, <3>3
  <2> QED BY <1>2, <2>1 DEF RunBasic
<1>4. RunCompact(p, engine, search).grid = Measured(p, TRUE)
  BY CleanCorners, CleanBoxes DEF RunCompact
<1>5. 1 \in DOMAIN GridsToTry(p, engine, search) /\ GridsToTry(p, engine, search)[1].aligned
  <2> DEFINE grid == RunCompact(p, engine, search).grid
             again == RunCompact(p, "legacy", search).grid
  <2>1. GridsToTry(p, engine, search) \in {<<grid, again>>, <<grid>>}
    BY <1>2, <1>4 DEF GridsToTry
  <2>2. grid.aligned
    BY <1>2, <1>4
  <2> HIDE DEF grid, again
  <2>3. /\ 1 \in DOMAIN <<grid, again>> /\ <<grid, again>>[1] = grid
        /\ 1 \in DOMAIN <<grid>> /\ <<grid>>[1] = grid
    OBVIOUS
  <2> QED BY <2>1, <2>2, <2>3
<1> QED
  BY <1>2, <1>3, <1>4, <1>5 DEF Finds, Protocols

\* The encoders and the decoders agree on how often a bit is repeated.
LEMMA Repetitions ==
  ASSUME NEW ecc \in EccLevels
  PROVE  Rep(ecc) \in 1..4 /\ P!Rep(ecc) = Rep(ecc)
BY DEF EccLevels, Rep, P!Rep

\* A quotient times the divisor is at most what was divided.
LEMMA QuotientIsBelow ==
  ASSUME NEW a \in Nat, NEW b \in 1..8
  PROVE  a \div b \in Nat /\ b * (a \div b) <= a
<1>1. b = 1 \/ b = 2 \/ b = 3 \/ b = 4 \/ b = 5 \/ b = 6 \/ b = 7 \/ b = 8
  OBVIOUS
<1> QED
  BY <1>1

\* The binary formats have room for what their capacity says.
LEMMA BinaryRoom ==
  ASSUME NEW plan, PlanOK(plan), NEW size \in Nat,
         P!BinaryCapacity(plan) > 0, size <= P!BinaryCapacity(plan)
  PROVE  P!BinaryFits(plan, size)
<1> DEFINE cells == P!Cells(plan)
           rep == Rep(plan.ecc)
           each == cells \div rep
           room == each \div 8
<1>1. cells \in Nat /\ rep \in 1..4 /\ P!Rep(plan.ecc) = rep
  BY Repetitions DEF PlanOK, P!Cells
<1>2. P!BinaryCapacity(plan) = IF room - 42 - 2 > 0 THEN room - 42 - 2 ELSE 0
  BY <1>1 DEF P!BinaryCapacity, P!HeaderSize
<1>3. P!BinaryFits(plan, size) <=> (42 + size) * 8 * rep <= cells
  BY <1>1 DEF P!BinaryFits, P!HeaderSize
<1> HIDE DEF cells, rep
<1>4. each \in Nat /\ rep * each <= cells
  <2>1. rep \in 1..8
    BY <1>1
  <2> QED BY <1>1, <2>1, QuotientIsBelow
<1> HIDE DEF each
<1>5. room \in Nat /\ 8 * room <= each
  <2>1. 8 \in 1..8
    OBVIOUS
  <2> QED BY <1>4, <2>1, QuotientIsBelow
<1> HIDE DEF room
<1>6. 42 + size <= room
  BY <1>2, <1>5
<1>7. (42 + size) * 8 <= each
  BY <1>4, <1>5, <1>6
<1>8. rep = 1 \/ rep = 2 \/ rep = 3 \/ rep = 4
  BY <1>1
<1>9. (42 + size) * 8 * rep <= rep * each
  BY <1>4, <1>7, <1>8
<1> QED
  BY <1>1, <1>3, <1>4, <1>8, <1>9

\* So has gray4 beyond its header.
LEMMA Gray4Room ==
  ASSUME NEW plan, PlanOK(plan), NEW size \in Nat,
         P!Gray4Capacity(plan) > 0, size <= P!Gray4Capacity(plan)
  PROVE  P!Gray4Fits(plan, size)
<1> DEFINE left == P!Cells(plan) - P!HeaderCells(plan)
           kept == IF left > 0 THEN left ELSE 0
           rep == Rep(plan.ecc)
           each == kept \div rep
           room == each \div 4
<1>1. left \in Int /\ rep \in 1..4 /\ P!Rep(plan.ecc) = rep
  BY Repetitions DEF PlanOK, P!Cells, P!HeaderCells, P!HeaderSize
<1>2. P!Gray4Capacity(plan) = IF room - 2 > 0 THEN room - 2 ELSE 0
  BY <1>1 DEF P!Gray4Capacity
<1>3. P!Gray4Fits(plan, size) <=> 4 * size <= left \div rep
  BY <1>1 DEF P!Gray4Fits
<1>4. kept \in Nat /\ (left <= 0 => kept = 0) /\ (left > 0 => kept = left)
  BY <1>1
<1> HIDE DEF left, kept, rep
<1>5. each \in Nat /\ rep * each <= kept
  <2>1. rep \in 1..8 /\ kept \in Nat
    BY <1>1, <1>4
  <2> QED BY <2>1, QuotientIsBelow
<1>6. room \in Nat /\ 4 * room <= each
  <2>1. 4 \in 1..8
    OBVIOUS
  <2> HIDE DEF each
  <2> QED BY <1>5, <2>1, QuotientIsBelow
<1>7. size + 2 <= room /\ 4 * size <= each /\ each > 0
  <2> HIDE DEF room, each
  <2> QED BY <1>2, <1>5, <1>6
<1>8. rep = 1 \/ rep = 2 \/ rep = 3 \/ rep = 4
  BY <1>1
<1>9. kept > 0
  <2> HIDE DEF each
  <2> QED BY <1>4, <1>5, <1>7, <1>8
<1>10. each = left \div rep
  BY <1>1, <1>4, <1>9
<1> QED
  BY <1>3, <1>7, <1>10

\* A plan that is accepted has a chunk size that leaves room for the envelope.
LEMMA PlannedSizes ==
  ASSUME NEW plan, PlanOK(plan), P!PlanAccepted(plan),
         P!FrameCapacity(plan) \in Nat
  PROVE  /\ P!ChunkSize(plan) \in Nat /\ 1 < P!ChunkSize(plan)
         /\ P!ChunkSize(plan) <= P!FrameCapacity(plan)
         /\ plan.coded => P!ChunkSize(plan) + Overhead <= P!FrameCapacity(plan)
         /\ P!ManifestSize(plan) <= P!ChunkSize(plan)
<1> DEFINE size == P!ChunkSize(plan)
           forms == P!ManifestForms(plan)
           capacity == P!FrameCapacity(plan)
           robust == P!RobustCapacity(plan)
           ratio == P!Larger(5, P!Smaller(100, plan.fill))
           most == IF plan.coded THEN P!Larger(1, robust - Overhead) ELSE robust
<1>0. robust \in Nat /\ robust <= capacity
  <2>1. robust = P!Smaller(capacity, P!Larger(64, (capacity * ratio) \div 100))
    BY DEF P!RobustCapacity
  <2>2. ratio \in Nat
    <3> DEFINE fill == P!Smaller(100, plan.fill)
    <3>1. fill \in Nat
      BY DEF P!Smaller, PlanOK
    <3> HIDE DEF fill
    <3>2. P!Larger(5, fill) \in Nat
      BY <3>1 DEF P!Larger
    <3> QED BY <3>2 DEF fill
  <2> HIDE DEF capacity, ratio
  <2>3. capacity * ratio \in Nat /\ (capacity * ratio) \div 100 \in Nat
    BY <2>2 DEF capacity
  <2> QED BY <2>1, <2>3 DEF P!Smaller, P!Larger, capacity
<1>1. /\ plan.coded \in BOOLEAN /\ plan.fill \in Nat /\ plan.requested \in Nat
      /\ plan.manifest \in Seq(Nat) /\ \A i \in DOMAIN plan.manifest : plan.manifest[i] > 1
      /\ forms # {} /\ size <= capacity
  <2>1. ~(size > capacity) /\ forms # {}
    BY DEF P!PlanAccepted, P!ChunkRefused
  <2>2. size \in Int
    <3>1. robust \in Nat /\ plan.requested \in Nat
      BY <1>0 DEF PlanOK
    <3> QED BY <3>1 DEF P!ChunkSize, P!Smaller, P!Larger, P!Overhead
  <2> HIDE DEF size, capacity
  <2> QED BY <2>1, <2>2 DEF PlanOK, capacity
<1>3. size = IF plan.requested > 0 THEN P!Smaller(plan.requested, most) ELSE most
  BY DEF P!ChunkSize, P!Overhead, Overhead
<1>4. /\ most \in Nat /\ size \in Nat /\ size <= most
      /\ plan.coded => most = P!Larger(1, robust - Overhead)
  <2> HIDE DEF robust, size
  <2> QED BY <1>0, <1>1, <1>3 DEF P!Smaller, P!Larger, Overhead
<1>5. PICK i \in forms : plan.manifest[i] <= size /\ plan.manifest[i] \in Nat /\ plan.manifest[i] > 1
  <2>1. PICK i \in forms : TRUE
    BY <1>1
  <2>2. i \in DOMAIN plan.manifest /\ plan.manifest[i] <= size
    BY DEF P!ManifestForms
  <2>3. plan.manifest[i] \in Nat
    BY <1>1, <2>2
  <2> QED BY <1>1, <2>2, <2>3
<1>6. 1 < size
  <2> HIDE DEF size
  <2> QED BY <1>4, <1>5
<1>7. ASSUME plan.coded PROVE size + Overhead <= capacity
  <2> HIDE DEF size, most, robust, capacity
  <2> QED BY <1>0, <1>4, <1>6, <1>7 DEF P!Larger, Overhead, capacity
<1>8. P!ManifestSize(plan) <= size
  <2>1. forms \in SUBSET Nat
    BY <1>1 DEF P!ManifestForms
  <2>2. \E j \in forms : \A k \in forms : j <= k
    <3> HIDE DEF forms
    <3> QED BY <1>1, <2>1, LeastOf
  <2>3. PICK j \in forms : P!ManifestSize(plan) = plan.manifest[j]
    BY <2>2 DEF P!ManifestSize
  <2> QED BY <2>3 DEF P!ManifestForms
<1> QED
  BY <1>1, <1>4, <1>6, <1>7, <1>8

\* What the code can bring back: not a chunk that begins as the envelope does, and no
\* control item larger than the frame.
ComesBack(plan, frame) ==
    /\ frame.unit.kind = "coded" \/ ~frame.payload.magic \/ frame.type # Data
    /\ frame.chunk \in ControlChunks \ {0} => frame.payload.size <= P!FrameCapacity(plan)

\* The unit a frame is decoded to is the one that was meant.
LEMMA UnitsAreMeant ==
  ASSUME NEW plan, NEW frame, FrameOK(plan, frame), ComesBack(plan, frame),
         NEW header, NEW payload,
         header.type = frame.type,
         frame.type = Data => /\ header.session = frame.session /\ header.chunk = frame.chunk
                              /\ payload = frame.payload
  PROVE  TransmissionUnit(header, payload) = Meant(frame)
<1>1. CASE frame.type # Data
  BY <1>1 DEF TransmissionUnit, Meant
<1>2. CASE frame.type = Data /\ frame.chunk \in ControlChunks
  <2>1. frame.unit.kind # "coded"
    BY <1>2 DEF FrameOK, CodedOK
  <2> QED BY <1>2, <2>1 DEF TransmissionUnit, Meant
<1>3. CASE frame.type = Data /\ frame.chunk \notin ControlChunks /\ frame.unit.kind = "coded"
  <2> DEFINE unit == frame.unit
  <2>1. /\ unit = [kind |-> "coded", session |-> frame.session, equation |-> unit.equation,
                   seed |-> unit.seed, degree |-> unit.degree, scheme |-> unit.scheme,
                   size |-> unit.size, payload |-> unit.payload]
        /\ unit.size \in Nat \ {0} /\ unit.degree \in Nat \ {0} /\ unit.scheme \in Schemes
        /\ payload = EncodeCodedPayload(unit)
    BY <1>3 DEF FrameOK, CodedOK
  <2>2. /\ payload.magic = TRUE /\ payload.size = Overhead + unit.size
        /\ payload.fields.version = EnvelopeVersion /\ payload.fields.scheme = unit.scheme
        /\ payload.fields.equation = unit.equation /\ payload.fields.seed = unit.seed
        /\ payload.fields.degree = unit.degree /\ payload.rest = unit.payload
    <3> HIDE DEF unit
    <3> QED BY <2>1 DEF EncodeCodedPayload
  <2>3. ~Malformed(payload) /\ payload.size - Overhead = unit.size
    <3> HIDE DEF unit
    <3> QED BY <2>1, <2>2 DEF Malformed, Overhead
  <2>4. TransmissionUnit(header, payload)
          = [kind |-> "coded", session |-> frame.session, equation |-> unit.equation,
             seed |-> unit.seed, degree |-> unit.degree, scheme |-> unit.scheme,
             size |-> unit.size, payload |-> unit.payload]
    <3> HIDE DEF unit
    <3> QED BY <1>3, <2>2, <2>3 DEF TransmissionUnit
  <2>5. Meant(frame) = unit
    BY <1>3 DEF Meant
  <2> QED BY <2>1, <2>4, <2>5
<1>4. CASE frame.type = Data /\ frame.chunk \notin ControlChunks /\ frame.unit.kind # "coded"
  <2>1. ~payload.magic
    BY <1>4 DEF ComesBack
  <2>2. TransmissionUnit(header, payload)
          = [kind |-> "systematic", session |-> header.session, index |-> header.chunk,
             size |-> payload.size, payload |-> payload]
    BY <1>4, <2>1 DEF TransmissionUnit, Malformed
  <2> QED BY <1>4, <2>2 DEF Meant
<1> QED
  BY <1>1, <1>2, <1>3, <1>4

\* Its payload fits the frame.
LEMMA PayloadFits ==
  ASSUME NEW plan, PlanOK(plan), P!PlanAccepted(plan), P!FrameCapacity(plan) \in Nat,
         NEW frame, FrameOK(plan, frame), ComesBack(plan, frame)
  PROVE  /\ frame.payload.size \in Nat /\ frame.payload.size <= P!FrameCapacity(plan)
         /\ P!FrameCapacity(plan) > 0
<1> DEFINE capacity == P!FrameCapacity(plan)
           size == P!ChunkSize(plan)
<1>1. /\ size \in Nat /\ 1 < size /\ size <= capacity /\ P!ManifestSize(plan) <= size
      /\ plan.coded => size + Overhead <= capacity
  BY PlannedSizes
<1>2. capacity \in Nat /\ frame.payload.size \in Nat
  BY DEF FrameOK
<1>3. CASE frame.type # Data
  <2>1. frame.payload.size = 0
    BY <1>3 DEF FrameOK, Empty
  <2> HIDE DEF capacity, size
  <2> QED BY <1>1, <1>2, <2>1 DEF capacity
<1>4. CASE frame.type = Data /\ frame.unit.kind = "coded"
  <2>1. plan.coded /\ frame.unit.size \in 1..size /\ frame.payload = EncodeCodedPayload(frame.unit)
    BY <1>4 DEF FrameOK, CodedOK
  <2>2. frame.payload.size = Overhead + frame.unit.size
    BY <2>1 DEF EncodeCodedPayload
  <2> HIDE DEF capacity, size
  <2> QED BY <1>1, <1>2, <2>1, <2>2 DEF capacity, Overhead
<1>5. CASE frame.type = Data /\ frame.unit.kind # "coded"
  <2>1. CASE frame.chunk \notin ControlChunks
    <3>1. frame.payload.size <= size
      BY <1>5, <2>1 DEF FrameOK
    <3> HIDE DEF capacity, size
    <3> QED BY <1>1, <1>2, <3>1 DEF capacity
  <2>2. CASE frame.chunk = 0
    <3>1. frame.payload.size = P!ManifestSize(plan)
      BY <1>5, <2>2 DEF FrameOK
    <3> HIDE DEF capacity, size
    <3> QED BY <1>1, <1>2, <3>1 DEF capacity
  <2>3. CASE frame.chunk \in ControlChunks \ {0}
    <3>1. frame.payload.size <= capacity
      BY <2>3 DEF ComesBack
    <3> HIDE DEF size
    <3> QED BY <1>1, <1>2, <3>1
  <2> QED BY <2>1, <2>2, <2>3
<1> QED
  BY <1>3, <1>4, <1>5

\* The binary formats' capacity, and gray4's.
LEMMA Capacities ==
  ASSUME NEW plan, PlanOK(plan)
  PROVE  /\ plan.protocol \in {"basic", "compact"} =>
               P!FrameCapacity(plan) \in Nat /\ P!FrameCapacity(plan) = P!BinaryCapacity(plan)
         /\ plan.protocol = "gray4" =>
               P!FrameCapacity(plan) \in Nat /\ P!FrameCapacity(plan) = P!Gray4Capacity(plan)
<1>1. Rep(plan.ecc) \in 1..4 /\ P!Rep(plan.ecc) = Rep(plan.ecc) /\ P!Cells(plan) \in Nat
  BY Repetitions DEF PlanOK, P!Cells
<1>2. P!BinaryCapacity(plan) \in Nat
  BY <1>1 DEF P!BinaryCapacity, P!HeaderSize
<1>3. P!Gray4Capacity(plan) \in Nat
  BY <1>1 DEF P!Gray4Capacity, P!HeaderCells, P!HeaderSize
<1> QED
  BY <1>2, <1>3 DEF P!FrameCapacity

\* A clean picture shows one frame as it was painted.
LEMMA CleanShowsOne ==
  ASSUME NEW plan, PlanOK(plan), NEW p, PictureOK(plan, p), Clean(p), NEW frame \in p.shown
  PROVE  FrameOK(plan, frame) /\ p.symbol \in P!Symbols(plan, frame)
<1> DEFINE seen == [symbol |-> p.symbol, shown |-> p.shown]
<1>1. PICK old \in p.shown, new \in p.shown :
         \E above \in P!Symbols(plan, old), below \in P!Symbols(plan, new) :
            seen = Untorn(above, old) \/ (old # new /\ seen \in Torn(above, below, old, new))
  BY DEF PictureOK
<1>2. PICK above \in P!Symbols(plan, old), below \in P!Symbols(plan, new) :
            seen = Untorn(above, old) \/ (old # new /\ seen \in Torn(above, below, old, new))
  BY <1>1
<1>3. seen.symbol = p.symbol /\ seen.shown = p.shown
  OBVIOUS
<1>4. ~(old # new /\ seen \in Torn(above, below, old, new))
  <2> SUFFICES ASSUME old # new, seen \in Torn(above, below, old, new) PROVE FALSE
    OBVIOUS
  <2>1. p.shown = {old} \cup {new}
    <3> HIDE DEF seen
    <3> QED BY <1>3 DEF Torn
  <2>2. Cardinality({old} \cup {new}) = Cardinality({old}) + 1
    <3>1. IsFiniteSet({old}) /\ new \notin {old}
      BY FS_Singleton
    <3> QED BY <3>1, FS_AddElement
  <2>3. Cardinality({old}) = 1
    BY FS_Singleton
  <2> QED BY <2>1, <2>2, <2>3 DEF Clean
<1>5. p.symbol = above /\ p.shown = {old}
  <2>1. seen = Untorn(above, old)
    BY <1>2, <1>4
  <2> HIDE DEF seen
  <2> QED BY <1>3, <2>1 DEF Untorn
<1> QED
  BY <1>2, <1>5 DEF PictureOK

\* A frame is decoded with a header and a payload of which its unit is made.
Returns(read, frame) ==
    \E header, payload :
       /\ read = Decoded(header, payload)
       /\ header.type = frame.type
       /\ frame.type = Data => /\ header.session = frame.session /\ header.chunk = frame.chunk
                               /\ payload = frame.payload

\* Nothing outvotes what is not spoilt.
LEMMA Unspoilt ==
  ASSUME NEW plan, PlanOK(plan), NEW p, Clean(p)
  PROVE  /\ p.hurt.format = 0 /\ p.hurt.head = 0 /\ p.hurt.body = 0 /\ p.speck = None
         /\ Contrasty(p) /\ BinaryLegible(p) /\ ControlLegible(p)
         /\ VoteHolds(0, Rep(plan.ecc)) /\ SymbolVoteHolds(0 + 0, Rep(plan.ecc))
<1>1. p.hurt.format = 0 /\ p.hurt.head = 0 /\ p.hurt.body = 0 /\ p.speck = None
  BY DEF Clean
<1>2. Contrasty(p) /\ BinaryLegible(p) /\ ControlLegible(p)
  BY ShownLevels, DecodingAssumption DEF Contrasty, BinaryLegible, ControlLegible
<1>3. Rep(plan.ecc) \in 1..4
  BY Repetitions DEF PlanOK
<1> QED
  BY <1>1, <1>2, <1>3 DEF VoteHolds, SymbolVoteHolds

\* The binary formats are painted under the mask their decoders fall back on.
LEMMA BinaryMask ==
  ASSUME NEW plan, plan.protocol \in {"basic", "compact"}, NEW frame,
         NEW s \in P!Symbols(plan, frame)
  PROVE  s = Symbol(plan, frame, 3)
<1>1. P!Masks(plan, frame) = {3}
  BY DEF P!Masks
<1>2. s = P!BinarySymbol(plan, frame, 3)
  BY <1>1 DEF P!Symbols
<1> QED
  BY <1>2 DEF Symbol

\* The header of three protocols names what the unit is made of.
LEMMA HeadersTell ==
  ASSUME NEW frame
  PROVE  /\ MakeHeader(frame).type = frame.type /\ MakeHeader(frame).session = frame.session
         /\ MakeHeader(frame).chunk = frame.chunk
BY DEF MakeHeader

\* basic and compact read a clean picture, with the format or, where the strip is too
\* short for it, without.
LEMMA BitsComeBack ==
  ASSUME NEW plan, PlanOK(plan), P!PlanAccepted(plan), plan.protocol \in {"basic", "compact"},
         P!FormatCopies(plan) >= 2 \/ plan.ecc = "Q",
         NEW p, PictureOK(plan, p), Clean(p),
         NEW frame \in p.shown, ComesBack(plan, frame)
  PROVE  Returns(DecodeBits(plan, p, TRUE), frame)
<1>1. FrameOK(plan, frame) /\ p.symbol = Symbol(plan, frame, 3)
  BY CleanShowsOne, BinaryMask
<1>2. P!BinaryFits(plan, frame.payload.size)
  <2>1. /\ P!FrameCapacity(plan) \in Nat /\ P!FrameCapacity(plan) = P!BinaryCapacity(plan)
    BY Capacities
  <2>2. /\ frame.payload.size \in Nat /\ frame.payload.size <= P!FrameCapacity(plan)
        /\ P!FrameCapacity(plan) > 0
    BY <1>1, <2>1, PayloadFits
  <2> QED BY <2>1, <2>2, BinaryRoom
<1>3. /\ p.symbol.format = FormatInfo(frame.type, 3, plan.ecc)
      /\ p.symbol.head.mask = 3 /\ p.symbol.head.content = MakeHeader(frame)
      /\ p.symbol.body.content = frame.payload
  BY <1>1, <1>2, BinaryParts
<1>4. P!FormatCopies(plan) \in Int
  BY DEF P!FormatCopies, P!FormatStrip, P!FormatBits, P!Guard, PlanOK
<1>5. BinaryFormat(plan, p).mask = 3 /\ BinaryFormat(plan, p).ecc = plan.ecc
  <2>1. BinaryFormat(plan, p)
          = IF P!FormatCopies(plan) >= 2 THEN p.symbol.format ELSE FormatInfo(None, 3, "Q")
    BY <1>4, Unspoilt DEF BinaryFormat
  <2>2. CASE P!FormatCopies(plan) >= 2
    BY <1>3, <2>1, <2>2 DEF FormatInfo
  <2>3. CASE ~(P!FormatCopies(plan) >= 2)
    BY <2>1, <2>3 DEF FormatInfo
  <2> QED BY <2>2, <2>3
<1>6. PayloadAccepted(MakeHeader(frame), frame.payload)
  BY <1>1 DEF PayloadAccepted, MakeHeader, FrameOK
<1>7. DecodeBits(plan, p, TRUE) = Decoded(MakeHeader(frame), frame.payload)
  BY <1>3, <1>5, <1>6, Unspoilt DEF DecodeBits
<1> QED
  BY <1>7, HeadersTell DEF Returns

\* gray4 reads one by the fixed levels.
LEMMA Gray4ComesBack ==
  ASSUME NEW plan, PlanOK(plan), P!PlanAccepted(plan), plan.protocol = "gray4",
         NEW p, PictureOK(plan, p), Clean(p), NEW centres,
         NEW frame \in p.shown, ComesBack(plan, frame)
  PROVE  Returns(DecodeGray4(plan, p, centres, TRUE), frame)
<1>1. FrameOK(plan, frame) /\ p.symbol \in P!Symbols(plan, frame)
  BY CleanShowsOne
<1>2. PICK mask \in 0..7 : p.symbol = Symbol(plan, frame, mask)
  BY <1>1, SymbolsArePainted
<1>3. P!Gray4Fits(plan, frame.payload.size)
  <2>1. /\ P!FrameCapacity(plan) \in Nat /\ P!FrameCapacity(plan) = P!Gray4Capacity(plan)
    BY Capacities
  <2>2. /\ frame.payload.size \in Nat /\ frame.payload.size <= P!FrameCapacity(plan)
        /\ P!FrameCapacity(plan) > 0
    BY <1>1, <2>1, PayloadFits
  <2> QED BY <2>1, <2>2, Gray4Room
<1>4. /\ p.symbol.format = FormatInfo(frame.type, mask, plan.ecc)
      /\ p.symbol.head.mask = mask /\ p.symbol.head.content = MakeHeader(frame)
      /\ frame.type # Sync => /\ p.symbol.body.kind = "payload" /\ p.symbol.body.mask = mask
                              /\ p.symbol.body.content = frame.payload
  BY <1>2, <1>3, Gray4Parts
<1>5. MakeHeader(frame) # None
  BY <1>4 DEF PictureOK
<1>6. Gray4Header(plan, p) = MakeHeader(frame)
  <2>1. Gray4Format(p) = FormatInfo(frame.type, mask, plan.ecc)
    BY <1>4, Unspoilt DEF Gray4Format
  <2> QED BY <1>4, <2>1, Unspoilt DEF Gray4Header, FormatInfo
<1>7. ASSUME frame.payload.size = 0
      PROVE  DecodeGray4(plan, p, centres, TRUE) = Decoded(MakeHeader(frame), frame.payload)
  <2>1. frame.payload = Empty /\ MakeHeader(frame).length = 0
    BY <1>1, <1>7 DEF FrameOK, MakeHeader
  <2> QED BY <1>5, <1>6, <2>1 DEF DecodeGray4
<1>8. ASSUME frame.payload.size # 0
      PROVE  DecodeGray4(plan, p, centres, TRUE) = Decoded(MakeHeader(frame), frame.payload)
  <2>1. frame.type = Data
    BY <1>1, <1>8 DEF FrameOK, Empty
  <2>2. MakeHeader(frame).length # 0 /\ PayloadAccepted(MakeHeader(frame), frame.payload)
    BY <1>1, <1>8 DEF PayloadAccepted, MakeHeader, FrameOK
  <2> DEFINE variants == Variants(p, centres[mask])
  <2>3. \E i \in DOMAIN variants : VariantReads(plan, variants[i], p)
    <3>1. VariantReads(plan, Nominal, p)
      BY InksAreRead, Unspoilt DEF VariantReads, Misread
    <3>2. Nominal \in Items(variants)
      BY CentresTried
    <3> HIDE DEF variants
    <3> QED BY <3>1, <3>2 DEF Items
  <2>4. p.symbol.body.kind = "payload" /\ p.symbol.body.mask = mask
        /\ p.symbol.body.content = frame.payload
    BY <1>4, <2>1 DEF Sync, Data
  <2> QED BY <1>4, <1>5, <1>6, <2>2, <2>3, <2>4 DEF DecodeGray4
<1>9. DecodeGray4(plan, p, centres, TRUE) = Decoded(MakeHeader(frame), frame.payload)
  BY <1>7, <1>8
<1> QED
  BY <1>9, HeadersTell DEF Returns

\* layered does.
LEMMA LayeredComesBack ==
  ASSUME NEW plan, PlanOK(plan), plan.protocol = "layered",
         NEW p, PictureOK(plan, p), Clean(p), NEW centres, NEW frame \in p.shown
  PROVE  Returns(DecodeLayered(p, centres, TRUE), frame)
<1>1. FrameOK(plan, frame) /\ p.symbol \in P!Symbols(plan, frame)
  BY CleanShowsOne
<1>2. PICK mask \in 0..7 : p.symbol = Symbol(plan, frame, mask)
  BY <1>1, SymbolsArePainted
<1> DEFINE profile == P!Profile(plan.ecc)
           bootstrap == Bootstrap(frame, profile, mask)
<1>3. /\ p.symbol.head.content = bootstrap
      /\ frame.type = Data => /\ p.symbol.body.kind = "payload" /\ p.symbol.body.mask = mask
                              /\ p.symbol.body.content = BodyOf(frame)
  BY <1>1, <1>2, LayeredParts DEF FrameOK
<1>4. bootstrap # None /\ LayeredBootstrap(p) = bootstrap
  BY <1>3, Unspoilt DEF PictureOK, LayeredBootstrap, RsDecodes, BootstrapNsym
<1>5. /\ bootstrap.type = frame.type /\ bootstrap.tag = frame.session
      /\ bootstrap.length = frame.payload.size /\ bootstrap.mask = mask
      /\ bootstrap.profile = profile
  <2>1. frame.session = ShortTag(frame.session)
    BY <1>1 DEF FrameOK, P!StreamSession, P!ShortTag, ShortTag
  <2> QED BY <2>1 DEF Bootstrap
<1>6. BodyNsym(profile) \in {8, 16}
  <2>1. profile \in {"robust", "dense"}
    BY DEF P!Profile
  <2> HIDE DEF profile
  <2> QED BY <2>1 DEF BodyNsym
<1> HIDE DEF bootstrap, profile
<1>7. CASE frame.type # Data
  <2>1. DecodeLayered(p, centres, TRUE) = Decoded(BareHeader(bootstrap), Empty)
    BY <1>4, <1>5, <1>7 DEF DecodeLayered
  <2>2. BareHeader(bootstrap).type = frame.type
    BY <1>5 DEF BareHeader
  <2> QED BY <1>7, <2>1, <2>2 DEF Returns
<1>8. CASE frame.type = Data
  <2> DEFINE variants == LayeredVariants(p, centres[bootstrap.mask])
             header == LayeredHeader(bootstrap, BodyOf(frame))
  <2>1. \E i \in DOMAIN variants : BodyReads(bootstrap, variants[i], p)
    <3>1. BodyReads(bootstrap, Nominal, p)
      BY <1>5, <1>6, InksAreRead, Unspoilt DEF BodyReads, Misread, RsDecodes
    <3>2. Nominal \in Items(variants)
      BY CentresTried
    <3> HIDE DEF variants
    <3> QED BY <3>1, <3>2 DEF Items
  <2>2. BodyOf(frame).payload = frame.payload /\ BodyOf(frame).chunk = frame.chunk
    BY DEF BodyOf
  <2>3. BodyAccepted(bootstrap, BodyOf(frame))
    BY <1>1, <1>5, <2>2 DEF BodyAccepted, FrameOK
  <2>4. DecodeLayered(p, centres, TRUE) = Decoded(header, BodyOf(frame).payload)
    BY <1>3, <1>4, <1>5, <1>8, <2>1, <2>3 DEF DecodeLayered
  <2>5. header.type = frame.type /\ header.session = frame.session /\ header.chunk = frame.chunk
    BY <1>5, <2>2 DEF LayeredHeader
  <2> HIDE DEF header
  <2> QED BY <2>2, <2>4, <2>5 DEF Returns
<1> QED
  BY <1>7, <1>8

\* A clean picture is read for the unit its sender meant, whatever is remembered.
LEMMA CleanReads ==
  ASSUME NEW plan, PlanOK(plan), P!PlanAccepted(plan),
         plan.protocol \in {"basic", "compact"} => P!FormatCopies(plan) >= 2 \/ plan.ecc = "Q",
         NEW p, PictureOK(plan, p), Clean(p), NEW centres,
         NEW frame \in p.shown, ComesBack(plan, frame)
  PROVE  /\ Reads(plan, p, centres) # Nothing
         /\ Reads(plan, p, centres).frame.unit = Meant(frame)
<1>1. Returns(Reads(plan, p, centres), frame)
  <2>1. CASE plan.protocol \in {"basic", "compact"}
    BY <2>1, BitsComeBack DEF Reads
  <2>2. CASE plan.protocol = "gray4"
    BY <2>2, Gray4ComesBack DEF Reads
  <2>3. CASE plan.protocol = "layered"
    BY <2>3, LayeredComesBack DEF Reads
  <2> QED BY <2>1, <2>2, <2>3 DEF PlanOK, Protocols
<1>2. PICK header, payload :
         /\ Reads(plan, p, centres) = Decoded(header, payload)
         /\ header.type = frame.type
         /\ frame.type = Data => /\ header.session = frame.session
                                 /\ header.chunk = frame.chunk
                                 /\ payload = frame.payload
  BY <1>1 DEF Returns
<1>3. TransmissionUnit(header, payload) = Meant(frame)
  BY <1>2, CleanShowsOne, UnitsAreMeant
<1>4. Decoded(header, payload) # Nothing
      /\ Decoded(header, payload).frame.unit = TransmissionUnit(header, payload)
  <2>1. Decoded(header, payload).decoded = TRUE /\ Nothing.decoded = FALSE
    BY DEF Decoded, Nothing
  <2> QED BY <2>1 DEF Decoded, DecodedFrame
<1> QED
  BY <1>2, <1>3, <1>4

\* The stream's own frames come back, for every plan that is accepted, every frame of
\* it and everything the receiver remembers: chunks as large as planned, coded ones in
\* their envelope, the manifest in whatever form it took (max_payload_size and the
\* frame stream's chunk size against the encoders and decoders).
THEOREM CleanComesBack == Spec => []CleanFramesComeBack
<1>1. DInv => CleanFramesComeBack
  <2> DEFINE search == Search(setup.mode, picture.region)
  <2> SUFFICES ASSUME DInv, picture # None, Clean(picture), search \in {"none", "around"},
                      setup.engine # "new", ~Moved,
                      setup.plan.protocol \in {"basic", "compact"} =>
                         P!FormatCopies(setup.plan) >= 2 \/ setup.plan.ecc = "Q",
                      NEW frame \in picture.shown, ComesBack(setup.plan, frame)
               PROVE  result # Nothing /\ result.frame.unit = Meant(frame)
    BY DEF CleanFramesComeBack, ComesBack
  <2>1. PlanOK(setup.plan) /\ PictureOK(setup.plan, picture) /\ P!PlanAccepted(setup.plan)
    BY PictureIsOK DEF DInv
  <2>2. PICK before : result = IF Located THEN Reads(setup.plan, picture, before) ELSE Nothing
    BY DEF DInv
  <2>3. Located
    <3>1. Finds(setup.plan, picture, setup.engine, search)
      BY <2>1, CleanIsFound DEF PlanOK
    <3> QED BY <3>1 DEF Located, Moved
  <2>4. /\ Reads(setup.plan, picture, before) # Nothing
        /\ Reads(setup.plan, picture, before).frame.unit = Meant(frame)
    BY <2>1, CleanReads
  <2> QED BY <2>2, <2>3, <2>4
<1> QED
  BY <1>1, DecodingInvariant, PTL
=============================================================================
