------------------------------- MODULE Locator -------------------------------
(* Where the receiver thinks the symbol is: the detectors, the two locators   *)
(* for basic, the three for compact (gray4 and layered use them too). A quad  *)
(* is known by what its corners stand on, and the grid laid over the picture  *)
(* is right when the warp takes the corners for what they are.               *)
EXTENDS Wire

CONSTANTS Legible,   \* the darkest and lightest ink must differ by this much
          Black      \* a pixel above this is not black (8 in the code)

(* A picture has a symbol, in the inks' grey levels (light), square, slanted   *)
(* or steep, on a ground that continues to the borders ("black" or "white",    *)
(* "busy", or "decoys": busy with what looks like finders in the corners). Its *)
(* finders are clear, bare cores (the rings run into their surroundings), worn *)
(* (they only resemble finders) or none. place says whether the symbol fills   *)
(* the whole picture, stands in the middle or in the far corner. window tells  *)
(* whether the search in a dark window succeeds, sure whether the timing rails *)
(* are read and the weighed confidence reaches the threshold. A search has no  *)
(* region, or one around the symbol, tight on its outline, aside from it, or   *)
(* off the frame.                                                              *)

\* A region that misses the frame is taken for none.
Whole(search) == search \in {"none", "off"}
InView(search) == search # "aside"

\* Is any of the ground in the searched area?
Margin(picture, search) == picture.place # "fills" /\ (Whole(search) \/ search = "around")

\* The level of a plain ground; a busy one has something light on every border.
Ground(picture) == IF picture.ground = "black" THEN picture.light[0]
                   ELSE IF picture.ground = "white" THEN picture.light[3] ELSE 255
Plain(picture) == picture.ground \in {"black", "white"}
Quiet(picture) == picture.light[3]

\* The box of what is not black: refused when it reaches every border, as that of a
\* symbol that fills the picture does. Only a dark ground or a dark quiet zone
\* leaves one, and it is the symbol's outline only where the quiet zone shows.
NonBlackBox(picture, search) ==
    LET edge == IF Margin(picture, search) THEN Ground(picture) ELSE Quiet(picture)
    IN  IF ~InView(search) \/ edge > Black THEN None
        ELSE IF picture.shape # "square" THEN "other"
        ELSE IF Quiet(picture) > Black THEN "outline" ELSE "inner"

\* The box of what is not light: what is inside a light quiet zone on a light
\* ground, the searched area itself otherwise.
DarkBox(picture, search) ==
    LET light(level) == level >= 200
        ground == Margin(picture, search) => Plain(picture) /\ light(Ground(picture))
    IN  IF InView(search) /\ ground /\ light(Quiet(picture)) /\ picture.shape = "square"
        THEN "inner" ELSE "other"

\* basic: nested squares, in either polarity; a quad too slanted is refused.
FinderQuad(picture, search) ==
    IF InView(search) /\ picture.finders = "clear" /\ picture.shape # "steep" THEN "centres" ELSE None

\* A box around finders seen in a dark window or in the picture, enlarged; then
\* the box of what is not black.
SymbolBox(picture, search) ==
    IF InView(search) /\ (picture.window \/ FinderQuad(picture, search) # None) THEN "other"
    ELSE NonBlackBox(picture, search)

-----------------------------------------------------------------------------
(* compact: finders darker than what is around them, first in the corners of  *)
(* the searched area.                                                        *)

InCorners(picture, search) ==
    InView(search) /\ (Whole(search) => picture.place = "fills")
Decoyed(picture, search) ==
    Margin(picture, search) /\ Whole(search) /\ picture.ground = "decoys"

\* Dark squares with a ring around them that is lighter by more than 25.
InnerCores(picture, search) ==
    IF InCorners(picture, search) /\ picture.finders \in {"clear", "cores"}
          /\ picture.light[3] > picture.light[0] + 25
    THEN "centres"
    ELSE IF Decoyed(picture, search) THEN "other" ELSE None

\* What resembles the whole pattern most.
CornerTemplates(picture, search) ==
    IF InCorners(picture, search) /\ picture.finders # "none" /\ picture.light[0] < picture.light[3]
    THEN "centres"
    ELSE IF Decoyed(picture, search) THEN "other" ELSE None

\* Nested squares anywhere, under fixed thresholds: a dark centre, a ring
\* lighter by 40 or more.
HybridFinders(picture, search) ==
    IF /\ InView(search) /\ picture.finders = "clear"
       /\ \E threshold \in {100, 128, 150} :
             picture.light[0] <= threshold /\ threshold < picture.light[3]
       /\ picture.light[3] >= picture.light[0] + 40
    THEN "centres" ELSE None

\* The outermost four: refused when two sides differ too much, or when the first
\* corner lies beyond six tenths of the searched area.
PickCorners(picture, search, found) ==
    IF found = "centres"
          /\ (picture.shape = "steep" \/ (Whole(search) /\ picture.place = "corner"))
    THEN None ELSE found

First(choices) ==
    LET found == {i \in DOMAIN choices : choices[i] # None}
    IN  IF found = {} THEN None
        ELSE choices[CHOOSE i \in found : \A j \in found : i <= j]

CompactQuad(picture, search) ==
    PickCorners(picture, search,
                First(<<InnerCores(picture, search), CornerTemplates(picture, search),
                        HybridFinders(picture, search)>>))

-----------------------------------------------------------------------------
(* A located grid: whether it lies on the symbol, and whether the locator     *)
(* gives a reason not to trust it.                                           *)

\* The warp puts the corners where it takes them to belong: on the symbol's
\* outline, inside its quiet zone, or on the finders' centres.
Warped(corners, taken) == corners = taken

Lost == [found |-> FALSE, aligned |-> FALSE, trusted |-> FALSE]

Contrasty(picture) ==
    picture.light[3] - picture.light[0] >= Legible \/ picture.light[0] - picture.light[3] >= Legible

Measured(picture, aligned) ==
    [found |-> TRUE, aligned |-> aligned,
     trusted |-> Contrasty(picture) /\ picture.sure]

\* basic: the finders' quad or the box, its corners taken for the finders'
\* centres. The older locator does not look at the timing rails.
BasicQuad(picture, search) ==
    First(<<FinderQuad(picture, search), SymbolBox(picture, search)>>)

LocateBasic(picture, search) ==
    LET quad == BasicQuad(picture, search)
    IN  IF quad = None THEN Lost ELSE Measured(picture, Warped(quad, "centres"))

LocateBasicLegacy(picture, search) ==
    LET quad == BasicQuad(picture, search)
    IN  [found |-> quad # None, aligned |-> Warped(quad, "centres"), trusted |-> picture.sure]

\* Compact, corners first; a box again has its corners taken for the centres.
LocateCorners(picture, search) ==
    LET quad == First(<<CompactQuad(picture, search), NonBlackBox(picture, search),
                        SymbolBox(picture, search)>>)
    IN  IF quad = None THEN Lost ELSE Measured(picture, Warped(quad, "centres"))

\* Compact, "new": a box is taken for the outline; with a region to search, the
\* whole of it is better than nothing. Where there is no box there are no
\* finders either.
OutlineBox(picture, search) ==
    LET whole == [none |-> None, tight |-> "outline", around |-> "other", aside |-> "other",
                  off |-> "other"][search]
    IN  First(<<NonBlackBox(picture, search), SymbolBox(picture, search), whole>>)

LocateOutline(picture, search) ==
    LET box == OutlineBox(picture, search)
    IN  IF box = None THEN Lost ELSE Measured(picture, Warped(box, "outline"))

\* Compact, "legacy": the box of what is not black for the outline, the dark
\* box for what is inside the quiet zone. A dark box is always found, so the
\* finders and the whole region are never reached; the result is kept however
\* little it is trusted.
LocateLegacy(picture, search) ==
    LET box == NonBlackBox(picture, search)
    IN  IF box # None THEN Measured(picture, Warped(box, "outline"))
        ELSE Measured(picture, Warped(DarkBox(picture, search), "inner"))

\* Basic's engines: "auto" keeps a trusted result of "new", then asks "legacy".
RunBasic(picture, engine, search) ==
    LET grid == LocateBasic(picture, search)
    IN  IF engine = "new" \/ (engine = "auto" /\ grid.trusted)
        THEN [engine |-> "new", grid |-> grid]
        ELSE [engine |-> "legacy", grid |-> LocateBasicLegacy(picture, search)]

\* Compact's engines: "auto" keeps a trusted result of the corners.
RunCompact(picture, engine, search) ==
    LET corners == LocateCorners(picture, search)
    IN  IF engine = "new" THEN [engine |-> "new", grid |-> LocateOutline(picture, search)]
        ELSE IF engine = "auto" /\ corners.trusted THEN [engine |-> "corner", grid |-> corners]
        ELSE [engine |-> "legacy", grid |-> LocateLegacy(picture, search)]
=============================================================================
