--------------------------- MODULE MCLiveGeometry ---------------------------
\* A symbol that moves within one area of the screen, which the box of a
\* decoded frame covers (BoxInMiddle) or does not (BoxInCorner).
EXTENDS LiveGeometry

Near == {"left", "right"}
Screen == {"middle", "corner"}
InMiddle == [p \in Near |-> "middle"]
BoxInMiddle == [p \in Near |-> "middle"]
BoxInCorner == [p \in Near |-> "corner"]
=============================================================================
