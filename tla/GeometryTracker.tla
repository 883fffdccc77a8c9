-------------------------- MODULE GeometryTracker --------------------------
(***************************************************************************)
(* receiver/locator/state_machine.py (LiveGeometryStateMachine) with the   *)
(* FrameLocator it owns: is the geometry of the sender's symbol on the     *)
(* screen known, and where is it looked for?                               *)
(*                                                                         *)
(* A geometry (a homography) fits the one position of the symbol it was    *)
(* measured at.  A region of interest is the area of the screen it covers, *)
(* None for the whole screen; its margins are what makes several positions *)
(* share an area.  The tracker is one record:                              *)
(*   mode, geometry   _lock_mode, _geometry_state (None: no geometry)      *)
(*   generation       _geometry_generation                                 *)
(*   streak           _geometry_fail_streak, counted up to Threshold       *)
(*   roi              the locator's current region of interest             *)
(* The age of the lock, which is only reported, and force_reacquire, which *)
(* no pipeline calls, are left out.                                        *)
(***************************************************************************)
EXTENDS Integers

CONSTANTS
    None,
    Positions,     \* where on the screen the symbol may be
    Areas,         \* of the screen, as far as regions of interest tell them apart
    AreaOf,        \* the area a position is in
    BoxOf,         \* the area that det_bbox of a frame decoded at a position names
    InitialRoi,    \* initial_roi: an area, or None in auto mode
    FixedRoi,      \* fixed_roi: manual mode
    Threshold      \* lock_fail_reacquire_threshold

ASSUME TrackerAssumption ==
    /\ AreaOf \in [Positions -> Areas] /\ BoxOf \in [Positions -> Areas]
    /\ InitialRoi \in Areas \cup {None} /\ None \notin Areas
    /\ FixedRoi \in BOOLEAN
    /\ Threshold \in Nat \ {0}

\* A geometry is measured at a position; proposed is the generation the worker
\* proposed it as, generation the one the tracker gave it.
Proposal(position, generation) ==
    [position |-> position, proposed |-> generation, generation |-> generation]

InitialTracker ==
    [mode |-> "acquire", geometry |-> None, generation |-> 0, streak |-> 0, roi |-> InitialRoi]

\* A defect: proposals of earlier generations are accepted.
ProposeUpdateStale(tracker, geometry, good, used) ==
    IF ~good THEN tracker
    ELSE [tracker EXCEPT !.generation = @ + 1, !.mode = "locked",
                         !.geometry = [geometry EXCEPT !.generation = tracker.generation + 1]]

\* A defect: the tracker's generation is compared with the proposal's own.
ProposeUpdateMiscompared(tracker, geometry, good, used) ==
    IF ~good \/ geometry.generation # tracker.generation THEN tracker
    ELSE [tracker EXCEPT !.generation = @ + 1, !.mode = "locked",
                         !.geometry = [geometry EXCEPT !.generation = tracker.generation + 1]]

\* good: decode_quality reaches the confidence threshold.
ProposeUpdate(tracker, geometry, good, used) ==
    IF ~good \/ used # tracker.generation THEN tracker
    ELSE [tracker EXCEPT !.generation = @ + 1, !.mode = "locked",
                         !.geometry = [geometry EXCEPT !.generation = tracker.generation + 1]]

\* The box of a frame decoded at a position becomes the region of interest.
UpdatedRoi(roi, position) == IF FixedRoi THEN roi ELSE BoxOf[position]

\* A defect: failures before a success still count after it.
RecordSuccessCounting(tracker, position) ==
    [tracker EXCEPT !.roi = UpdatedRoi(@, position)]

RecordSuccess(tracker, position) ==
    [tracker EXCEPT !.streak = 0, !.roi = UpdatedRoi(@, position)]

LosesLock(tracker) == tracker.mode = "locked" /\ tracker.streak + 1 >= Threshold

\* A defect: the generation stays when the lock is lost.
RecordFailureSameGeneration(tracker) ==
    IF LosesLock(tracker)
    THEN [tracker EXCEPT !.mode = "acquire", !.geometry = None, !.streak = 0]
    ELSE [tracker EXCEPT !.streak = IF @ < Threshold THEN @ + 1 ELSE @]

\* A defect: a failure sets the streak and does not add to it.
RecordFailureUncounted(tracker) ==
    IF LosesLock(tracker)
    THEN [tracker EXCEPT !.mode = "acquire", !.geometry = None,
                         !.generation = @ + 1, !.streak = 0]
    ELSE [tracker EXCEPT !.streak = 0]

\* Losing the lock forgets the geometry, not the region of interest.
RecordFailure(tracker) ==
    IF LosesLock(tracker)
    THEN [tracker EXCEPT !.mode = "acquire", !.geometry = None,
                         !.generation = @ + 1, !.streak = 0]
    ELSE [tracker EXCEPT !.streak = IF @ < Threshold THEN @ + 1 ELSE @]
=============================================================================
