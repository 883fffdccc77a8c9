---------------------------- MODULE LiveGeometry ----------------------------
(***************************************************************************)
(* The geometry tracker in the live pipeline, for the protocol that reuses *)
(* geometry (layered): the coordinator hands what the tracker knows to the *)
(* decode workers with each frame (_build_assignment) and learns from      *)
(* their results, several frames later and in another order                *)
(* (_handle_decode_completion, _handle_decode_failure), while the symbol   *)
(* moves on the screen.                                                    *)
(*                                                                         *)
(* Any worker with room may get a frame, which covers the round robin of   *)
(* the coordinator; slots, chunks and statistics are in other modules.     *)
(***************************************************************************)
EXTENDS GeometryTracker, Sequences, SequencesExt

CONSTANTS
    Workers,       \* decode workers
    QueueLength,   \* assignments a worker may have, the one in decode included
    MaxMoves,      \* bound: times the symbol moves
    MaxNoise       \* bound: decodable frames that fail, or decode with low quality

ASSUME BoundsAssumption ==
    QueueLength \in Nat \ {0} /\ MaxMoves \in Nat /\ MaxNoise \in Nat

VARIABLES
    position,      \* of the symbol on the screen
    moves, noise,  \* how many there have been
    captured,      \* the position a captured frame shows, on its way to decode, or None
    assignments,   \* the assignments of each worker, oldest first
    tracker,       \* the geometry tracker
    recent         \* history: decode modes of the latest failures, none after a success

vars == <<position, moves, noise, captured, assignments, tracker, recent>>

Init ==
    /\ position \in Positions
    /\ moves = 0 /\ noise = 0
    /\ captured = None
    /\ assignments = [w \in Workers |-> <<>>]
    /\ tracker = InitialTracker
    /\ recent = <<>>

Move(p) ==
    /\ moves < MaxMoves /\ p # position
    /\ position' = p
    /\ moves' = moves + 1
    /\ UNCHANGED <<noise, captured, assignments, tracker, recent>>

\* A frame is captured and goes through prep.
Capture ==
    /\ captured = None
    /\ captured' = position
    /\ UNCHANGED <<position, moves, noise, assignments, tracker, recent>>

\* The assignment takes the geometry, the generation and the region of
\* interest as they are now.
Assignment(p) ==
    [position |-> p, generation |-> tracker.generation, geometry |-> tracker.geometry,
     roi |-> tracker.roi]

\* A defect: an assignment is put whether there is room or not.
AssignUnbounded(w) ==
    /\ captured # None
    /\ assignments' = [assignments EXCEPT ![w] = Append(@, Assignment(captured))]
    /\ captured' = None
    /\ UNCHANGED <<position, moves, noise, tracker, recent>>

Assign(w) ==
    /\ captured # None
    /\ Len(assignments[w]) < QueueLength
    /\ assignments' = [assignments EXCEPT ![w] = Append(@, Assignment(captured))]
    /\ captured' = None
    /\ UNCHANGED <<position, moves, noise, tracker, recent>>

\* A worker reuses a locked geometry, or else locates the symbol within the
\* region of interest; neither falls back to the other or to the whole frame.
DecodeMode(a) == IF a.geometry # None THEN "geometry_reuse" ELSE "reacquire_locator"

Decodable(a) ==
    IF a.geometry # None THEN a.geometry.position = a.position
    ELSE a.roi \in {None, AreaOf[a.position]}

Answered(w) ==
    /\ assignments[w] # <<>>
    /\ assignments' = [assignments EXCEPT ![w] = Tail(@)]
    /\ UNCHANGED <<position, moves, captured>>

\* The worker proposes the geometry it measured as that of the next generation;
\* the coordinator passes it on unless the tracker is locked.
Succeed(w, good) ==
    /\ Answered(w)
    /\ LET a == Head(assignments[w])
           proposal == Proposal(a.position, a.generation + 1)
       IN  /\ Decodable(a)
           /\ tracker' = RecordSuccess(
                  IF tracker.mode = "locked" THEN tracker
                  ELSE ProposeUpdate(tracker, proposal, good, a.generation), a.position)
    /\ IF good THEN UNCHANGED noise ELSE noise < MaxNoise /\ noise' = noise + 1
    /\ recent' = <<>>

Fail(w) ==
    /\ Answered(w)
    /\ LET a == Head(assignments[w])
           latest == Append(recent, DecodeMode(a))
       IN  /\ IF Decodable(a) THEN noise < MaxNoise /\ noise' = noise + 1
              ELSE UNCHANGED noise
           /\ recent' = IF Len(latest) > Threshold THEN Tail(latest) ELSE latest
    /\ tracker' = RecordFailure(tracker)

Next ==
    \/ \E p \in Positions : Move(p)
    \/ Capture
    \/ \E w \in Workers :
          \/ Assign(w)
          \/ \E good \in BOOLEAN : Succeed(w, good)
          \/ Fail(w)

\* Capture and the coordinator go on, and every worker answers; that a frame
\* which can be decoded is decoded sooner or later follows from MaxNoise.
Fairness ==
    /\ WF_vars(Capture)
    /\ WF_vars(\E w \in Workers : Assign(w))
    /\ \A w \in Workers : WF_vars(Succeed(w, TRUE) \/ Fail(w))

Spec == Init /\ [][Next]_vars /\ Fairness
-----------------------------------------------------------------------------
Geometry == [position : Positions, proposed : Nat, generation : Nat]

Tracker ==
    [mode : {"acquire", "locked"}, geometry : Geometry \cup {None}, generation : Nat,
     streak : 0..Threshold, roi : Areas \cup {None}]

TypeOK ==
    /\ position \in Positions /\ captured \in Positions \cup {None}
    /\ moves \in 0..MaxMoves /\ noise \in 0..MaxNoise
    /\ assignments \in [Workers -> Seq([position : Positions, generation : Nat,
                            geometry : Geometry \cup {None}, roi : Areas \cup {None}])]
    /\ \A w \in Workers : Len(assignments[w]) <= QueueLength
    /\ tracker \in Tracker
    /\ recent \in Seq({"geometry_reuse", "reacquire_locator"}) /\ Len(recent) <= Threshold

\* The locked geometry was measured on a frame handed out after the lock was
\* last lost: a result that a worker was slow to give never brings an older
\* geometry back (propose_update's comparison of generations, with
\* _build_assignment reading the generation long before).
GeometryIsFresh ==
    tracker.geometry # None =>
        tracker.geometry.proposed = tracker.generation
        /\ tracker.geometry.generation = tracker.generation

\* A generation names one geometry: whatever is in the workers' queues under
\* the tracker's generation carries the geometry the tracker has.
GenerationNamesGeometry ==
    \A w \in Workers : \A i \in DOMAIN assignments[w] :
        assignments[w][i].generation = tracker.generation
            => assignments[w][i].geometry = tracker.geometry

\* Occasional failures do not cost the lock: it is lost only by a failure that
\* is the last of Threshold in a row, whatever was counted while acquiring
\* (decoder_pipeline_design.md, section 11).
LockLost == tracker.mode = "locked" /\ tracker'.mode = "acquire"

OccasionalFailuresKeepLock == [][LockLost => Len(recent') = Threshold]_vars

\* A geometry that no longer fits is not reused for long (the same section):
\* it is given up, or the symbol comes back.
WrongGeometryIsDropped ==
    \A p \in Positions :
        [](tracker.geometry # None /\ tracker.geometry.position # p /\ position = p
            => <>(position # p \/ tracker.geometry = None \/ tracker.geometry.position = p))

\* The symbol is always found again (track to full fallback in auto mode,
\* locator_refactor_plan.md).
Reacquires == [](tracker.mode = "acquire" => <>(tracker.mode = "locked"))
=============================================================================
