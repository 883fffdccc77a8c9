------------------------- MODULE LiveGeometryProofs -------------------------
(***************************************************************************)
(* What holds of the geometry tracker in the live pipeline for every       *)
(* number of positions, areas, workers and failures and every threshold:   *)
(* its type, the freshness of the locked geometry, and that occasional     *)
(* failures keep the lock.                                                 *)
(*                                                                         *)
(* The argument: an assignment is never ahead of the tracker, and the      *)
(* tracker's generation grows whenever its geometry changes.  So no        *)
(* assignment already carries the generation that a change is about to     *)
(* introduce, and a proposal that is accepted was measured under the       *)
(* present one.                                                            *)
(***************************************************************************)
EXTENDS LiveGeometry, SequenceTheorems, TLAPS

AssignmentRecord ==
    [position : Positions, generation : Nat, geometry : Geometry \cup {None},
     roi : Areas \cup {None}]

\* No worker has an assignment of a generation still to come.
NoneAhead ==
    \A w \in Workers : \A i \in DOMAIN assignments[w] :
        assignments[w][i].generation <= tracker.generation

\* The tracker counts no failure that is not among the recent ones.
StreakIsRecent == tracker.streak <= Len(recent)

IInv ==
    /\ TypeOK
    /\ GeometryIsFresh
    /\ GenerationNamesGeometry
    /\ NoneAhead
    /\ StreakIsRecent

\* What propose_update and record_failure do to geometry and generation: they
\* leave both alone, or move on to the next generation.
Renewed(t, t2) ==
    \/ t2.geometry = t.geometry /\ t2.generation = t.generation
    \/ t2.generation = t.generation + 1
-----------------------------------------------------------------------------
\* A proposal is accepted only under the present generation, and is then the
\* geometry of the next one.
LEMMA ProposeUpdateOK ==
  ASSUME NEW t \in Tracker, NEW p \in Positions, NEW good \in BOOLEAN, NEW used \in Nat
  PROVE  LET t2 == ProposeUpdate(t, Proposal(p, used + 1), good, used)
         IN  /\ t2 \in Tracker
             /\ t2.streak = t.streak
             /\ Renewed(t, t2)
             /\ t2.generation = t.generation =>
                    t2.geometry = t.geometry
             /\ t2.generation # t.generation =>
                    t2.geometry.proposed = t2.generation
                    /\ t2.geometry.generation = t2.generation
<1> DEFINE g == Proposal(p, used + 1)
           t2 == ProposeUpdate(t, g, good, used)
           g2 == [g EXCEPT !.generation = t.generation + 1]
<1>1. CASE ~good \/ used # t.generation
  <2>1. t2 = t
    BY <1>1 DEF ProposeUpdate
  <2> QED BY <2>1 DEF Renewed
<1>2. CASE good /\ used = t.generation
  <2>1. t.generation \in Nat /\ t.generation + 1 \in Nat
    BY DEF Tracker
  <2>2. g2 = [position |-> p, proposed |-> t.generation + 1, generation |-> t.generation + 1]
    BY <1>2 DEF Proposal
  <2>3. g2 \in Geometry
    BY <2>1, <2>2 DEF Geometry
  <2>4. t2 = [t EXCEPT !.generation = @ + 1, !.mode = "locked", !.geometry = g2]
    BY <1>2 DEF ProposeUpdate
  <2> HIDE DEF g, g2
  <2>5. t2 = [mode |-> "locked", geometry |-> g2, generation |-> t.generation + 1,
              streak |-> t.streak, roi |-> t.roi]
    BY <2>4 DEF Tracker
  <2>6. g2.proposed = t.generation + 1 /\ g2.generation = t.generation + 1
    BY <2>2
  <2> HIDE DEF t2
  <2>7. t2 \in Tracker
    BY <2>1, <2>3, <2>5 DEF Tracker
  <2>8. /\ t2.generation = t.generation + 1 /\ t2.streak = t.streak
        /\ t2.geometry = g2 /\ t2.generation # t.generation
    BY <2>1, <2>5
  <2> QED BY <2>6, <2>7, <2>8 DEF Renewed, t2, g
<1> QED BY <1>1, <1>2

\* A success ends the streak and moves the region; lock and geometry stay.
LEMMA RecordSuccessOK ==
  ASSUME NEW t \in Tracker, NEW p \in Positions
  PROVE  LET t2 == RecordSuccess(t, p)
         IN  /\ t2 \in Tracker /\ t2.streak = 0
             /\ t2.mode = t.mode /\ t2.geometry = t.geometry
             /\ t2.generation = t.generation
<1> DEFINE roi == UpdatedRoi(t.roi, p)
<1>1. roi \in Areas \cup {None}
  BY TrackerAssumption DEF UpdatedRoi, Tracker
<1>2. 0 \in 0 .. Threshold
  BY TrackerAssumption
<1>3. RecordSuccess(t, p) = [t EXCEPT !.streak = 0, !.roi = roi]
  BY DEF RecordSuccess
<1> HIDE DEF roi
<1>4. RecordSuccess(t, p) = [mode |-> t.mode, geometry |-> t.geometry,
        generation |-> t.generation, streak |-> 0, roi |-> roi]
  BY <1>3 DEF Tracker
<1> QED BY <1>1, <1>2, <1>4 DEF Tracker

\* A failure that does not cost the lock counts; one that does forgets the
\* geometry and moves on to the next generation.
LEMMA RecordFailureOK ==
  ASSUME NEW t \in Tracker
  PROVE  LET t2 == RecordFailure(t)
         IN  /\ t2 \in Tracker
             /\ t2.streak <= t.streak + 1
             /\ \/ t2.geometry = t.geometry /\ t2.generation = t.generation
                   /\ t2.mode = t.mode
                \/ t2.geometry = None /\ t2.generation = t.generation + 1
                   /\ t.streak + 1 >= Threshold
<1>1. /\ Threshold \in Nat /\ 0 \in 0 .. Threshold /\ t.streak \in 0 .. Threshold
      /\ t.generation \in Nat
  BY TrackerAssumption DEF Tracker
<1> DEFINE t2 == RecordFailure(t)
<1>2. CASE LosesLock(t)
  <2>1. t2 = [mode |-> "acquire", geometry |-> None, generation |-> t.generation + 1,
              streak |-> 0, roi |-> t.roi]
    BY <1>2 DEF RecordFailure, Tracker
  <2> HIDE DEF t2
  <2>2. t2 \in Tracker
    BY <1>1, <2>1 DEF Tracker
  <2>3. t.streak + 1 >= Threshold
    BY <1>2 DEF LosesLock
  <2> QED BY <1>1, <2>1, <2>2, <2>3 DEF t2
<1>3. CASE ~LosesLock(t)
  <2> DEFINE n == IF t.streak < Threshold THEN t.streak + 1 ELSE t.streak
  <2>1. n \in 0 .. Threshold /\ n <= t.streak + 1
    BY <1>1
  <2>2. t2 = [mode |-> t.mode, geometry |-> t.geometry, generation |-> t.generation,
              streak |-> n, roi |-> t.roi]
    BY <1>3 DEF RecordFailure, Tracker
  <2> HIDE DEF t2, n
  <2>3. t2 \in Tracker
    BY <2>1, <2>2 DEF Tracker
  <2> QED BY <2>1, <2>2, <2>3 DEF t2
<1> QED BY <1>2, <1>3
-----------------------------------------------------------------------------
\* An answered assignment leaves the worker's queue; the others stay.
LEMMA AnsweredOK ==
  ASSUME IInv, NEW w \in Workers, Answered(w)
  PROVE  /\ Head(assignments[w]) \in AssignmentRecord
         /\ Head(assignments[w]).generation <= tracker.generation
         /\ assignments' \in [Workers -> Seq(AssignmentRecord)]
         /\ \A v \in Workers : Len(assignments'[v]) <= QueueLength
         /\ \A v \in Workers : \A i \in DOMAIN assignments'[v] :
              \E j \in DOMAIN assignments[v] : assignments'[v][i] = assignments[v][j]
<1> DEFINE q == assignments[w]
<1>1. /\ assignments \in [Workers -> Seq(AssignmentRecord)]
      /\ \A v \in Workers : Len(assignments[v]) <= QueueLength
      /\ QueueLength \in Nat
  BY BoundsAssumption DEF IInv, TypeOK, AssignmentRecord
<1>2. q \in Seq(AssignmentRecord) /\ q # << >>
  BY <1>1 DEF Answered
<1>3. /\ Head(q) \in AssignmentRecord /\ Head(q) = q[1]
      /\ Tail(q) \in Seq(AssignmentRecord)
      /\ Len(q) \in Nat /\ Len(q) >= 1 /\ Len(Tail(q)) = Len(q) - 1
      /\ \A i \in 1 .. Len(Tail(q)) : Tail(q)[i] = q[i + 1]
  BY <1>2, HeadTailProperties
<1>4. DOMAIN q = 1 .. Len(q) /\ DOMAIN Tail(q) = 1 .. Len(Tail(q))
  BY <1>2, <1>3
<1>5. q[1].generation <= tracker.generation
  BY <1>3, <1>4 DEF IInv, NoneAhead
<1>6. assignments' = [assignments EXCEPT ![w] = Tail(q)]
  BY DEF Answered
<1>7. assignments' \in [Workers -> Seq(AssignmentRecord)]
  BY <1>1, <1>3, <1>6
<1>8. assignments'[w] = Tail(q) /\ \A v \in Workers : v # w => assignments'[v] = assignments[v]
  BY <1>1, <1>6
<1>9. ASSUME NEW v \in Workers
      PROVE  /\ Len(assignments'[v]) <= QueueLength
             /\ \A i \in DOMAIN assignments'[v] :
                  \E j \in DOMAIN assignments[v] : assignments'[v][i] = assignments[v][j]
  <2>1. CASE v = w
    <3>1. Len(Tail(q)) <= QueueLength
      BY <1>1, <1>3
    <3>2. ASSUME NEW i \in DOMAIN Tail(q)
          PROVE  \E j \in DOMAIN q : Tail(q)[i] = q[j]
      <4>1. i \in 1 .. Len(q) - 1
        BY <1>3, <1>4
      <4>2. i + 1 \in DOMAIN q /\ Tail(q)[i] = q[i + 1]
        BY <1>3, <1>4, <4>1
      <4> QED BY <4>2
    <3>3. assignments[v] = q /\ assignments'[v] = Tail(q)
      BY <1>8, <2>1
    <3> QED BY <3>1, <3>2, <3>3
  <2>2. CASE v # w
    BY <1>1, <1>8, <2>2
  <2> QED BY <2>1, <2>2
<1> QED BY <1>3, <1>5, <1>7, <1>9

\* Once an assignment is answered, the generations hold if the tracker kept
\* its geometry or moved on to the next generation.
LEMMA GenerationsOK ==
  ASSUME IInv, tracker' \in Tracker, Renewed(tracker, tracker'),
         \A v \in Workers : \A i \in DOMAIN assignments'[v] :
           \E j \in DOMAIN assignments[v] : assignments'[v][i] = assignments[v][j]
  PROVE  GenerationNamesGeometry' /\ NoneAhead'
<1> DEFINE g == tracker.generation
           g2 == tracker'.generation
<1>1. g \in Nat /\ g2 \in Nat
  BY DEF IInv, TypeOK, Tracker
<1>2. ASSUME NEW v \in Workers, NEW i \in DOMAIN assignments'[v]
      PROVE  /\ assignments'[v][i].generation <= g2
             /\ assignments'[v][i].generation = g2
                  => assignments'[v][i].geometry = tracker'.geometry
  <2>1. PICK j \in DOMAIN assignments[v] : assignments'[v][i] = assignments[v][j]
    BY <1>2
  <2> DEFINE a == assignments[v][j]
  <2>2. a.generation <= g /\ (a.generation = g => a.geometry = tracker.geometry)
    BY DEF IInv, NoneAhead, GenerationNamesGeometry
  <2>3. a.generation \in Nat
    <3>1. assignments[v] \in Seq(AssignmentRecord)
      BY DEF IInv, TypeOK, AssignmentRecord
    <3>2. a \in AssignmentRecord
      BY <3>1, ElementOfSeq
    <3> QED BY <3>2 DEF AssignmentRecord
  <2> HIDE DEF a
  <2>4. CASE tracker'.geometry = tracker.geometry /\ g2 = g
    BY <2>1, <2>2, <2>4 DEF a
  <2>5. CASE g2 = g + 1
    <3>1. a.generation <= g2 /\ a.generation # g2
      BY <1>1, <2>2, <2>3, <2>5
    <3> QED BY <2>1, <3>1 DEF a
  <2> QED BY <2>4, <2>5 DEF Renewed
<1> QED BY <1>2 DEF GenerationNamesGeometry, NoneAhead
-----------------------------------------------------------------------------
\* The live pipeline starts without lock, assignment or failure.
LEMMA InitOK == ASSUME Init PROVE IInv
<1>1. InitialTracker \in Tracker
  BY TrackerAssumption DEF InitialTracker, Tracker
<1>2. assignments \in [Workers -> Seq(AssignmentRecord)]
      /\ \A w \in Workers : assignments[w] = << >>
  BY DEF Init
<1>3. TypeOK
  BY <1>1, <1>2, TrackerAssumption, BoundsAssumption DEF Init, TypeOK, AssignmentRecord
<1> QED BY <1>2, <1>3 DEF Init, IInv, InitialTracker, GeometryIsFresh,
           GenerationNamesGeometry, NoneAhead, StreakIsRecent

\* A new assignment carries the tracker's generation and geometry.
LEMMA AssignOK == ASSUME IInv, NEW w \in Workers, Assign(w) PROVE IInv'
<1> DEFINE a == Assignment(captured)
           q == assignments[w]
<1>1. /\ captured \in Positions /\ tracker \in Tracker /\ QueueLength \in Nat
      /\ assignments \in [Workers -> Seq(AssignmentRecord)]
      /\ \A v \in Workers : Len(assignments[v]) <= QueueLength
  BY BoundsAssumption DEF IInv, TypeOK, AssignmentRecord, Assign
<1>2. a \in AssignmentRecord /\ a.generation = tracker.generation /\ a.geometry = tracker.geometry
  BY <1>1 DEF Assignment, AssignmentRecord, Tracker
<1>3. assignments' = [assignments EXCEPT ![w] = Append(q, a)] /\ Len(q) < QueueLength
  BY DEF Assign
<1> HIDE DEF a
<1>4. /\ Append(q, a) \in Seq(AssignmentRecord)
      /\ Len(q) \in Nat /\ Len(Append(q, a)) = Len(q) + 1
      /\ \A i \in 1 .. Len(q) : Append(q, a)[i] = q[i]
      /\ Append(q, a)[Len(q) + 1] = a
      /\ DOMAIN q = 1 .. Len(q) /\ DOMAIN Append(q, a) = 1 .. Len(q) + 1
  BY <1>1, <1>2, AppendProperties
<1>5. assignments' \in [Workers -> Seq(AssignmentRecord)]
  BY <1>1, <1>3, <1>4
<1>6. assignments'[w] = Append(q, a) /\ \A v \in Workers : v # w => assignments'[v] = assignments[v]
  BY <1>1, <1>3
<1>7. \A v \in Workers : Len(assignments'[v]) <= QueueLength
  <2>1. Len(Append(q, a)) <= QueueLength
    BY <1>1, <1>3, <1>4
  <2> QED BY <1>1, <1>6, <2>1
<1>8. /\ position' = position /\ moves' = moves /\ noise' = noise /\ captured' = None
      /\ tracker' = tracker /\ recent' = recent
  BY DEF Assign
<1>9. TypeOK'
  BY <1>5, <1>7, <1>8 DEF IInv, TypeOK, AssignmentRecord
<1>10. tracker.generation \in Nat
  BY <1>1 DEF Tracker
<1>11. ASSUME NEW v \in Workers, NEW i \in DOMAIN assignments'[v]
       PROVE  /\ assignments'[v][i].generation <= tracker.generation
              /\ assignments'[v][i].generation = tracker.generation
                   => assignments'[v][i].geometry = tracker.geometry
  <2>1. CASE v # w
    BY <1>6, <1>11, <2>1 DEF IInv, NoneAhead, GenerationNamesGeometry
  <2>2. CASE v = w /\ i \in DOMAIN q
    <3>1. assignments'[v][i] = q[i]
      BY <1>4, <1>6, <2>2
    <3> QED BY <2>2, <3>1 DEF IInv, NoneAhead, GenerationNamesGeometry
  <2>3. CASE v = w /\ i = Len(q) + 1
    BY <1>2, <1>4, <1>6, <1>10, <2>3
  <2> QED BY <1>4, <1>6, <1>11, <2>1, <2>2, <2>3
<1>12. GeometryIsFresh' /\ StreakIsRecent'
  BY <1>8 DEF IInv, GeometryIsFresh, StreakIsRecent
<1> QED BY <1>8, <1>9, <1>11, <1>12 DEF IInv, NoneAhead, GenerationNamesGeometry

\* A success: the proposal is accepted or not, the streak is over.
LEMMA SucceedOK ==
  ASSUME IInv, NEW w \in Workers, NEW good \in BOOLEAN, Succeed(w, good)
  PROVE  IInv' /\ (tracker.mode = "locked" => tracker'.mode = "locked")
<1> DEFINE a == Head(assignments[w])
           proposal == Proposal(a.position, a.generation + 1)
           t == IF tracker.mode = "locked" THEN tracker
                ELSE ProposeUpdate(tracker, proposal, good, a.generation)
<1>1. /\ a \in AssignmentRecord
      /\ assignments' \in [Workers -> Seq(AssignmentRecord)]
      /\ \A v \in Workers : Len(assignments'[v]) <= QueueLength
      /\ \A v \in Workers : \A i \in DOMAIN assignments'[v] :
           \E j \in DOMAIN assignments[v] : assignments'[v][i] = assignments[v][j]
  BY AnsweredOK DEF Succeed
<1>2. a.position \in Positions /\ a.generation \in Nat /\ tracker \in Tracker
  BY <1>1 DEF AssignmentRecord, IInv, TypeOK
<1>3. /\ tracker' = RecordSuccess(t, a.position) /\ recent' = << >>
      /\ position' = position /\ moves' = moves /\ captured' = captured
      /\ noise' = noise \/ (noise < MaxNoise /\ noise' = noise + 1)
  BY DEF Succeed, Answered
<1> HIDE DEF a
<1>4. /\ t \in Tracker /\ Renewed(tracker, t)
      /\ t.generation = tracker.generation => t.geometry = tracker.geometry
      /\ t.generation # tracker.generation =>
           t.geometry.proposed = t.generation /\ t.geometry.generation = t.generation
      /\ tracker.mode = "locked" => t.mode = "locked"
  <2>1. CASE tracker.mode = "locked"
    <3>1. t = tracker
      BY <2>1
    <3> QED BY <1>2, <2>1, <3>1 DEF Renewed
  <2>2. CASE tracker.mode # "locked"
    <3>1. t = ProposeUpdate(tracker, proposal, good, a.generation)
      BY <2>2
    <3> QED BY <1>2, <2>2, <3>1, ProposeUpdateOK
  <2> QED BY <2>1, <2>2
<1> HIDE DEF t
<1>5. /\ tracker' \in Tracker /\ tracker'.streak = 0 /\ tracker'.mode = t.mode
      /\ tracker'.geometry = t.geometry /\ tracker'.generation = t.generation
  BY <1>2, <1>3, <1>4, RecordSuccessOK
<1>6. Renewed(tracker, tracker')
  BY <1>4, <1>5 DEF Renewed
<1>7. GenerationNamesGeometry' /\ NoneAhead'
  BY <1>1, <1>5, <1>6, GenerationsOK
<1>8. GeometryIsFresh'
  BY <1>4, <1>5 DEF IInv, GeometryIsFresh
<1>9. noise' \in 0 .. MaxNoise
  BY <1>3, BoundsAssumption DEF IInv, TypeOK
<1>10. recent' \in Seq({"geometry_reuse", "reacquire_locator"}) /\ Len(recent') = 0
        /\ Len(recent') <= Threshold
  BY <1>3, TrackerAssumption
<1>11. TypeOK'
  BY <1>1, <1>3, <1>5, <1>9, <1>10 DEF IInv, TypeOK, AssignmentRecord
<1>12. StreakIsRecent'
  BY <1>5, <1>10 DEF StreakIsRecent
<1> QED BY <1>4, <1>5, <1>7, <1>8, <1>11, <1>12 DEF IInv

\* A failure is counted and remembered; it costs the lock only when those
\* remembered are as many as the threshold.
LEMMA FailOK ==
  ASSUME IInv, NEW w \in Workers, Fail(w)
  PROVE  IInv' /\ (LockLost => Len(recent') = Threshold)
<1> DEFINE Mode == {"geometry_reuse", "reacquire_locator"}
           m == DecodeMode(Head(assignments[w]))
           latest == Append(recent, m)
<1>1. /\ assignments' \in [Workers -> Seq(AssignmentRecord)]
      /\ \A v \in Workers : Len(assignments'[v]) <= QueueLength
      /\ \A v \in Workers : \A i \in DOMAIN assignments'[v] :
           \E j \in DOMAIN assignments[v] : assignments'[v][i] = assignments[v][j]
  BY AnsweredOK DEF Fail
<1>2. /\ tracker \in Tracker /\ recent \in Seq(Mode) /\ Len(recent) <= Threshold
      /\ tracker.streak <= Len(recent) /\ tracker.streak \in Nat /\ Len(recent) \in Nat
      /\ Threshold \in Nat \ {0}
  BY TrackerAssumption DEF IInv, TypeOK, StreakIsRecent, Tracker
<1>3. m \in Mode
  BY DEF DecodeMode
<1>4. /\ tracker' = RecordFailure(tracker)
      /\ recent' = IF Len(latest) > Threshold THEN Tail(latest) ELSE latest
      /\ position' = position /\ moves' = moves /\ captured' = captured
      /\ noise' = noise \/ (noise < MaxNoise /\ noise' = noise + 1)
  BY DEF Fail, Answered
<1> HIDE DEF m
<1>5. latest \in Seq(Mode) /\ Len(latest) = Len(recent) + 1 /\ latest # << >>
  BY <1>2, <1>3, AppendProperties
<1>6. Tail(latest) \in Seq(Mode) /\ Len(Tail(latest)) = Len(latest) - 1
  BY <1>5, HeadTailProperties
<1> HIDE DEF latest
<1>7. /\ recent' \in Seq(Mode) /\ Len(recent') \in Nat
      /\ Len(recent') = IF Len(recent) = Threshold THEN Threshold ELSE Len(recent) + 1
  <2>1. CASE Len(latest) > Threshold
    BY <1>2, <1>4, <1>5, <1>6, <2>1
  <2>2. CASE ~(Len(latest) > Threshold)
    BY <1>2, <1>4, <1>5, <2>2
  <2> QED BY <2>1, <2>2
<1> DEFINE t2 == RecordFailure(tracker)
<1>8. /\ t2 \in Tracker /\ t2.streak <= tracker.streak + 1
      /\ \/ t2.geometry = tracker.geometry /\ t2.generation = tracker.generation
            /\ t2.mode = tracker.mode
         \/ t2.geometry = None /\ t2.generation = tracker.generation + 1
            /\ tracker.streak + 1 >= Threshold
  BY <1>2, RecordFailureOK
<1> HIDE DEF t2
<1>9. tracker' = t2
  BY <1>4 DEF t2
<1>10. Renewed(tracker, tracker')
  BY <1>8, <1>9 DEF Renewed
<1>11. GenerationNamesGeometry' /\ NoneAhead'
  BY <1>1, <1>8, <1>9, <1>10, GenerationsOK
<1>12. GeometryIsFresh'
  BY <1>8, <1>9 DEF IInv, GeometryIsFresh
<1>13. noise' \in 0 .. MaxNoise
  BY <1>4, BoundsAssumption DEF IInv, TypeOK
<1>14. t2.streak \in 0 .. Threshold /\ Len(recent') <= Threshold
  BY <1>2, <1>7, <1>8 DEF Tracker
<1>15. TypeOK'
  BY <1>1, <1>4, <1>7, <1>8, <1>9, <1>13, <1>14 DEF IInv, TypeOK, AssignmentRecord
<1>16. StreakIsRecent'
  BY <1>2, <1>7, <1>8, <1>9, <1>14 DEF StreakIsRecent
<1>17. ASSUME LockLost PROVE Len(recent') = Threshold
  <2>1. tracker.streak + 1 >= Threshold
    BY <1>8, <1>9, <1>17 DEF LockLost
  <2> QED BY <1>2, <1>7, <2>1
<1> QED BY <1>11, <1>12, <1>15, <1>16, <1>17 DEF IInv

\* The symbol moving, or being captured, concerns neither tracker nor workers.
LEMMA OutsideOK ==
  ASSUME IInv, (\E p \in Positions : Move(p)) \/ Capture
  PROVE  IInv'
<1>1. /\ assignments' = assignments /\ tracker' = tracker /\ recent' = recent
      /\ noise' = noise /\ moves' \in 0 .. MaxMoves /\ position' \in Positions
      /\ captured' \in Positions \cup {None}
  BY BoundsAssumption DEF IInv, TypeOK, Move, Capture
<1> QED BY <1>1 DEF IInv, TypeOK, GeometryIsFresh, GenerationNamesGeometry,
           NoneAhead, StreakIsRecent

\* Every step preserves the invariant, and loses the lock only after
\* Threshold failures in a row.
LEMMA NextOK ==
  ASSUME IInv, [Next]_vars
  PROVE  IInv' /\ (LockLost => Len(recent') = Threshold)
<1>1. CASE (\E p \in Positions : Move(p)) \/ Capture
  <2>1. tracker' = tracker
    BY <1>1 DEF Move, Capture
  <2> QED BY <1>1, <2>1, OutsideOK DEF LockLost
<1>2. ASSUME NEW w \in Workers, Assign(w)
      PROVE  IInv' /\ (LockLost => Len(recent') = Threshold)
  BY <1>2, AssignOK DEF LockLost, Assign
<1>3. ASSUME NEW w \in Workers, NEW good \in BOOLEAN, Succeed(w, good)
      PROVE  IInv' /\ (LockLost => Len(recent') = Threshold)
  BY <1>3, SucceedOK DEF LockLost
<1>4. ASSUME NEW w \in Workers, Fail(w)
      PROVE  IInv' /\ (LockLost => Len(recent') = Threshold)
  BY <1>4, FailOK
<1>5. CASE vars' = vars
  BY <1>5 DEF vars, IInv, TypeOK, GeometryIsFresh, GenerationNamesGeometry,
              NoneAhead, StreakIsRecent, LockLost
<1> QED BY <1>1, <1>2, <1>3, <1>4, <1>5 DEF Next

\* The invariant holds throughout every behaviour.
LEMMA Inductive == Spec => []IInv
<1>1. Init => IInv
  BY InitOK
<1>2. IInv /\ [Next]_vars => IInv'
  BY NextOK
<1> QED BY <1>1, <1>2, PTL DEF Spec
-----------------------------------------------------------------------------
\* Tracker, assignments and history keep their types, and no worker is given
\* more than its queue takes.
THEOREM TypeCorrect == Spec => []TypeOK
<1>1. IInv => TypeOK
  BY DEF IInv
<1> QED BY <1>1, Inductive, PTL

\* For every number of workers and every delay of their answers, the locked
\* geometry was measured on a frame handed out after the last loss of the lock.
THEOREM GeometryStaysFresh == Spec => []GeometryIsFresh
<1>1. IInv => GeometryIsFresh
  BY DEF IInv
<1> QED BY <1>1, Inductive, PTL

\* All assignments of one generation carry one geometry, so the generation a
\* worker reports back identifies what it used.
THEOREM GenerationsNameGeometries == Spec => []GenerationNamesGeometry
<1>1. IInv => GenerationNamesGeometry
  BY DEF IInv
<1> QED BY <1>1, Inductive, PTL

\* For every threshold, the lock survives fewer failures in a row than that.
THEOREM FailuresKeepLock == Spec => OccasionalFailuresKeepLock
<1>1. IInv /\ [Next]_vars => [LockLost => Len(recent') = Threshold]_vars
  BY NextOK
<1> QED BY <1>1, Inductive, PTL DEF Spec, OccasionalFailuresKeepLock
=============================================================================
