----------------------------- MODULE MCSession -----------------------------
(* Sessions small enough for TLC: payloads of three or four chunks from the  *)
(* screen, recordings of up to five frames.                                  *)
EXTENDS Session

Chunk(value) == [size |-> 2, value |-> value]
Short(value) == [size |-> 1, value |-> value]

Plan(payload, window, redundancy, degree) ==
    [payload |-> payload, window |-> window, redundancy |-> redundancy, degree |-> degree]

FromScreen(plans, joins, lanes, controlKept) ==
    [source |-> "screen", plans |-> plans, joins |-> joins, lanes |-> lanes,
     controlKept |-> controlKept, recorded |-> <<>>, parallel |-> FALSE, interrupted |-> FALSE]

FromFrames(plans, recorded, pool, interrupted) ==
    [source |-> "replay", plans |-> plans, joins |-> {1}, lanes |-> 1, controlKept |-> FALSE,
     recorded |-> recorded, parallel |-> pool, interrupted |-> interrupted]

Three == <<Chunk(1), Chunk(2), Chunk(3)>>
ThreeShort == <<Chunk(1), Chunk(2), Short(3)>>
Four == <<Chunk(1), Chunk(2), Chunk(3), Chunk(1)>>

\* One generation, joined anywhere, decoded out of order, any frame lost;
\* several, joined at the start, decoded in order, no control burst lost.
OrderlySetups ==
    {FromScreen(<<Plan(Three, 3, 2, 2)>>, 1..8, 2, FALSE),
     FromScreen(<<Plan(Three, 3, 2, 3)>>, {1}, 1, FALSE),
     FromScreen(<<Plan(ThreeShort, 3, 2, 2)>>, 1..6, 1, FALSE),
     FromScreen(<<Plan(ThreeShort, 2, 1, 2)>>, {1}, 1, TRUE),
     FromScreen(<<Plan(Four, 2, 2, 2)>>, {1}, 1, TRUE)}

\* Two builds whose first chunk differs, and two generations joined midway.
Builds == <<Plan(<<Chunk(1), Chunk(3)>>, 2, 0, 0), Plan(<<Chunk(2), Chunk(3)>>, 2, 0, 0)>>

DisorderlySetups ==
    {FromScreen(Builds, {1}, 2, FALSE),
     FromScreen(<<Plan(ThreeShort, 2, 0, 0)>>, 1..7, 1, FALSE)}

Legible(frame) == [legible |-> "yes", frame |-> frame]
Illegible == [legible |-> "no", frame |-> None]
Unloadable == [legible |-> "unloadable", frame |-> None]

Dumped(plan, realizations) ==
    LET order == DumpOrder(plan, realizations) IN [i \in DOMAIN order |-> Legible(order[i])]

Whole == {Dumped(Builds[1], realizations) : realizations \in {1, 2}}

\* Recordings as they come: frames of both builds, illegible and broken files.
Assorted ==
    LET manifest == Legible(Epoch(Builds[1])[1])
        old == Legible(Epoch(Builds[1])[3])
        new == Legible(Epoch(Builds[2])[3])
        second == Legible(Epoch(Builds[1])[4])
    IN  {<<new, manifest, Illegible, second>>, <<manifest, second, old, new>>,
         <<Illegible, manifest, Unloadable, old>>, <<old, second, Illegible>>}

\* A payload rebuilt with chunks of another size: its unit is refused once an
\* equation is held, and its repetition is not.
Rebuilt == <<Plan(Three, 3, 1, 2), Plan(<<Short(1), Short(2), Short(3)>>, 3, 0, 0)>>
Refusing ==
    LET before == Epoch(Rebuilt[1])
        unit == Legible(Epoch(Rebuilt[2])[3])
    IN  <<Legible(before[2]), Legible(before[6]), unit, unit>>

Replayed ==
    {FromFrames(Rebuilt, Refusing, pool, TRUE) : pool \in BOOLEAN}
    \cup {FromFrames(Builds, r, pool, TRUE) : r \in Assorted, pool \in BOOLEAN}
    \cup {FromFrames(<<Builds[1]>>, r, pool, FALSE) :
             r \in Whole, pool \in BOOLEAN}

AllSetups == OrderlySetups \cup DisorderlySetups \cup Replayed

AllItems == UNION {Range(r) : r \in Whole \cup Assorted \cup {Refusing}}
=============================================================================
