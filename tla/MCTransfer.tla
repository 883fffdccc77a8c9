----------------------------- MODULE MCTransfer -----------------------------
(* Transfers small enough for TLC: payloads of three chunks.                 *)
EXTENDS Transfer

Chunk(value) == [size |-> 2, value |-> value]
Short(value) == [size |-> 1, value |-> value]

Plan(payload, window, redundancy, degree) ==
    [payload |-> payload, window |-> window, redundancy |-> redundancy, degree |-> degree]

Setup(plan, joins, lanes, controlKept) ==
    [plans |-> <<plan>>, joins |-> joins, lanes |-> lanes, controlKept |-> controlKept]

Three == <<Chunk(1), Chunk(2), Chunk(3)>>
ThreeShort == <<Chunk(1), Chunk(2), Short(3)>>

\* A payload in two generations, and a receiver that joins midway.
JoiningSetups == {Setup(Plan(ThreeShort, 2, 1, 2), 1..7, 1, TRUE)}

RecoveringSetups == {Setup(Plan(Three, 3, 3, 2), {1}, 1, TRUE)}
=============================================================================
