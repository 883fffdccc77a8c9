------------------------------ MODULE InOrder ------------------------------
(***************************************************************************)
(* What a replay promises, whatever it does in parallel: the assembler is  *)
(* given the recorded frames one at a time, in the order of the recording, *)
(* until it is complete or the replay stops.  That order matters, because  *)
(* a unit is taken for one of the generation whose control came last.      *)
(***************************************************************************)
EXTENDS Naturals, Sequences

CONSTANTS
    Given(_, _),  \* what a recorded frame makes of the assembler
    Done(_),      \* is the assembler complete?
    Unused        \* an assembler that was given nothing

VARIABLES
    recording,    \* the frames to replay, in order
    committed,    \* how many of them the assembler has been given
    asm           \* the assembler

vars == <<committed, asm>>

Init ==
    /\ committed = 0
    /\ asm = Unused

Commit ==
    /\ committed < Len(recording)
    /\ ~Done(asm)
    /\ committed' = committed + 1
    /\ asm' = Given(asm, recording[committed + 1])

Spec == Init /\ [][Commit]_vars
=============================================================================
