------------------------------ MODULE Receiver ------------------------------
(***************************************************************************)
(* The state every pipeline of the receiver works on: the assembler, the   *)
(* stop event, and whether an exception has ended the pipeline's work.     *)
(***************************************************************************)
EXTENDS Assembler

VARIABLES
    asm,       \* the assembler
    stop,      \* the stop event
    error      \* has the pipeline died of an exception?
=============================================================================
