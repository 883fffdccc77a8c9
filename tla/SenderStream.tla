---------------------------- MODULE SenderStream ----------------------------
(***************************************************************************)
(* What the sender shows during one epoch: build_frame_stream of           *)
(* sender/application/frame_stream.py with the generation planner, the     *)
(* coded builder and the unit scheduler it calls.  A plan is what the      *)
(* command line and the input decide: the payload's chunks, the generation *)
(* size, and the redundancy and degree of the coded units (redundancy 0:   *)
(* coded emission disabled).                                               *)
(*                                                                         *)
(* A data frame carries only what result_mapping.py finds on the wire: a   *)
(* systematic unit its local index, a coded unit its equation, neither its *)
(* generation (chunk, the global chunk id, is in the sender's description  *)
(* of the frame and not on the wire).  The burst repetitions of a control  *)
(* frame and the realizations of a data frame are one frame here, which    *)
(* the receiver may capture any number of times.  Session and layout       *)
(* control frames and sync frames carry nothing that recovery reads.       *)
(***************************************************************************)
EXTENDS GenerationSolver

PayloadChunk == [size : Nat \ {0}, value : Elements]

\* The archive is never empty; coded units are refused without a positive degree.
Plans ==
    {plan \in [payload : Seq(PayloadChunk), window : 1..MaxSize, redundancy : Nat, degree : Nat] :
        plan.payload # <<>> /\ (plan.redundancy > 0 => plan.degree > 0)}

OneGeneration(plan) == Len(plan.payload) <= plan.window

\* build_systematic_generation_plans: consecutive, non-overlapping windows.
GenerationPlans(plan) ==
    LET total == Len(plan.payload)
        count == (total + plan.window - 1) \div plan.window
        Planned(g) ==
            LET start == (g - 1) * plan.window
                chunks == SubSeq(plan.payload, start + 1, Min({start + plan.window, total}))
            IN  [id |-> g - 1, size |-> Len(chunks), base |-> start + 1, chunks |-> chunks]
    IN  [g \in 1..count |-> Planned(g)]

\* Generations whose chunks differ in size (the last one's may) get no equations.
SupportsCodedUnits(generation) == Cardinality({c.size : c \in Range(generation.chunks)}) = 1

CodedUnitCount(plan, generation) ==
    IF plan.redundancy > 0 /\ SupportsCodedUnits(generation) THEN plan.redundancy ELSE 0

GenerationControl(plan, generation) ==
    [kind |-> "generation", id |-> generation.id, size |-> generation.size,
     base |-> generation.base, coded |-> CodedUnitCount(plan, generation) > 0]

SystematicUnits(generation) ==
    [i \in 1..generation.size |->
        [kind |-> "systematic", index |-> i, payload |-> generation.chunks[i],
         chunk |-> generation.base + i - 1]]

\* The linear combination of the generation's chunks that the seed selects.
CodedPayload(generation, seed, degree) ==
    LET terms == Terms(generation.size, seed, degree)
    IN  [size |-> generation.chunks[1].size,
         value |-> Combined(0, terms, {i \in Sources : terms[i] # 0}, generation.chunks)]

CodedUnits(plan, generation) ==
    LET degree == Min({plan.degree, generation.size})
    IN  [e \in 1..CodedUnitCount(plan, generation) |->
            [kind |-> "coded", equation |-> e - 1, seed |-> e - 1, degree |-> degree,
             payload |-> CodedPayload(generation, e - 1, degree)]]

Manifest(plan) == [kind |-> "manifest", total |-> Len(plan.payload), digest |-> plan.payload]

GenerationFrames(plan, generation) ==
    <<GenerationControl(plan, generation)>> \o SystematicUnits(generation)
        \o CodedUnits(plan, generation)

\* The manifest; each generation's control frame, then its units; the end frame.
Epoch(plan) ==
    LET plans == GenerationPlans(plan)
    IN  Repeated(LAMBDA shown, n : shown \o GenerationFrames(plan, plans[n]),
                 <<Manifest(plan)>>, Len(plans)) \o <<[kind |-> "end"]>>

IsGenerationControl(frame) == frame.kind = "generation"

IsUnit(frame) == frame.kind \in {"systematic", "coded"}

\* The order in which a replay reads a dumped epoch: frame_name_for_item names
\* the files, FrameReplaySource sorts them.  Units without realizations have a
\* name the sort knows, epoch_E_frame_I; all others follow, by the alphabet:
\* bootstrap, end, frame_I_rXXofYY, generation.
DumpOrder(plan, realizations) ==
    LET Of(kinds) == SelectSeq(Epoch(plan), LAMBDA frame : frame.kind \in kinds)
        units == Of({"systematic", "coded"})
    IN  (IF realizations > 1 THEN <<>> ELSE units) \o Of({"manifest"}) \o Of({"end"})
            \o (IF realizations > 1 THEN units ELSE <<>>) \o Of({"generation"})
=============================================================================
