------------------------------ MODULE Transfer ------------------------------
(***************************************************************************)
(* One transfer from end to end: a sender that shows its epoch over and    *)
(* over, a receiver that captures what it happens to see, decodes several  *)
(* frames at a time and gives the results to the assembler as they come,   *)
(* until the assembler reports the payload complete.                       *)
(*                                                                         *)
(* A frame shown may be captured any number of times or never: that covers *)
(* capture rate against frame rate, bursts and realizations, duplicate     *)
(* detection, dropped and undecodable frames.  Decoding is a set of lanes  *)
(* (the decode workers); a result overtakes those of slower lanes.         *)
(***************************************************************************)
EXTENDS SenderStream, Receiver

CONSTANT Setups
(* The transfers considered, records of                                    *)
(*   plans        the sender's plans (SenderStream), one for each time it  *)
(*                builds its stream; the last stands for all later ones.   *)
(*                With gzip they differ: the archive holds the time.       *)
(*   joins        the positions the receiver may find the sender at        *)
(*   lanes        frames decoded at a time; 1 keeps results in order       *)
(*   controlKept  whether of each burst of generation control one frame is *)
(*                captured (the purpose of control_burst_repeat)           *)

ASSUME SetupsAssumption ==
    \A s \in Setups :
        /\ s.plans \in Seq(Plans) /\ s.plans # <<>>
        /\ s.joins \subseteq DOMAIN Epoch(s.plans[1])
        /\ s.lanes \in Nat \ {0}

VARIABLES
    setup,       \* the transfer under way
    build,       \* how many times the sender has built its stream
    stream,      \* the frames of its epoch
    position,    \* of the frame the sender shows, in its epoch
    captured,    \* has it been captured since it is shown?
    flight       \* frames being decoded, in the order captured

transferVars == <<setup, build, stream, position, captured, flight>>

vars == <<transferVars, asm, error, stop>>

Sent == setup.plans[1].payload

Init ==
    /\ setup \in Setups
    /\ build = 1
    /\ stream = Epoch(setup.plans[1])
    /\ position \in setup.joins
    /\ captured = FALSE
    /\ flight = <<>>
    /\ asm = EmptyAssembler
    /\ error = FALSE
    /\ stop = FALSE

Receiving == ~error /\ ~stop

MustCapture == setup.controlKept /\ IsGenerationControl(stream[position])

\* _build_sender_stream: archive, compress, plan and schedule once more.  After the
\* last build of the setup the stream comes out the same.
Rebuild ==
    \/ build < Len(setup.plans) /\ build' = build + 1 /\ stream' = Epoch(setup.plans[build'])
    \/ UNCHANGED <<build, stream>>

\* render_sender_stream, not paused: the sender moves on.  After the end frame the
\* next epoch starts, or, when the epochs are used up, a stream built anew.  It
\* does not know when the receiver is done.
Show ==
    /\ (Receiving /\ MustCapture) => captured
    /\ IF position < Len(stream)
       THEN position' = position + 1 /\ UNCHANGED <<build, stream>>
       ELSE position' = 1 /\ Rebuild
    /\ captured' = FALSE
    /\ UNCHANGED <<setup, flight, asm, error, stop>>

\* The user presses R.  A bound of the model: while a further build is at hand.
Reset ==
    /\ build < Len(setup.plans)
    /\ Rebuild
    /\ position' = 1
    /\ captured' = FALSE
    /\ UNCHANGED <<setup, flight, asm, error, stop>>

Capture ==
    /\ Receiving
    /\ Len(flight) < setup.lanes
    /\ flight' = Append(flight, stream[position])
    /\ captured' = TRUE
    /\ UNCHANGED <<setup, build, stream, position, asm, error, stop>>

\* A decode result is assembled; completion is tested after every result that
\* does not raise.
Deliver(lane) ==
    /\ Receiving
    /\ flight' = RemoveAt(flight, lane)
    /\ asm' = Add(asm, flight[lane])
    /\ IF Raises(asm, flight[lane])
       THEN error' = TRUE /\ UNCHANGED stop
       ELSE stop' = Complete(asm') /\ UNCHANGED error
    /\ UNCHANGED <<setup, build, stream, position, captured>>

Next == Show \/ Reset \/ Capture \/ \E lane \in DOMAIN flight : Deliver(lane)

\* Does the frame shown hold something the assembler has not got?
NewsShown ==
    LET frame == stream[position]
    IN  \/ frame.kind = "manifest" /\ asm.total = None
        \/ frame.kind = "generation" /\ frame.id \notin DOMAIN asm.generations
        \/ frame.kind = "systematic" /\ frame.chunk \notin DOMAIN asm.chunks

\* Deliver and Capture, named by what they alone do to flight.
Delivered == Receiving /\ \E lane \in DOMAIN flight : flight' = RemoveAt(flight, lane)

NewsCaptured == NewsShown /\ flight' = Append(flight, stream[position])

\* The sender's timer and the receiver's threads run; and while news is shown
\* again and again to a receiver that runs, some of it is captured again and
\* again, which is less than that of every frame.
Fairness ==
    /\ WF_position(Show)
    /\ WF_flight(Delivered)
    /\ WF_flight(MustCapture /\ Capture)
    /\ []<>(Receiving /\ NewsShown) => []<><<NewsCaptured>>_flight

Spec == Init /\ [][Next]_vars /\ Fairness
-----------------------------------------------------------------------------
\* The source symbols of a generation, as the sender cut the payload.
TrueSymbol(generation, index) ==
    GenerationPlans(setup.plans[1])[generation + 1].chunks[index]

TypeOK ==
    /\ position \in 1..Len(stream)
    /\ Len(flight) <= setup.lanes
    /\ \A f \in Range(flight) : f \in Range(stream)
    /\ asm.received \in Nat /\ asm.total \in {None, Len(Sent)}
    /\ asm.active \in 0..Len(GenerationPlans(setup.plans[1])) - 1
    /\ \A c \in DOMAIN asm.chunks : asm.chunks[c] \in PayloadChunk
    /\ \A g \in DOMAIN asm.store :
          /\ asm.store[g].systematic \subseteq DOMAIN asm.store[g].known
          /\ asm.store[g].solvable \in BOOLEAN
          /\ asm.store[g].rank <= Cardinality(DOMAIN asm.store[g].equations)

\* Every chunk the assembler holds is the payload's chunk of that number: the
\* local index of a unit, the generation it is taken for and the recovery of
\* lost symbols together never put a payload in the wrong place (assembler.py,
\* _resolve_unit_locked, _global_chunk_id_for_unit_locked, and the solver).
ChunksAreRight ==
    \A c \in DOMAIN asm.chunks : c \in DOMAIN Sent /\ asm.chunks[c] = Sent[c]

\* When complete() holds, the payload can be put together from chunks 1 to
\* total and is the one sent: the count of chunks, not their ids, decides.
CompleteIsRestorable ==
    Complete(asm) => \A c \in DOMAIN Sent : c \in DOMAIN asm.chunks /\ asm.chunks[c] = Sent[c]

\* Whatever a generation's solver believes known is the symbol sent, for the
\* recovered ones that are not chunks yet too.
KnownSymbolsAreTrue ==
    \A g \in DOMAIN asm.store : \A i \in DOMAIN asm.store[g].known :
        asm.store[g].known[i] = TrueSymbol(g, i)

\* Recovery is complete: once the symbols received and the equations held
\* admit only one value of the generation's symbols, the solver has them all
\* (the elimination, back substitution and rebuilds of _solve).
Satisfies(x, state) ==
    /\ \A i \in DOMAIN state.known \cap DOMAIN x : x[i] = state.known[i].value
    /\ \A e \in DOMAIN state.equations :
          LET row == state.equations[e]
          IN  Combined(0, row.coefficients, Support(row),
                       [i \in DOMAIN x |-> [value |-> x[i]]]) = row.rhs

DeterminedIsSolved ==
    \A g \in DOMAIN asm.generations :
        LET state == asm.store[g]
        IN  Cardinality({x \in [1..state.size -> Elements] : Satisfies(x, state)}) = 1
              => 1..state.size \subseteq DOMAIN state.known

\* What is recovered is materialized: once the solver knows all symbols of a
\* generation the assembler holds all its chunks (delivery_handoff: "the
\* assembler materializes the recovered symbols as global chunks").
SolvedIsMaterialized ==
    \A g \in DOMAIN asm.generations :
        1..asm.store[g].size \subseteq DOMAIN asm.store[g].known =>
            \A i \in 1..asm.generations[g].size :
                asm.generations[g].base + i - 1 \in DOMAIN asm.chunks
=============================================================================
