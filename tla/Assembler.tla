----------------------------- MODULE Assembler -----------------------------
(***************************************************************************)
(* receiver/information/assembler.py with the unit acceptor, the           *)
(* generation store and the information decoder it drives: how the results *)
(* of decoding, in the order they arrive, become chunks of the payload.    *)
(* The assembler's fields are one record:                                  *)
(*   chunks       payloads by global chunk id                              *)
(*   received     _received_count                                          *)
(*   total        the manifest's total_chunks, None before the manifest    *)
(*   digest       its payload_sha256; the payload hashed stands for it     *)
(*   generations  the control information by generation id                 *)
(*   active       _active_generation_id                                    *)
(*   store        the GenerationStore, states by generation id             *)
(***************************************************************************)
EXTENDS GenerationSolver

CONSTANT None

ASSUME NoneAssumption == None \notin Nat

EmptyAssembler ==
    [chunks |-> <<>>, received |-> 0, total |-> None, digest |-> None,
     generations |-> <<>>, active |-> 0, store |-> <<>>]

--------------------------------------------------------------------------
(* GenerationStore *)

\* An unknown generation is created; a size fills in for a missing one.
GetOrCreate(store, id, size) ==
    IF id \notin DOMAIN store THEN With(store, id, EmptyState(size))
    ELSE IF size > 0 /\ store[id].size = 0 THEN [store EXCEPT ![id].size = size]
    ELSE store

UpdateGenerationSize(store, id, size) ==
    [GetOrCreate(store, id, size) EXCEPT ![id].size = IF size > 0 THEN size ELSE @]

--------------------------------------------------------------------------
(* Control frames *)

AddManifest(asm, frame) ==
    IF asm.total # None THEN asm
    ELSE [asm EXCEPT !.total = frame.total,
                     !.digest = frame.digest,
                     !.store = IF DOMAIN asm.generations = {}
                               THEN UpdateGenerationSize(@, 0, frame.total) ELSE @]

\* The generation last heard of becomes the active one.
AddGeneration(asm, frame) ==
    [asm EXCEPT !.generations = With(@, frame.id, frame),
                !.active = frame.id,
                !.store = UpdateGenerationSize(@, frame.id, frame.size)]

--------------------------------------------------------------------------
(* Units.  A unit comes off the wire without a generation, and is taken    *)
(* for one of the active generation, or of generation 0 before any control *)

HasActive(asm) == asm.active \in DOMAIN asm.generations

ResolvedGeneration(asm) == IF HasActive(asm) THEN asm.active ELSE 0

ResolvedSize(asm) == IF HasActive(asm) THEN asm.generations[asm.active].size ELSE 0

DefaultGenerationSize(asm) == IF asm.total # None THEN asm.total ELSE ResolvedSize(asm)

AcceptsCoded(asm) == HasActive(asm) /\ asm.generations[asm.active].coded

\* A defect: the base counts from zero.
GlobalChunkIdShifted(asm, index) ==
    IF HasActive(asm) THEN asm.generations[asm.active].base + index ELSE index

GlobalChunkId(asm, index) ==
    IF HasActive(asm) THEN asm.generations[asm.active].base + index - 1 ELSE index

\* The store once the acceptor has looked the unit's generation up.
StoreFor(asm) ==
    GetOrCreate(asm.store, ResolvedGeneration(asm),
                IF HasActive(asm) THEN ResolvedSize(asm) ELSE DefaultGenerationSize(asm))

StateFor(asm) == StoreFor(asm)[ResolvedGeneration(asm)]

WithState(asm, state) ==
    [asm EXCEPT !.store = [StoreFor(asm) EXCEPT ![ResolvedGeneration(asm)] = state]]

\* A defect: a repeated chunk is counted again.
StoreChunkCountingAll(asm, index, payload) ==
    LET id == GlobalChunkId(asm, index)
    IN  [asm EXCEPT !.chunks = IF id \in DOMAIN @ THEN @ ELSE With(@, id, payload),
                    !.received = @ + 1]

\* The first payload stored under a chunk id stays; each id is counted once.
StoreChunk(asm, index, payload) ==
    LET id == GlobalChunkId(asm, index)
    IN  IF id \in DOMAIN asm.chunks THEN asm
        ELSE [asm EXCEPT !.chunks = With(@, id, payload), !.received = @ + 1]

\* Symbols that this unit makes recoverable enter the solver but not the chunks.  A
\* unit that raises is not stored, but a repetition of it, a duplicate, is.
AddSystematic(asm, unit) ==
    LET state == StateFor(asm)
        ingested == IF unit.index \in state.systematic THEN state
                    ELSE IngestSystematic(state, unit)
    IN  IF SystematicRaises(state, unit) THEN WithState(asm, ingested)
        ELSE StoreChunk(WithState(asm, ingested), unit.index, unit.payload)

StoreSymbol(asm, index, symbols, before) ==
    IF index \notin DOMAIN symbols \ DOMAIN before THEN asm
    ELSE StoreChunk(asm, index, symbols[index])

\* Each newly recovered symbol is stored as a chunk.
Materialized(asm, before, state) ==
    Repeated(LAMBDA a, index : StoreSymbol(a, index, state.known, before),
             WithState(asm, state), MaxSize)

AddCoded(asm, unit) ==
    LET state == StateFor(asm)
    IN  IF ~AcceptsCoded(asm)
        THEN [asm EXCEPT !.store = GetOrCreate(@, asm.active, DefaultGenerationSize(asm))]
        ELSE IF unit.equation \in state.received THEN WithState(asm, state)
        ELSE Materialized(asm, state.known, IngestCoded(state, state.size, unit))

Add(asm, frame) ==
    CASE frame.kind = "manifest" -> AddManifest(asm, frame)
      [] frame.kind = "generation" -> AddGeneration(asm, frame)
      [] frame.kind = "systematic" -> AddSystematic(asm, frame)
      [] frame.kind = "coded" -> AddCoded(asm, frame)
      [] frame.kind = "end" -> asm

\* The ValueError that ends the task of the coordinator that handles the frame; the
\* assembler is left with what was recorded until then.
Raises(asm, frame) ==
    \/ frame.kind = "systematic" /\ SystematicRaises(StateFor(asm), frame)
    \/ /\ frame.kind = "coded" /\ AcceptsCoded(asm)
       /\ CodedRaises(StateFor(asm), StateFor(asm).size, frame)

\* A defect: an off-by-one in the comparison.
CompleteStrictly(asm) == asm.total # None /\ asm.received > asm.total

Complete(asm) == asm.total # None /\ asm.received >= asm.total

\* payload(): chunks 1 to total; the chunk ids missing make it raise.
Missing(asm) == 1..asm.total \ DOMAIN asm.chunks

Payload(asm) == [c \in 1..asm.total |-> asm.chunks[c]]
=============================================================================
