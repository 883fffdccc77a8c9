-------------------------- MODULE GenerationSolver --------------------------
(***************************************************************************)
(* receiver/information/solver_state.py: what is known of one generation,  *)
(* the coded equations it holds, and the elimination that recovers source  *)
(* symbols from them; with expand_equation_terms of coding.py, by which    *)
(* both ends turn a seed into an equation.                                 *)
(*                                                                         *)
(* A row is a coefficient for each source (zero: the source is not in the  *)
(* row) and a right-hand side.  The code's sparse term lists, and its      *)
(* distinction between a row that vanished and one left with no term, are  *)
(* not kept: neither row becomes a pivot.  Counters that are only reported *)
(* are left out.                                                           *)
(***************************************************************************)
EXTENDS FiniteField, SequencesExt

CONSTANT MaxSize       \* the largest generation (systematic_generation_size)
ASSUME MaxSizeAssumption == MaxSize \in Nat \ {0}

Sources == 1..MaxSize

\* f, and y for x.
With(f, x, y) == [z \in DOMAIN f \cup {x} |-> IF z = x THEN y ELSE f[z]]

\* What n steps make of start, each told its number.
Repeated(Step(_, _), start, n) ==
    LET after[k \in 0..n] == IF k = 0 THEN start ELSE Step(after[k - 1], k) IN after[n]

--------------------------------------------------------------------------
(* Equations *)

\* The v2 scheme walks round the generation in steps of the degree.
EquationIndices(size, seed, degree) ==
    LET groups == (size + degree - 1) \div degree
        start == ((seed \div groups) + (seed % groups) * degree) % size
    IN  {((start + k) % size) + 1 : k \in 0..degree - 1}

\* A pseudo-random nonzero coefficient: any fixed function of these arguments.
Coefficient(size, seed, degree, i) == 1 + ((size + seed * seed * i + degree + i) % 3)

Expandable(size, degree) == size > 0 /\ degree \in 1..size

Terms(size, seed, degree) ==
    LET indices == EquationIndices(size, seed, degree)
    IN  [i \in Sources |-> IF i \in indices THEN Coefficient(size, seed, degree, i) ELSE 0]

\* rhs plus the coefficients times the values of the sources in S.
Combined(rhs, coefficients, S, payloads) ==
    GfAdd(rhs, GfSum(S, [i \in S |-> GfMul(coefficients[i], payloads[i].value)]))

--------------------------------------------------------------------------
(* Elimination; known maps the indices of known sources to their payloads *)

Support(row) == {i \in Sources : row.coefficients[i] # 0}

\* A defect: known sources vanish from the row and leave the right-hand side.
NormalizeRowForgetting(row, known) ==
    [row EXCEPT !.coefficients = [i \in Sources |-> IF i \in DOMAIN known THEN 0 ELSE @[i]]]

\* Known sources move to the right-hand side.
NormalizeRow(row, known) ==
    [coefficients |-> [i \in Sources |-> IF i \in DOMAIN known THEN 0 ELSE row.coefficients[i]],
     rhs |-> Combined(row.rhs, row.coefficients, Support(row) \cap DOMAIN known, known)]

Scaled(row, factor) ==
    [coefficients |-> [i \in Sources |-> GfMul(row.coefficients[i], factor)],
     rhs |-> GfMul(row.rhs, factor)]

Added(row, other) ==
    [coefficients |-> [i \in Sources |-> GfAdd(row.coefficients[i], other.coefficients[i])],
     rhs |-> GfAdd(row.rhs, other.rhs)]

Leading(row) == Min(Support(row))

Monic(row) ==
    IF Support(row) = {} THEN row ELSE Scaled(row, GfInv(row.coefficients[Leading(row)]))

\* A defect: a row is made monic without cancelling earlier pivots.
ReduceRowUncancelled(row, known, pivots) == Monic(NormalizeRow(row, known))

Cancelled(row, pivots) ==
    IF Support(row) = {} \/ Leading(row) \notin DOMAIN pivots THEN row
    ELSE Added(row, Scaled(pivots[Leading(row)], row.coefficients[Leading(row)]))

\* Cancels the first term while a pivot row starts with it, then makes it monic.
ReduceRow(row, known, pivots) ==
    Monic(Repeated(LAMBDA r, k : Cancelled(r, pivots), NormalizeRow(row, known), MaxSize))

WithPivot(pivots, row) ==
    IF Support(row) = {} THEN pivots ELSE With(pivots, Leading(row), row)

\* Ids count from zero.
Beyond(ids) == IF ids = {} THEN 0 ELSE Max(ids) + 1

WithEquation(pivots, equations, known, id) ==
    IF id \notin DOMAIN equations THEN pivots
    ELSE WithPivot(pivots, ReduceRow(equations[id], known, pivots))

\* The equations in the order of their ids.
PivotRows(equations, known) ==
    Repeated(LAMBDA pivots, n : WithEquation(pivots, equations, known, n - 1), <<>>,
             Beyond(DOMAIN equations))

WithResolved(known, row, symbolSize) ==
    IF Cardinality(Support(row)) # 1 THEN known
    ELSE With(known, Leading(row),
              [size |-> symbolSize,
               value |-> GfMul(row.rhs, GfInv(row.coefficients[Leading(row)]))])

WithPivotRow(known, pivots, p, symbolSize) ==
    IF p \notin DOMAIN pivots THEN known
    ELSE WithResolved(known, NormalizeRow(pivots[p], known), symbolSize)

\* One pass over the pivots, last first: a row with one unknown left gives it.
Substituted(pivots, known, symbolSize) ==
    Repeated(LAMBDA values, n : WithPivotRow(values, pivots, MaxSize + 1 - n, symbolSize),
             known, MaxSize)

\* The rank is the largest number of pivots seen, before or after recovery.
WithKnown(state, known) ==
    [state EXCEPT !.known = known,
                  !.rank = Max({Cardinality(DOMAIN PivotRows(state.equations, k)) :
                                    k \in {state.known, known}}),
                  !.solvable = state.size > 0 /\ Cardinality(DOMAIN known) >= state.size]

Passed(state, known) == Substituted(PivotRows(state.equations, known), known, state.symbolSize)

\* Passes, each followed by a new elimination, until one recovers nothing.
Solved(state) ==
    WithKnown(state, Repeated(LAMBDA known, k : Passed(state, known), state.known, MaxSize))

--------------------------------------------------------------------------
(* Ingest *)

EmptyState(size) ==
    [size |-> size, symbolSize |-> 0, known |-> <<>>, systematic |-> {}, equations |-> <<>>,
     received |-> {}, rank |-> 0, solvable |-> FALSE]

SizeMismatch(state, payload) == state.symbolSize > 0 /\ payload.size # state.symbolSize

WithSymbolSize(state, payload) ==
    IF state.symbolSize > 0 THEN state ELSE [state EXCEPT !.symbolSize = payload.size]

\* Payloads of two sizes cannot be combined: an error nothing here catches.
Mixes(row, known, size) == \E i \in Support(row) \cap DOMAIN known : known[i].size # size

\* Once a symbol of another size was recorded, so fails every elimination that meets it.
Uncombinable(state) ==
    \E e \in DOMAIN state.equations : Mixes(state.equations[e], state.known, state.symbolSize)

\* A defect: the sizes are compared strictly, equations or not.
SystematicRaisesAlways(state, unit) ==
    unit.index \notin state.systematic /\ SizeMismatch(state, unit.payload)

\* A symbol of another size is an error only once the generation has equations.
SystematicRaises(state, unit) ==
    /\ unit.index \notin state.systematic
    /\ DOMAIN state.equations # {}
    /\ SizeMismatch(state, unit.payload) \/ Uncombinable(state)

\* A defect: the symbol is recorded as received but not as decoded.
IngestSystematicUndecoded(state, unit) ==
    Solved([WithSymbolSize(state, unit.payload) EXCEPT !.systematic = @ \cup {unit.index}])

\* The acceptor records the symbol, also as decoded, before the solver may raise.
IngestSystematic(state, unit) ==
    LET sized == WithSymbolSize(state, unit.payload)
        recorded == [sized EXCEPT !.systematic = @ \cup {unit.index},
                                  !.known = With(@, unit.index, unit.payload)]
    IN  IF SystematicRaises(state, unit) THEN recorded ELSE Solved(recorded)

EquationOf(size, unit) ==
    [coefficients |-> Terms(size, unit.seed, unit.degree), rhs |-> unit.payload.value]

Conflicts(state, row) ==
    LET rest == NormalizeRow(row, state.known) IN Support(rest) = {} /\ rest.rhs # 0

\* The new equation is compared with the known symbols, and only then solved.
CodedRaises(state, size, unit) ==
    LET row == EquationOf(size, unit)
    IN  /\ unit.equation \notin state.received
        /\ ~SizeMismatch(state, unit.payload)
        /\ Expandable(size, unit.degree)
        /\ \/ Mixes(row, state.known, unit.payload.size)
           \/ ~Conflicts(state, row) /\ Uncombinable(state)

\* An equation that is invalid, in conflict or of another size is dropped, though
\* its id stays received; one that only meets an older error is held.
IngestCoded(state, size, unit) ==
    LET seen == [state EXCEPT !.received = @ \cup {unit.equation}]
        sized == WithSymbolSize(seen, unit.payload)
        row == EquationOf(size, unit)
        holding == [sized EXCEPT !.equations = With(@, unit.equation, row)]
    IN  IF SizeMismatch(state, unit.payload) THEN seen
        ELSE IF ~Expandable(size, unit.degree) THEN sized
        ELSE IF Mixes(row, state.known, unit.payload.size) \/ Conflicts(state, row) THEN sized
        ELSE IF Uncombinable(state) THEN holding ELSE Solved(holding)
=============================================================================
