---------------------------- MODULE FiniteField ----------------------------
(***************************************************************************)
(* The arithmetic of common/information/coding.py.  The code codes bytes   *)
(* over GF(256); the model keeps what recovery relies on, a field of       *)
(* characteristic two multiplied through exponent and logarithm tables,    *)
(* and takes the smallest one that is not GF(2), so that a forgotten       *)
(* scaling or inverse shows.  A payload is one symbol of it and a size.    *)
(***************************************************************************)
EXTENDS Integers, FiniteSets

Elements == 0..3
NonZero == Elements \ {0}

\* Exponents of the generator 2, and their logarithms, modulo x^2 + x + 1.
Exp == [k \in 0..2 |-> <<1, 2, 3>>[k + 1]]
Log == [a \in NonZero |-> a - 1]

\* Addition is the exclusive or of the two bits.
GfAdd(a, b) == 2 * (((a \div 2) + (b \div 2)) % 2) + ((a + b) % 2)

GfMul(a, b) == IF 0 \in {a, b} THEN 0 ELSE Exp[(Log[a] + Log[b]) % 3]

\* The sum of w over S: a bit of it is set when an odd number of terms have it.
Odd(S) == Cardinality(S) % 2
GfSum(S, w) == 2 * Odd({i \in S : w[i] > 1}) + Odd({i \in S : w[i] % 2 = 1})

GfInv(a) == Exp[(3 - Log[a]) % 3]
=============================================================================
