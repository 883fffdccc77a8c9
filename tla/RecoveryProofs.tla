--------------------------- MODULE RecoveryProofs ---------------------------
(***************************************************************************)
(* What recovery rests on, for payloads and generations of every size and  *)
(* equations of every kind.  It is sound: the arithmetic of coding.py is   *)
(* that of a field, elimination and back substitution keep every equation  *)
(* true, and so whatever a solver comes to know is the symbol that was     *)
(* sent.  It is complete: the pivot rows are in echelon form, and what a   *)
(* solver does not know when its passes end could have another value.  And *)
(* the frames of the sender's stream are the chunks of the payload, the    *)
(* combinations of them and the controls of their generations, each after  *)
(* the control that announces it.  SessionProofs lifts these lemmas to the *)
(* program.                                                                *)
(***************************************************************************)
EXTENDS Transfer, FiniteSetTheorems, SequenceTheorems, WellFoundedInduction, TLAPS

-----------------------------------------------------------------------------
(* Induction on numbers.                                                     *)

\* A set of naturals has a least member.
LEMMA LeastMember ==
  ASSUME NEW S \in SUBSET Nat, S # {}
  PROVE  \E x \in S : \A y \in S : x <= y
<1>1. PICK x \in S : \A y \in S : ~ (<<y, x>> \in OpToRel(<, Nat))
  BY NatLessThanWellFounded, WFMin
<1>2. \A y \in S : ~(y < x)
  BY <1>1 DEF OpToRel
<1> QED
  BY <1>2

\* What holds at first and is handed on holds up to the end.
LEMMA Upward ==
  ASSUME NEW n \in Nat, NEW S, 0 \in S, \A k \in 0..n - 1 : k \in S => k + 1 \in S
  PROVE  0..n \subseteq S
<1> SUFFICES ASSUME (0..n) \ S # {} PROVE FALSE
  OBVIOUS
<1>1. (0..n) \ S \in SUBSET Nat
  OBVIOUS
<1>2. PICK x \in (0..n) \ S : \A y \in (0..n) \ S : x <= y
  BY <1>1, LeastMember
<1>3. x # 0 /\ x - 1 \in 0..n - 1 /\ x - 1 \in S
  BY <1>2
<1> QED
  BY <1>2, <1>3

\* A finite set of naturals has a greatest member.
LEMMA GreatestMember ==
  ASSUME NEW S \in SUBSET Nat, IsFiniteSet(S), S # {}
  PROVE  \E x \in S : \A y \in S : y <= x
<1> DEFINE HasMax(T) == \E x \in T : \A y \in T : y <= x
           Bad == {n \in Nat : \E T \in SUBSET Nat :
                      IsFiniteSet(T) /\ T # {} /\ Cardinality(T) = n /\ ~HasMax(T)}
<1> SUFFICES ASSUME ~HasMax(S) PROVE FALSE
  OBVIOUS
<1>1. Cardinality(S) \in Bad
  BY FS_CardinalityType
<1>2. PICK n \in Bad : \A m \in Bad : n <= m
  <2>1. Bad \in SUBSET Nat /\ Bad # {}
    BY <1>1
  <2> HIDE DEF Bad
  <2> QED BY <2>1, LeastMember
<1>3. PICK T \in SUBSET Nat : IsFiniteSet(T) /\ T # {} /\ Cardinality(T) = n /\ ~HasMax(T)
  BY <1>2
<1>4. PICK x \in T : TRUE
  BY <1>3
<1>5. /\ IsFiniteSet(T \ {x}) /\ Cardinality(T \ {x}) = n - 1
      /\ Cardinality(T \ {x}) \in Nat
  BY <1>3, FS_RemoveElement, FS_CardinalityType
<1>6. T \ {x} # {}
  <2>1. T = {x} => HasMax(T)
    BY <1>4
  <2> QED BY <1>3, <1>4, <2>1
<1>7. HasMax(T \ {x})
  <2>1. n - 1 \notin Bad
    <3> HIDE DEF Bad
    <3> QED BY <1>2, <1>5 DEF Bad
  <2>2. T \ {x} \in SUBSET Nat
    BY <1>3
  <2> HIDE DEF HasMax
  <2> QED BY <1>5, <1>6, <2>1, <2>2
<1>8. PICK y \in T \ {x} : \A z \in T \ {x} : z <= y
  BY <1>7
<1>9. HasMax(T)
  <2>1. CASE y <= x
    <3>1. \A z \in T : z <= x
      BY <1>4, <1>8, <2>1
    <3> QED BY <1>4, <3>1
  <2>2. CASE ~(y <= x)
    <3>1. \A z \in T : z <= y
      BY <1>4, <1>8, <2>2
    <3> QED BY <1>8, <3>1
  <2> QED BY <2>1, <2>2
<1> QED
  BY <1>3, <1>9

\* A run whose every step stays in a set stays in it.
LEMMA RunStays ==
  ASSUME NEW n \in Nat, NEW D, NEW after, after[0] \in D,
         \A k \in 0..n - 1 : after[k] \in D => after[k + 1] \in D
  PROVE  \A k \in 0..n : after[k] \in D
<1> DEFINE S == {k \in 0..n : after[k] \in D}
<1>1. 0 \in S /\ \A k \in 0..n - 1 : k \in S => k + 1 \in S
  OBVIOUS
<1> HIDE DEF S
<1>2. 0..n \subseteq S
  BY <1>1, Upward
<1> QED
  BY <1>2 DEF S

IsRun(after, n, start, F) ==
    after[0] = start /\ \A k \in 1..n : after[k] = F[<<after[k - 1], k>>]

Stays(D, n, F) == \A d \in D, k \in 1..n : F[<<d, k>>] \in D

\* What Repeated chooses exists, when its step is a function that stays in a set.
LEMMA RunExists ==
  ASSUME NEW n \in Nat, NEW D, NEW start \in D, NEW F, Stays(D, n, F)
  PROVE  \E after \in [0..n -> D] : IsRun(after, n, start, F)
<1> USE DEF IsRun, Stays
<1> DEFINE Runs(m) == \E after \in [0..m -> D] :
                         after[0] = start /\ \A k \in 1..m : after[k] = F[<<after[k - 1], k>>]
           S == {m \in 0..n : Runs(m)}
<1>1. Runs(0)
  <2> DEFINE f == [k \in 0..0 |-> start]
  <2>1. f \in [0..0 -> D] /\ f[0] = start
    OBVIOUS
  <2>2. 1..0 = {}
    OBVIOUS
  <2> HIDE DEF f
  <2> QED BY <2>1, <2>2
<1>2. ASSUME NEW m \in 0..n - 1, Runs(m) PROVE Runs(m + 1)
  <2>1. PICK f \in [0..m -> D] :
           f[0] = start /\ \A k \in 1..m : f[k] = F[<<f[k - 1], k>>]
    BY <1>2
  <2> DEFINE last == F[<<f[m], m + 1>>]
             g == [k \in 0..m + 1 |-> IF k = m + 1 THEN last ELSE f[k]]
  <2>2. m \in Nat /\ m + 1 \in 1..n /\ f[m] \in D
    OBVIOUS
  <2>3. last \in D
    BY <2>2
  <2> HIDE DEF last
  <2>4. g \in [0..m + 1 -> D] /\ g[0] = start
    BY <2>1, <2>2, <2>3
  <2>5. ASSUME NEW k \in 1..m + 1 PROVE g[k] = F[<<g[k - 1], k>>]
    <3>1. CASE k = m + 1
      <4>1. g[k] = last /\ g[k - 1] = f[m]
        BY <2>2, <3>1
      <4> QED BY <3>1, <4>1 DEF last
    <3>2. CASE k # m + 1
      <4>1. k \in 1..m /\ g[k] = f[k] /\ g[k - 1] = f[k - 1]
        BY <2>2, <3>2
      <4> QED BY <2>1, <4>1
    <3> QED BY <3>1, <3>2
  <2> HIDE DEF g
  <2> QED BY <2>4, <2>5
<1>3. 0..n \subseteq S
  <2>1. 0 \in S
    BY <1>1
  <2>2. \A k \in 0..n - 1 : k \in S => k + 1 \in S
    BY <1>2
  <2> HIDE DEF S
  <2> QED BY <2>1, <2>2, Upward
<1>4. Runs(n)
  <2> HIDE DEF Runs
  <2> QED BY <1>3
<1> QED
  BY <1>4

-----------------------------------------------------------------------------
(* Parity.                                                                   *)

\* The parity of a set is a bit.
LEMMA OddType == ASSUME NEW S, IsFiniteSet(S) PROVE Odd(S) \in {0, 1}
<1>1. Cardinality(S) \in Nat
  BY FS_CardinalityType
<1> QED BY <1>1 DEF Odd

\* No member is an even number of them.
LEMMA OddEmpty == Odd({}) = 0
BY FS_EmptySet DEF Odd

\* One member is an odd number of them.
LEMMA OddSingleton == ASSUME NEW x PROVE Odd({x}) = 1
BY FS_Singleton DEF Odd

\* The members of exactly one of two sets.
LEMMA OddDifference ==
  ASSUME NEW A, NEW B, IsFiniteSet(A), IsFiniteSet(B)
  PROVE  /\ IsFiniteSet((A \ B) \cup (B \ A))
         /\ Odd((A \ B) \cup (B \ A)) = (Odd(A) + Odd(B)) % 2
<1>1. /\ Cardinality(A) \in Nat /\ Cardinality(B) \in Nat /\ Cardinality(A \cap B) \in Nat
      /\ IsFiniteSet(A \cap B)
  BY FS_CardinalityType, FS_Intersection
<1>2. /\ IsFiniteSet(A \ B) /\ Cardinality(A \ B) = Cardinality(A) - Cardinality(A \cap B)
      /\ IsFiniteSet(B \ A) /\ Cardinality(B \ A) = Cardinality(B) - Cardinality(A \cap B)
  <2>1. B \cap A = A \cap B
    OBVIOUS
  <2> QED BY <2>1, FS_Difference
<1>3. (A \ B) \cap (B \ A) = {}
  OBVIOUS
<1>4. /\ IsFiniteSet((A \ B) \cup (B \ A))
      /\ Cardinality((A \ B) \cup (B \ A)) = Cardinality(A \ B) + Cardinality(B \ A) - 0
  BY <1>2, <1>3, FS_Union, FS_EmptySet
<1> DEFINE a == Cardinality(A) b == Cardinality(B) c == Cardinality(A \cap B)
<1>5. Cardinality((A \ B) \cup (B \ A)) = a + b - 2 * c /\ a \in Nat /\ b \in Nat /\ c \in Nat
  BY <1>1, <1>2, <1>4
<1> HIDE DEF a, b, c
<1>6. (a + b - 2 * c) % 2 = ((a % 2) + (b % 2)) % 2
  BY <1>5
<1> QED
  BY <1>4, <1>5, <1>6 DEF Odd, a, b

-----------------------------------------------------------------------------
(* The field.                                                                *)

\* Products with zero and one, and the others.
LEMMA MulTable ==
  /\ \A a \in Elements : GfMul(0, a) = 0 /\ GfMul(a, 0) = 0 /\ GfMul(1, a) = a /\ GfMul(a, 1) = a
  /\ GfMul(2, 2) = 3 /\ GfMul(2, 3) = 1 /\ GfMul(3, 2) = 1 /\ GfMul(3, 3) = 2
<1>1. /\ Log[1] = 0 /\ Log[2] = 1 /\ Log[3] = 2
      /\ Exp[0] = 1 /\ Exp[1] = 2 /\ Exp[2] = 3
  BY DEF Log, Exp, NonZero, Elements
<1>2. \A a \in Elements : GfMul(0, a) = 0 /\ GfMul(a, 0) = 0
  BY DEF GfMul
<1>3. \A a \in NonZero : GfMul(1, a) = a /\ GfMul(a, 1) = a
  BY <1>1 DEF GfMul, NonZero, Elements
<1>4. GfMul(2, 2) = 3 /\ GfMul(2, 3) = 1 /\ GfMul(3, 2) = 1 /\ GfMul(3, 3) = 2
  BY <1>1 DEF GfMul
<1> QED
  BY <1>2, <1>3, <1>4 DEF NonZero, Elements

\* The inverses, by the tables.
LEMMA InvTable == GfInv(1) = 1 /\ GfInv(2) = 3 /\ GfInv(3) = 2
<1>1. /\ Log[1] = 0 /\ Log[2] = 1 /\ Log[3] = 2
      /\ Exp[0] = 1 /\ Exp[1] = 2 /\ Exp[2] = 3
  BY DEF Log, Exp, NonZero, Elements
<1> QED BY <1>1 DEF GfInv

\* Four elements, one at a time.
LEMMA Four == \A a \in Elements : a = 0 \/ a = 1 \/ a = 2 \/ a = 3
BY DEF Elements

\* Sums with zero, of equals, and the others.
LEMMA AddTable ==
  /\ \A a \in Elements : GfAdd(0, a) = a /\ GfAdd(a, 0) = a /\ GfAdd(a, a) = 0
  /\ GfAdd(1, 2) = 3 /\ GfAdd(2, 1) = 3 /\ GfAdd(1, 3) = 2 /\ GfAdd(3, 1) = 2
  /\ GfAdd(2, 3) = 1 /\ GfAdd(3, 2) = 1
BY DEF GfAdd, Elements

\* The laws used below.
LEMMA FieldType ==
  ASSUME NEW a \in Elements, NEW b \in Elements
  PROVE  GfAdd(a, b) \in Elements /\ GfMul(a, b) \in Elements
<1>1. 0 \in Elements /\ 1 \in Elements /\ 2 \in Elements /\ 3 \in Elements
  BY DEF Elements
<1> QED BY <1>1, Four, AddTable, MulTable

\* Addition commutes and associates.
LEMMA AddLaws ==
  ASSUME NEW a \in Elements, NEW b \in Elements, NEW c \in Elements
  PROVE  /\ GfAdd(a, b) = GfAdd(b, a)
         /\ GfAdd(GfAdd(a, b), c) = GfAdd(a, GfAdd(b, c))
<1>1. /\ a = 0 \/ a = 1 \/ a = 2 \/ a = 3
      /\ b = 0 \/ b = 1 \/ b = 2 \/ b = 3
      /\ c = 0 \/ c = 1 \/ c = 2 \/ c = 3
  BY Four
<1>2. 0 \in Elements /\ 1 \in Elements /\ 2 \in Elements /\ 3 \in Elements
  BY DEF Elements
<1>3. GfAdd(a, b) = GfAdd(b, a)
  BY <1>1, AddTable
<1>4. CASE a = 0 \/ c = 0 \/ b = 0
  <2>1. GfAdd(a, b) \in Elements /\ GfAdd(b, c) \in Elements
    BY FieldType
  <2>2. /\ GfAdd(GfAdd(a, b), 0) = GfAdd(a, b) /\ GfAdd(0, GfAdd(b, c)) = GfAdd(b, c)
        /\ GfAdd(a, 0) = a /\ GfAdd(0, b) = b /\ GfAdd(0, c) = c /\ GfAdd(b, 0) = b
    BY <2>1, AddTable
  <2>3. CASE a = 0
    BY <1>3, <2>2, <2>3
  <2>4. CASE b = 0
    BY <1>3, <2>2, <2>4
  <2>5. CASE c = 0
    BY <1>3, <2>2, <2>5
  <2> QED BY <1>4, <2>3, <2>4, <2>5
<1>5. CASE a = 1 /\ b # 0 /\ c # 0
  BY <1>1, <1>2, <1>5, AddTable
<1>6. CASE a = 2 /\ b # 0 /\ c # 0
  BY <1>1, <1>2, <1>6, AddTable
<1>7. CASE a = 3 /\ b # 0 /\ c # 0
  BY <1>1, <1>2, <1>7, AddTable
<1> QED BY <1>1, <1>3, <1>4, <1>5, <1>6, <1>7

\* Multiplication commutes, associates and distributes over addition.
LEMMA MulLaws ==
  ASSUME NEW a \in Elements, NEW b \in Elements, NEW c \in Elements
  PROVE  /\ GfMul(a, b) = GfMul(b, a)
         /\ GfMul(GfMul(a, b), c) = GfMul(a, GfMul(b, c))
         /\ GfMul(GfAdd(a, b), c) = GfAdd(GfMul(a, c), GfMul(b, c))
<1>1. GfMul(a, b) = GfMul(b, a)
  BY Four, MulTable
<1>2. /\ a = 0 \/ a = 1 \/ a = 2 \/ a = 3
      /\ b = 0 \/ b = 1 \/ b = 2 \/ b = 3
      /\ c = 0 \/ c = 1 \/ c = 2 \/ c = 3
  BY Four
<1>3. 0 \in Elements /\ 1 \in Elements /\ 2 \in Elements /\ 3 \in Elements
  BY DEF Elements
<1>4. GfMul(GfMul(a, b), c) = GfMul(a, GfMul(b, c))
  <2>1. CASE a \in {0, 1} \/ b \in {0, 1} \/ c \in {0, 1}
    BY <1>3, <2>1, MulTable, FieldType
  <2> QED BY <1>2, <1>3, <2>1, MulTable
<1>5. GfMul(GfAdd(a, b), c) = GfAdd(GfMul(a, c), GfMul(b, c))
  <2>0. GfAdd(a, b) \in Elements /\ GfMul(a, c) \in Elements /\ GfMul(b, c) \in Elements
    BY FieldType
  <2>1. CASE c \in {0, 1}
    <3>1. /\ \A d \in {a, b, GfAdd(a, b)} : GfMul(d, 0) = 0 /\ GfMul(d, 1) = d
          /\ GfAdd(0, 0) = 0
      BY <1>3, <2>0, MulTable, AddTable
    <3> QED BY <2>1, <3>1
  <2>2. CASE a = 0 \/ b = 0
    <3>1. /\ GfAdd(0, b) = b /\ GfAdd(a, 0) = a /\ GfMul(0, c) = 0
          /\ GfAdd(0, GfMul(b, c)) = GfMul(b, c) /\ GfAdd(GfMul(a, c), 0) = GfMul(a, c)
      BY <2>0, MulTable, AddTable
    <3>2. CASE a = 0
      BY <3>1, <3>2
    <3>3. CASE b = 0
      BY <3>1, <3>3
    <3> QED BY <2>2, <3>2, <3>3
  <2>3. CASE c = 2 /\ a # 0 /\ b # 0
    BY <1>2, <1>3, <2>3, MulTable, AddTable
  <2>4. CASE c = 3 /\ a # 0 /\ b # 0
    BY <1>2, <1>3, <2>4, MulTable, AddTable
  <2> QED BY <1>2, <2>1, <2>2, <2>3, <2>4
<1> QED BY <1>1, <1>4, <1>5

\* What is not zero has an inverse.
LEMMA InvLaws ==
  ASSUME NEW a \in Elements, a # 0
  PROVE  GfInv(a) \in Elements /\ GfInv(a) # 0 /\ GfMul(a, GfInv(a)) = 1
BY Four, MulTable, InvTable DEF Elements

-----------------------------------------------------------------------------
(* Sums.  Each bit of a sum is a parity, so the laws of sums are those of    *)
(* parities of sets.                                                         *)

High(S, w) == {i \in S : w[i] > 1}
Low(S, w) == {i \in S : w[i] % 2 = 1}

\* A sum over a finite set is an element, for the parities of two sets of terms.
LEMMA BitsAreFinite ==
  ASSUME NEW S, IsFiniteSet(S), NEW w
  PROVE  /\ IsFiniteSet(High(S, w)) /\ IsFiniteSet(Low(S, w))
         /\ Odd(High(S, w)) \in {0, 1} /\ Odd(Low(S, w)) \in {0, 1}
         /\ GfSum(S, w) = 2 * Odd(High(S, w)) + Odd(Low(S, w))
         /\ GfSum(S, w) \in Elements
<1>1. IsFiniteSet(High(S, w)) /\ IsFiniteSet(Low(S, w))
  <2>1. High(S, w) \in SUBSET S /\ Low(S, w) \in SUBSET S
    BY DEF High, Low
  <2> QED BY <2>1, FS_Subset
<1>2. Odd(High(S, w)) \in {0, 1} /\ Odd(Low(S, w)) \in {0, 1}
  BY <1>1, OddType
<1>3. GfSum(S, w) = 2 * Odd(High(S, w)) + Odd(Low(S, w))
  BY DEF GfSum, High, Low
<1> QED
  BY <1>1, <1>2, <1>3 DEF Elements

\* Only the terms of the set matter.
LEMMA SumSame ==
  ASSUME NEW S, NEW w, NEW u, \A i \in S : w[i] = u[i]
  PROVE  GfSum(S, w) = GfSum(S, u)
<1>1. High(S, w) = High(S, u) /\ Low(S, w) = Low(S, u)
  BY DEF High, Low
<1> QED BY <1>1 DEF GfSum, High, Low

\* Addition adds the two bits, each without a carry.
LEMMA AddBits ==
  ASSUME NEW h \in {0, 1}, NEW l \in {0, 1}, NEW k \in {0, 1}, NEW m \in {0, 1}
  PROVE  GfAdd(2 * h + l, 2 * k + m) = 2 * ((h + k) % 2) + ((l + m) % 2)
BY DEF GfAdd

\* The bits of a sum of two elements.
LEMMA BitsOfAdd ==
  ASSUME NEW a \in Elements, NEW b \in Elements
  PROVE  /\ GfAdd(a, b) > 1 <=> (a > 1 /\ ~(b > 1)) \/ (b > 1 /\ ~(a > 1))
         /\ GfAdd(a, b) % 2 = 1 <=> (a % 2 = 1 /\ b % 2 # 1) \/ (b % 2 = 1 /\ a % 2 # 1)
BY DEF GfAdd, Elements

\* The sum of sums is the sum of the two sums.
LEMMA SumAdd ==
  ASSUME NEW S, IsFiniteSet(S), NEW w, NEW u, NEW s,
         \A i \in S : w[i] \in Elements /\ u[i] \in Elements /\ s[i] = GfAdd(w[i], u[i])
  PROVE  GfSum(S, s) = GfAdd(GfSum(S, w), GfSum(S, u))
<1>1. /\ High(S, s) = (High(S, w) \ High(S, u)) \cup (High(S, u) \ High(S, w))
      /\ Low(S, s) = (Low(S, w) \ Low(S, u)) \cup (Low(S, u) \ Low(S, w))
  BY BitsOfAdd DEF High, Low
<1>2. /\ Odd(High(S, s)) = (Odd(High(S, w)) + Odd(High(S, u))) % 2
      /\ Odd(Low(S, s)) = (Odd(Low(S, w)) + Odd(Low(S, u))) % 2
  BY <1>1, BitsAreFinite, OddDifference
<1> QED
  BY <1>2, BitsAreFinite, AddBits

\* Terms that are zero sum to zero.
LEMMA SumZero ==
  ASSUME NEW S, NEW w, \A i \in S : w[i] = 0
  PROVE  GfSum(S, w) = 0
<1>1. High(S, w) = {} /\ Low(S, w) = {}
  BY DEF High, Low
<1>2. GfSum(S, w) = 2 * Odd(High(S, w)) + Odd(Low(S, w))
  BY DEF GfSum, High, Low
<1> QED BY <1>1, <1>2, OddEmpty

\* A factor common to all terms.
LEMMA SumScale ==
  ASSUME NEW S, IsFiniteSet(S), NEW f \in Elements, NEW w, NEW s,
         \A i \in S : w[i] \in Elements /\ s[i] = GfMul(w[i], f)
  PROVE  GfSum(S, s) = GfMul(GfSum(S, w), f)
<1>1. /\ IsFiniteSet(High(S, w)) /\ IsFiniteSet(Low(S, w))
      /\ Odd(High(S, w)) \in {0, 1} /\ Odd(Low(S, w)) \in {0, 1}
      /\ GfSum(S, w) = 2 * Odd(High(S, w)) + Odd(Low(S, w))
      /\ GfSum(S, w) \in Elements
      /\ GfSum(S, s) = 2 * Odd(High(S, s)) + Odd(Low(S, s))
  BY BitsAreFinite
<1> DEFINE X == (High(S, w) \ Low(S, w)) \cup (Low(S, w) \ High(S, w))
<1>2. Odd(X) = (Odd(High(S, w)) + Odd(Low(S, w))) % 2
  BY <1>1, OddDifference
<1>3. CASE f = 0
  <2>1. \A i \in S : s[i] = 0
    BY <1>3, MulTable
  <2>2. GfMul(GfSum(S, w), f) = 0
    BY <1>1, <1>3, MulTable
  <2> QED BY <2>1, <2>2, SumZero
<1>4. CASE f = 1
  <2>1. \A i \in S : s[i] = w[i]
    BY <1>4, MulTable
  <2>2. GfMul(GfSum(S, w), f) = GfSum(S, w)
    BY <1>1, <1>4, MulTable
  <2> QED BY <2>1, <2>2, SumSame
<1>5. CASE f = 2
  <2>1. \A i \in S : /\ s[i] > 1 <=> (w[i] > 1 /\ w[i] % 2 # 1) \/ (w[i] % 2 = 1 /\ ~(w[i] > 1))
                     /\ s[i] % 2 = 1 <=> w[i] > 1
    <3> TAKE i \in S
    <3>1. w[i] \in Elements /\ s[i] = GfMul(w[i], 2)
      BY <1>5
    <3>2. \/ w[i] = 0 /\ s[i] = 0
          \/ w[i] = 1 /\ s[i] = 2
          \/ w[i] = 2 /\ s[i] = 3
          \/ w[i] = 3 /\ s[i] = 1
      BY <3>1, Four, MulTable DEF Elements
    <3> QED BY <3>2
  <2>2. High(S, s) = X /\ Low(S, s) = High(S, w)
    BY <2>1 DEF High, Low
  <2> HIDE DEF X
  <2>3. GfSum(S, s) = 2 * ((Odd(High(S, w)) + Odd(Low(S, w))) % 2) + Odd(High(S, w))
    BY <1>1, <1>2, <2>2
  <2> QED BY <1>1, <1>5, <2>3, MulTable DEF Elements
<1>6. CASE f = 3
  <2>1. \A i \in S : /\ s[i] > 1 <=> w[i] % 2 = 1
                     /\ s[i] % 2 = 1 <=> (w[i] > 1 /\ w[i] % 2 # 1) \/ (w[i] % 2 = 1 /\ ~(w[i] > 1))
    <3> TAKE i \in S
    <3>1. w[i] \in Elements /\ s[i] = GfMul(w[i], 3)
      BY <1>6
    <3>2. \/ w[i] = 0 /\ s[i] = 0
          \/ w[i] = 1 /\ s[i] = 3
          \/ w[i] = 2 /\ s[i] = 1
          \/ w[i] = 3 /\ s[i] = 2
      BY <3>1, Four, MulTable DEF Elements
    <3> QED BY <3>2
  <2>2. High(S, s) = Low(S, w) /\ Low(S, s) = X
    BY <2>1 DEF High, Low
  <2> HIDE DEF X
  <2>3. GfSum(S, s) = 2 * Odd(Low(S, w)) + ((Odd(High(S, w)) + Odd(Low(S, w))) % 2)
    BY <1>1, <1>2, <2>2
  <2> QED BY <1>1, <1>6, <2>3, MulTable DEF Elements
<1> QED
  BY <1>3, <1>4, <1>5, <1>6, Four

\* A sum over a set without the terms that are zero.
LEMMA SumSupport ==
  ASSUME NEW S, NEW T \in SUBSET S, NEW w, \A i \in S \ T : w[i] = 0
  PROVE  GfSum(S, w) = GfSum(T, w)
<1>1. High(S, w) = High(T, w) /\ Low(S, w) = Low(T, w)
  BY DEF High, Low
<1> QED BY <1>1 DEF GfSum, High, Low

\* One term is its own sum.
LEMMA SumOne ==
  ASSUME NEW x, NEW w, w[x] \in Elements
  PROVE  GfSum({x}, w) = w[x]
<1>1. High({x}, w) = IF w[x] > 1 THEN {x} ELSE {}
  BY DEF High
<1>2. Low({x}, w) = IF w[x] % 2 = 1 THEN {x} ELSE {}
  BY DEF Low
<1>3. GfSum({x}, w) = 2 * (IF w[x] > 1 THEN 1 ELSE 0) + (IF w[x] % 2 = 1 THEN 1 ELSE 0)
  BY <1>1, <1>2, OddEmpty, OddSingleton DEF GfSum, High, Low
<1> QED BY <1>3 DEF Elements

-----------------------------------------------------------------------------
(* Rows.  A row says something of the symbols of a generation, and the steps *)
(* of the elimination say the same.                                          *)

Vectors == [Sources -> Elements]
Rows == [coefficients : Vectors, rhs : Elements]
Payloads == [size : Nat, value : Elements]

Dot(c, v) == GfSum(Sources, [i \in Sources |-> GfMul(c[i], v[i])])

\* Is the row true when the symbols are v?
Holds(row, v) == Dot(row.coefficients, v) = row.rhs

\* What is known is true when the symbols are v.
Agrees(known, v) ==
    /\ DOMAIN known \subseteq Sources
    /\ \A i \in DOMAIN known : known[i] \in Payloads /\ known[i].value = v[i]

\* There are finitely many sources.
LEMMA SourcesFinite == IsFiniteSet(Sources)
BY FS_Interval, MaxSizeAssumption DEF Sources

\* The product of coefficients and symbols is an element.
LEMMA DotType ==
  ASSUME NEW c, NEW v
  PROVE  Dot(c, v) \in Elements
BY SourcesFinite, BitsAreFinite DEF Dot

\* The product is additive in the coefficients.
LEMMA DotAdd ==
  ASSUME NEW v \in Vectors, NEW c \in Vectors, NEW d \in Vectors, NEW e,
         \A i \in Sources : e[i] = GfAdd(c[i], d[i])
  PROVE  Dot(e, v) = GfAdd(Dot(c, v), Dot(d, v))
<1> DEFINE w == [i \in Sources |-> GfMul(c[i], v[i])]
           u == [i \in Sources |-> GfMul(d[i], v[i])]
           s == [i \in Sources |-> GfMul(e[i], v[i])]
<1>1. ASSUME NEW i \in Sources
      PROVE  w[i] \in Elements /\ u[i] \in Elements /\ s[i] = GfAdd(w[i], u[i])
  <2>1. c[i] \in Elements /\ d[i] \in Elements /\ v[i] \in Elements
    BY DEF Vectors
  <2>2. GfMul(c[i], v[i]) \in Elements /\ GfMul(d[i], v[i]) \in Elements
    BY <2>1, FieldType
  <2>3. GfMul(GfAdd(c[i], d[i]), v[i]) = GfAdd(GfMul(c[i], v[i]), GfMul(d[i], v[i]))
    BY <2>1, MulLaws
  <2> QED BY <2>2, <2>3
<1> HIDE DEF w, u, s
<1>2. GfSum(Sources, s) = GfAdd(GfSum(Sources, w), GfSum(Sources, u))
  BY <1>1, SourcesFinite, SumAdd
<1> QED
  BY <1>2 DEF Dot, w, u, s

\* A factor of the coefficients is a factor of the product.
LEMMA DotScale ==
  ASSUME NEW v \in Vectors, NEW c \in Vectors, NEW f \in Elements, NEW e,
         \A i \in Sources : e[i] = GfMul(c[i], f)
  PROVE  Dot(e, v) = GfMul(Dot(c, v), f)
<1> DEFINE w == [i \in Sources |-> GfMul(c[i], v[i])]
           s == [i \in Sources |-> GfMul(e[i], v[i])]
<1>1. ASSUME NEW i \in Sources
      PROVE  w[i] \in Elements /\ s[i] = GfMul(w[i], f)
  <2>1. c[i] \in Elements /\ v[i] \in Elements
    BY DEF Vectors
  <2>2. GfMul(GfMul(c[i], f), v[i]) = GfMul(c[i], GfMul(f, v[i]))
        /\ GfMul(c[i], GfMul(v[i], f)) = GfMul(GfMul(c[i], v[i]), f)
        /\ GfMul(f, v[i]) = GfMul(v[i], f)
    BY <2>1, MulLaws
  <2> QED BY <2>1, <2>2, FieldType
<1> HIDE DEF w, s
<1>2. GfSum(Sources, s) = GfMul(GfSum(Sources, w), f)
  BY <1>1, SourcesFinite, SumScale
<1> QED
  BY <1>2 DEF Dot, w, s

\* Moving known sources to the right-hand side says the same, of what is unknown.
LEMMA NormalizeSame ==
  ASSUME NEW row \in Rows, NEW v \in Vectors, NEW known, Agrees(known, v)
  PROVE  /\ NormalizeRow(row, known) \in Rows
         /\ Support(NormalizeRow(row, known)) = Support(row) \ DOMAIN known
         /\ Holds(NormalizeRow(row, known), v) <=> Holds(row, v)
<1> DEFINE c == row.coefficients
           T == Support(row) \cap DOMAIN known
           rest == [i \in Sources |-> IF i \in DOMAIN known THEN 0 ELSE c[i]]
           gone == [i \in Sources |-> IF i \in DOMAIN known THEN c[i] ELSE 0]
           term == [i \in T |-> GfMul(c[i], known[i].value)]
           full == [i \in Sources |-> GfMul(gone[i], v[i])]
           total == GfSum(T, term)
<1>1. c \in Vectors /\ row.rhs \in Elements /\ \A i \in Sources : c[i] \in Elements /\ v[i] \in Elements
  BY DEF Rows, Vectors
<1>2. rest \in Vectors /\ gone \in Vectors
  BY <1>1 DEF Vectors, Elements
<1>3. NormalizeRow(row, known) = [coefficients |-> rest, rhs |-> GfAdd(row.rhs, total)]
  BY DEF NormalizeRow, Combined
<1>4. T \in SUBSET Sources /\ IsFiniteSet(T)
  BY SourcesFinite, FS_Subset DEF Support
<1>5. \A i \in T : term[i] = full[i]
  BY <1>4 DEF Agrees
<1>6. \A i \in Sources \ T : full[i] = 0
  <2> TAKE i \in Sources \ T
  <2>1. gone[i] = 0
    BY DEF Support
  <2> QED BY <1>1, <2>1, MulTable
<1>7. Dot(gone, v) = total
  <2> HIDE DEF T, term, gone
  <2>1. GfSum(Sources, full) = GfSum(T, full)
    BY <1>4, <1>6, SumSupport
  <2>2. GfSum(T, term) = GfSum(T, full)
    BY <1>5, SumSame
  <2> QED BY <2>1, <2>2 DEF Dot
<1>8. \A i \in Sources : c[i] = GfAdd(rest[i], gone[i])
  BY <1>1, AddTable DEF Elements
<1>9. Support(NormalizeRow(row, known)) = Support(row) \ DOMAIN known
  BY <1>3 DEF Support
<1> HIDE DEF c, rest, gone, total
<1>10. Dot(c, v) = GfAdd(Dot(rest, v), total)
  BY <1>1, <1>2, <1>7, <1>8, DotAdd
<1>11. Dot(rest, v) \in Elements /\ total \in Elements /\ Dot(c, v) \in Elements
  BY <1>7, DotType
<1>12. GfAdd(row.rhs, total) \in Elements
  BY <1>1, <1>11, FieldType
<1>13. NormalizeRow(row, known) \in Rows
  BY <1>2, <1>3, <1>12 DEF Rows
<1>14. Dot(rest, v) = GfAdd(row.rhs, total) <=> Dot(c, v) = row.rhs
  <2>1. \A a, b \in Elements : GfAdd(GfAdd(a, b), b) = a
    BY AddLaws, AddTable
  <2> QED BY <1>1, <1>10, <1>11, <2>1
<1> QED
  BY <1>3, <1>9, <1>13, <1>14 DEF Holds, c

\* A multiple of a true row is true, and with a factor that is not zero says the same.
LEMMA ScaledSame ==
  ASSUME NEW row \in Rows, NEW v \in Vectors, NEW f \in Elements
  PROVE  /\ Scaled(row, f) \in Rows
         /\ Holds(row, v) => Holds(Scaled(row, f), v)
         /\ f # 0 => Support(Scaled(row, f)) = Support(row)
         /\ f # 0 /\ Holds(Scaled(row, f), v) => Holds(row, v)
<1> DEFINE c == row.coefficients
           e == Scaled(row, f).coefficients
<1>1. c \in Vectors /\ row.rhs \in Elements /\ \A i \in Sources : c[i] \in Elements
  BY DEF Rows, Vectors
<1>2. /\ \A i \in Sources : e[i] = GfMul(c[i], f)
      /\ DOMAIN e = Sources /\ e = [i \in Sources |-> GfMul(c[i], f)]
      /\ Scaled(row, f) = [coefficients |-> e, rhs |-> GfMul(row.rhs, f)]
  BY DEF Scaled
<1>3. e \in Vectors /\ Scaled(row, f) \in Rows
  <2>1. \A i \in Sources : GfMul(c[i], f) \in Elements
    BY <1>1, FieldType
  <2>2. e \in Vectors
    BY <1>2, <2>1 DEF Vectors
  <2>3. GfMul(row.rhs, f) \in Elements
    BY <1>1, FieldType
  <2> QED BY <1>2, <2>2, <2>3 DEF Rows
<1>4. Dot(e, v) = GfMul(Dot(c, v), f)
  <2> HIDE DEF e
  <2> QED BY <1>1, <1>2, DotScale
<1>5. Holds(row, v) => Holds(Scaled(row, f), v)
  BY <1>2, <1>4 DEF Holds
<1>6. ASSUME f # 0 PROVE \A a \in Elements : GfMul(GfMul(a, f), GfInv(f)) = a /\ (GfMul(a, f) = 0 <=> a = 0)
  <2>1. GfInv(f) \in Elements /\ GfMul(f, GfInv(f)) = 1
    BY <1>6, InvLaws
  <2> TAKE a \in Elements
  <2>2. GfMul(GfMul(a, f), GfInv(f)) = a
    BY <2>1, MulLaws, MulTable
  <2> QED BY <2>1, <2>2, MulTable
<1>7. f # 0 => Support(Scaled(row, f)) = Support(row)
  BY <1>1, <1>2, <1>6 DEF Support
<1>8. f # 0 /\ Holds(Scaled(row, f), v) => Holds(row, v)
  <2>1. Dot(c, v) \in Elements
    BY DotType
  <2>2. Holds(Scaled(row, f), v) => GfMul(Dot(c, v), f) = GfMul(row.rhs, f)
    BY <1>2, <1>4 DEF Holds
  <2>3. f # 0 => /\ GfMul(GfMul(Dot(c, v), f), GfInv(f)) = Dot(c, v)
                 /\ GfMul(GfMul(row.rhs, f), GfInv(f)) = row.rhs
    BY <1>1, <1>6, <2>1
  <2>4. Holds(row, v) <=> Dot(c, v) = row.rhs
    BY DEF Holds
  <2> QED BY <2>2, <2>3, <2>4
<1> QED
  BY <1>3, <1>5, <1>7, <1>8

\* A true row added to a row does not change whether that is true.
LEMMA AddedSame ==
  ASSUME NEW row \in Rows, NEW other \in Rows, NEW v \in Vectors, Holds(other, v)
  PROVE  /\ Added(row, other) \in Rows
         /\ Holds(Added(row, other), v) <=> Holds(row, v)
<1> DEFINE e == [i \in Sources |-> GfAdd(row.coefficients[i], other.coefficients[i])]
<1>1. /\ row.coefficients \in Vectors /\ row.rhs \in Elements
      /\ other.coefficients \in Vectors /\ other.rhs \in Elements
  BY DEF Rows
<1>2. e \in Vectors
  BY <1>1, FieldType DEF Vectors
<1>3. Added(row, other) = [coefficients |-> e, rhs |-> GfAdd(row.rhs, other.rhs)]
  BY DEF Added
<1>4. \A i \in Sources : e[i] = GfAdd(row.coefficients[i], other.coefficients[i])
  OBVIOUS
<1>5. Dot(e, v) = GfAdd(Dot(row.coefficients, v), Dot(other.coefficients, v))
  <2> HIDE DEF e
  <2> QED BY <1>1, <1>4, DotAdd
<1>6. Added(row, other) \in Rows
  BY <1>1, <1>2, <1>3, FieldType DEF Rows
<1>7. \A a, b \in Elements : GfAdd(GfAdd(a, b), b) = a
  BY AddLaws, AddTable
<1>8. Dot(row.coefficients, v) \in Elements
  BY DotType
<1> HIDE DEF e
<1>9. Holds(Added(row, other), v) <=> Holds(row, v)
  BY <1>1, <1>3, <1>5, <1>7, <1>8 DEF Holds
<1> QED
  BY <1>6, <1>9

\* The first term of a row is the least.
LEMMA LeadingIsLeast ==
  ASSUME NEW row, Support(row) # {}
  PROVE  /\ Leading(row) \in Support(row) /\ Leading(row) \in Sources
         /\ \A i \in Support(row) : Leading(row) <= i
<1>1. Support(row) \in SUBSET Nat /\ Support(row) \subseteq Sources
  BY MaxSizeAssumption DEF Support, Sources
<1>2. \E x \in Support(row) : \A y \in Support(row) : x <= y
  BY <1>1, LeastMember
<1> QED
  BY <1>1, <1>2 DEF Leading, Min

\* Dividing a row by its first coefficient says the same.
LEMMA MonicSame ==
  ASSUME NEW row \in Rows, NEW v \in Vectors
  PROVE  /\ Monic(row) \in Rows /\ Support(Monic(row)) = Support(row)
         /\ Holds(Monic(row), v) <=> Holds(row, v)
<1>1. CASE Support(row) = {}
  BY <1>1 DEF Monic
<1>2. CASE Support(row) # {}
  <2> DEFINE c == row.coefficients[Leading(row)]
  <2>1. c \in Elements /\ c # 0
    BY <1>2, LeadingIsLeast DEF Support, Rows, Vectors
  <2>2. GfInv(c) \in Elements /\ GfInv(c) # 0
    BY <2>1, InvLaws
  <2>3. Monic(row) = Scaled(row, GfInv(c))
    BY <1>2 DEF Monic
  <2> QED BY <2>2, <2>3, ScaledSame
<1> QED
  BY <1>1, <1>2

\* The pivot rows are true when the symbols are v.
TruePivots(pivots, v) ==
    /\ DOMAIN pivots \subseteq Sources
    /\ \A p \in DOMAIN pivots : pivots[p] \in Rows /\ Holds(pivots[p], v)

\* Cancelling the first term says the same.
LEMMA CancelledSame ==
  ASSUME NEW row \in Rows, NEW v \in Vectors, NEW pivots, TruePivots(pivots, v)
  PROVE  /\ Cancelled(row, pivots) \in Rows
         /\ Holds(Cancelled(row, pivots), v) <=> Holds(row, v)
<1>1. CASE Support(row) = {} \/ Leading(row) \notin DOMAIN pivots
  BY <1>1 DEF Cancelled
<1>2. CASE Support(row) # {} /\ Leading(row) \in DOMAIN pivots
  <2> DEFINE p == pivots[Leading(row)]  c == row.coefficients[Leading(row)]
  <2>1. c \in Elements
    BY <1>2, LeadingIsLeast DEF Rows, Vectors
  <2>2. p \in Rows /\ Holds(p, v)
    BY <1>2 DEF TruePivots
  <2>3. Scaled(p, c) \in Rows /\ Holds(Scaled(p, c), v)
    BY <2>1, <2>2, ScaledSame
  <2>4. Cancelled(row, pivots) = Added(row, Scaled(p, c))
    BY <1>2 DEF Cancelled
  <2> QED BY <2>3, <2>4, AddedSame
<1> QED
  BY <1>1, <1>2

\* The steps of a reduction, one after the other.
Reduction(after, row, known, pivots) ==
    /\ after[0] = NormalizeRow(row, known)
    /\ \A k \in 1..MaxSize : after[k] = Cancelled(after[k - 1], pivots)
    /\ ReduceRow(row, known, pivots) = Monic(after[MaxSize])

\* No step of a reduction changes what a row says.
LEMMA ReduceRun ==
  ASSUME NEW row \in Rows, NEW v \in Vectors, NEW known, NEW pivots,
         Agrees(known, v), TruePivots(pivots, v)
  PROVE  \E after \in [0..MaxSize -> Rows] :
            /\ Reduction(after, row, known, pivots)
            /\ \A k \in 0..MaxSize : Holds(after[k], v) <=> Holds(row, v)
<1> DEFINE D == {r \in Rows : Holds(r, v) <=> Holds(row, v)}
           start == NormalizeRow(row, known)
           F == [x \in D \X (1..MaxSize) |-> Cancelled(x[1], pivots)]
           Run(after) == after = [k \in 0..MaxSize |->
                             IF k = 0 THEN start ELSE Cancelled(after[k - 1], pivots)]
<1>1. MaxSize \in Nat /\ MaxSize # 0
  BY MaxSizeAssumption
<1>2. start \in D
  BY NormalizeSame
<1>3. \A d \in D : Cancelled(d, pivots) \in D
  BY CancelledSame
<1>4. \A d \in D, k \in 1..MaxSize : F[<<d, k>>] = Cancelled(d, pivots)
  OBVIOUS
<1> DEFINE chosen == CHOOSE after : Run(after)
<1>5. ReduceRow(row, known, pivots) = Monic(chosen[MaxSize])
  BY DEF ReduceRow, Repeated
<1>6. \E after : Run(after)
  <2> HIDE DEF D, F, start
  <2>1. Stays(D, MaxSize, F)
    BY <1>3, <1>4 DEF Stays
  <2>2. PICK after \in [0..MaxSize -> D] : IsRun(after, MaxSize, start, F)
    BY <1>1, <1>2, <2>1, RunExists
  <2>3. ASSUME NEW k \in 0..MaxSize
        PROVE  after[k] = IF k = 0 THEN start ELSE Cancelled(after[k - 1], pivots)
    <3>1. CASE k = 0
      BY <2>2, <3>1 DEF IsRun
    <3>2. CASE k # 0
      <4>1. k \in 1..MaxSize /\ k - 1 \in 0..MaxSize
        BY <1>1, <3>2
      <4>2. after[k - 1] \in D
        BY <4>1
      <4> QED BY <1>4, <2>2, <3>2, <4>1, <4>2 DEF IsRun
    <3> QED BY <3>1, <3>2
  <2>4. Run(after)
    BY <2>2, <2>3
  <2> QED BY <2>4
<1>7. Run(chosen)
  <2> HIDE DEF Run
  <2> QED BY <1>6
<1>8. /\ chosen[0] = start /\ DOMAIN chosen = 0..MaxSize
      /\ chosen = [k \in 0..MaxSize |-> chosen[k]]
      /\ \A k \in 1..MaxSize : chosen[k] = Cancelled(chosen[k - 1], pivots)
  <2> HIDE DEF chosen, start
  <2> QED BY <1>1, <1>7
<1> HIDE DEF chosen, start
<1>9. \A k \in 0..MaxSize : chosen[k] \in D
  <2> HIDE DEF D
  <2>1. chosen[0] \in D
    BY <1>2, <1>8
  <2>2. ASSUME NEW k \in 0..MaxSize - 1, chosen[k] \in D PROVE chosen[k + 1] \in D
    <3>1. k + 1 \in 1..MaxSize /\ (k + 1) - 1 = k
      BY <1>1
    <3>2. chosen[k + 1] = Cancelled(chosen[k], pivots)
      BY <1>8, <3>1
    <3> QED BY <1>3, <2>2, <3>2
  <2> QED BY <1>1, <2>1, <2>2, RunStays
<1>10. chosen \in [0..MaxSize -> Rows]
  BY <1>8, <1>9
<1>11. \A k \in 0..MaxSize : Holds(chosen[k], v) <=> Holds(row, v)
  BY <1>9
<1>12. Reduction(chosen, row, known, pivots)
  BY <1>5, <1>8 DEF start, Reduction
<1> QED
  BY <1>10, <1>11, <1>12

\* A reduced row says what the row says.
LEMMA ReducedSame ==
  ASSUME NEW row \in Rows, NEW v \in Vectors, NEW known, NEW pivots,
         Agrees(known, v), TruePivots(pivots, v)
  PROVE  /\ ReduceRow(row, known, pivots) \in Rows
         /\ Holds(ReduceRow(row, known, pivots), v) <=> Holds(row, v)
<1>1. PICK after \in [0..MaxSize -> Rows] :
         /\ \A k \in 0..MaxSize : Holds(after[k], v) <=> Holds(row, v)
         /\ ReduceRow(row, known, pivots) = Monic(after[MaxSize])
  BY ReduceRun DEF Reduction
<1>2. after[MaxSize] \in Rows /\ (Holds(after[MaxSize], v) <=> Holds(row, v))
  BY <1>1, MaxSizeAssumption
<1> QED
  BY <1>1, <1>2, MonicSame

-----------------------------------------------------------------------------
(* The elimination.                                                          *)

KnownMaps == UNION {[T -> Payloads] : T \in SUBSET Sources}
PivotMaps == UNION {[T -> Rows] : T \in SUBSET Sources}

\* The equations are true when the symbols are v.
TrueEquations(equations, v) ==
    /\ DOMAIN equations \subseteq Nat /\ IsFiniteSet(DOMAIN equations)
    /\ \A e \in DOMAIN equations : equations[e] \in Rows /\ Holds(equations[e], v)

\* A true row among true pivot rows.
LEMMA WithPivotTrue ==
  ASSUME NEW v \in Vectors, NEW pivots \in PivotMaps, TruePivots(pivots, v),
         NEW row \in Rows, Holds(row, v)
  PROVE  /\ WithPivot(pivots, row) \in PivotMaps
         /\ TruePivots(WithPivot(pivots, row), v)
<1>1. CASE Support(row) = {}
  BY <1>1 DEF WithPivot
<1>2. CASE Support(row) # {}
  <2>1. Leading(row) \in Sources
    BY <1>2, LeadingIsLeast
  <2> DEFINE new == WithPivot(pivots, row)
  <2>2. /\ DOMAIN new = DOMAIN pivots \cup {Leading(row)}
        /\ new = [p \in DOMAIN pivots \cup {Leading(row)} |->
                     IF p = Leading(row) THEN row ELSE pivots[p]]
    BY <1>2 DEF WithPivot, With
  <2>3. \A p \in DOMAIN new : new[p] \in Rows /\ Holds(new[p], v)
    BY <2>2 DEF TruePivots
  <2>4. DOMAIN new \in SUBSET Sources
    BY <2>1, <2>2 DEF TruePivots
  <2>5. new \in [DOMAIN new -> Rows]
    BY <2>2, <2>3
  <2> HIDE DEF new
  <2> QED BY <2>3, <2>4, <2>5 DEF TruePivots, PivotMaps, new
<1> QED
  BY <1>1, <1>2

\* Beyond(ids) is larger than every id.
LEMMA BeyondType ==
  ASSUME NEW ids \in SUBSET Nat, IsFiniteSet(ids)
  PROVE  Beyond(ids) \in Nat /\ \A i \in ids : i < Beyond(ids)
<1>1. CASE ids = {}
  BY <1>1 DEF Beyond
<1>2. CASE ids # {}
  <2>1. \E x \in ids : \A y \in ids : x >= y
    BY <1>2, GreatestMember
  <2>2. Max(ids) \in ids /\ \A y \in ids : Max(ids) >= y
    BY <2>1 DEF Max
  <2>3. Beyond(ids) = Max(ids) + 1
    BY <1>2 DEF Beyond
  <2>4. Max(ids) \in Nat /\ \A y \in ids : y \in Nat /\ y <= Max(ids)
    BY <2>2
  <2> QED BY <2>3, <2>4
<1> QED
  BY <1>1, <1>2

\* A true equation taken up leaves the pivot rows true.
LEMMA WithEquationTrue ==
  ASSUME NEW v \in Vectors, NEW known, Agrees(known, v),
         NEW equations, TrueEquations(equations, v),
         NEW pivots \in PivotMaps, TruePivots(pivots, v), NEW id
  PROVE  /\ WithEquation(pivots, equations, known, id) \in PivotMaps
         /\ TruePivots(WithEquation(pivots, equations, known, id), v)
<1>1. CASE id \notin DOMAIN equations
  BY <1>1 DEF WithEquation
<1>2. CASE id \in DOMAIN equations
  <2>1. equations[id] \in Rows /\ Holds(equations[id], v)
    BY <1>2 DEF TrueEquations
  <2>2. /\ ReduceRow(equations[id], known, pivots) \in Rows
        /\ Holds(ReduceRow(equations[id], known, pivots), v)
    BY <2>1, ReducedSame
  <2> QED BY <1>2, <2>2, WithPivotTrue DEF WithEquation
<1> QED
  BY <1>1, <1>2

\* The equations taken up, one after the other.
LEMMA PivotRun ==
  ASSUME NEW v \in Vectors, NEW known, Agrees(known, v),
         NEW equations, TrueEquations(equations, v)
  PROVE  LET n == Beyond(DOMAIN equations)
         IN  /\ n \in Nat
             /\ \E after \in [0..n -> PivotMaps] :
                   /\ after[0] = <<>>
                   /\ \A k \in 1..n :
                         after[k] = WithEquation(after[k - 1], equations, known, k - 1)
                   /\ \A k \in 0..n : TruePivots(after[k], v)
                   /\ PivotRows(equations, known) = after[n]
<1> DEFINE n == Beyond(DOMAIN equations)
           D == {p \in PivotMaps : TruePivots(p, v)}
           Step(p, k) == WithEquation(p, equations, known, k - 1)
           F == [x \in D \X (1..n) |-> Step(x[1], x[2])]
           Run(after) == after = [k \in 0..n |-> IF k = 0 THEN <<>> ELSE Step(after[k - 1], k)]
           chosen == CHOOSE after : Run(after)
<1>1. n \in Nat
  BY BeyondType DEF TrueEquations
<1>2. <<>> \in D
  <2>1. <<>> \in [{} -> Rows] /\ DOMAIN <<>> = {}
    OBVIOUS
  <2>2. <<>> \in PivotMaps
    BY <2>1 DEF PivotMaps
  <2> QED BY <2>1, <2>2 DEF TruePivots
<1>3. \A p \in D, k \in 1..n : Step(p, k) \in D
  <2> HIDE DEF n
  <2> QED BY WithEquationTrue
<1>4. \A p \in D, k \in 1..n : F[<<p, k>>] = Step(p, k)
  <2> HIDE DEF n, D
  <2> QED OBVIOUS
<1>5. PivotRows(equations, known) = chosen[n]
  BY DEF PivotRows, Repeated
<1> HIDE DEF n, D, Step, F
<1>6. \E after : Run(after)
  <2>1. Stays(D, n, F)
    BY <1>3, <1>4 DEF Stays
  <2>2. PICK after \in [0..n -> D] : IsRun(after, n, <<>>, F)
    BY <1>1, <1>2, <2>1, RunExists
  <2>3. ASSUME NEW k \in 0..n
        PROVE  after[k] = IF k = 0 THEN <<>> ELSE Step(after[k - 1], k)
    <3>1. CASE k = 0
      BY <2>2, <3>1 DEF IsRun
    <3>2. CASE k # 0
      <4>1. k \in 1..n /\ k - 1 \in 0..n
        BY <1>1, <3>2
      <4>2. after[k - 1] \in D
        BY <4>1
      <4> QED BY <1>4, <2>2, <3>2, <4>1, <4>2 DEF IsRun
    <3> QED BY <3>1, <3>2
  <2>4. Run(after)
    BY <2>2, <2>3
  <2> QED BY <2>4
<1>7. Run(chosen)
  <2> HIDE DEF Run
  <2> QED BY <1>6
<1>8. /\ chosen[0] = <<>> /\ DOMAIN chosen = 0..n
      /\ chosen = [k \in 0..n |-> chosen[k]]
      /\ \A k \in 1..n : chosen[k] = Step(chosen[k - 1], k)
  <2> HIDE DEF chosen
  <2> QED BY <1>1, <1>7
<1> HIDE DEF chosen
<1>9. \A k \in 0..n : chosen[k] \in D
  <2>1. chosen[0] \in D
    BY <1>2, <1>8
  <2>2. ASSUME NEW k \in 0..n - 1, chosen[k] \in D PROVE chosen[k + 1] \in D
    <3>1. k + 1 \in 1..n /\ (k + 1) - 1 = k
      BY <1>1
    <3> QED BY <1>3, <1>8, <2>2, <3>1
  <2> QED BY <1>1, <2>1, <2>2, RunStays
<1>10. chosen \in [0..n -> PivotMaps] /\ \A k \in 0..n : TruePivots(chosen[k], v)
  BY <1>8, <1>9 DEF D
<1> QED
  BY <1>1, <1>5, <1>8, <1>10 DEF n, Step

\* The pivot rows are true, whatever equations there are.
LEMMA PivotRowsTrue ==
  ASSUME NEW v \in Vectors, NEW known, Agrees(known, v),
         NEW equations, TrueEquations(equations, v)
  PROVE  /\ PivotRows(equations, known) \in PivotMaps
         /\ TruePivots(PivotRows(equations, known), v)
<1> DEFINE n == Beyond(DOMAIN equations)
<1>1. n \in Nat
  BY PivotRun
<1>2. PICK after \in [0..n -> PivotMaps] :
         (\A k \in 0..n : TruePivots(after[k], v)) /\ PivotRows(equations, known) = after[n]
  BY PivotRun
<1> HIDE DEF n
<1> QED
  BY <1>1, <1>2

-----------------------------------------------------------------------------
(* Back substitution.                                                        *)

\* What a solver knows after it knew less: true when the symbols are v, and the
\* symbols it recovered have the generation's size.
Recovered(after, before, v, size) ==
    /\ Agrees(after, v)
    /\ DOMAIN before \subseteq DOMAIN after
    /\ \A i \in DOMAIN before : after[i] = before[i]
    /\ \A i \in DOMAIN after \ DOMAIN before : after[i].size = size

\* Recovering in two steps is recovering.
LEMMA RecoveredTrans ==
  ASSUME NEW a, NEW b, NEW c, NEW v, NEW size,
         Recovered(b, a, v, size), Recovered(c, b, v, size)
  PROVE  Recovered(c, a, v, size)
BY DEF Recovered

\* A true row with one unknown gives its symbol.
LEMMA RowGives ==
  ASSUME NEW row \in Rows, NEW v \in Vectors, Holds(row, v),
         NEW j \in Sources, Support(row) = {j}
  PROVE  GfMul(row.rhs, GfInv(row.coefficients[j])) = v[j]
<1> DEFINE c == row.coefficients
           w == [i \in Sources |-> GfMul(c[i], v[i])]
<1>1. /\ c \in Vectors /\ \A i \in Sources : c[i] \in Elements /\ v[i] \in Elements
      /\ row.rhs \in Elements
  BY DEF Rows, Vectors
<1>2. c[j] # 0 /\ \A i \in Sources \ {j} : c[i] = 0
  BY DEF Support
<1>3. \A i \in Sources \ {j} : w[i] = 0
  BY <1>1, <1>2, MulTable
<1>4. w[j] = GfMul(c[j], v[j]) /\ w[j] \in Elements
  BY <1>1, FieldType
<1>5. Dot(c, v) = GfSum(Sources, w)
  BY DEF Dot
<1> HIDE DEF w
<1>6. GfSum(Sources, w) = GfSum({j}, w)
  BY <1>3, SumSupport
<1>7. row.rhs = GfMul(c[j], v[j])
  BY <1>4, <1>5, <1>6, SumOne DEF Holds
<1>8. GfInv(c[j]) \in Elements /\ GfMul(c[j], GfInv(c[j])) = 1
  BY <1>1, <1>2, InvLaws
<1>9. /\ GfMul(c[j], v[j]) = GfMul(v[j], c[j])
      /\ GfMul(GfMul(v[j], c[j]), GfInv(c[j])) = GfMul(v[j], GfMul(c[j], GfInv(c[j])))
  BY <1>1, <1>8, MulLaws
<1> QED
  BY <1>1, <1>7, <1>8, <1>9, MulTable

\* A row with one unknown left gives its symbol, any other gives none.
LEMMA WithResolvedTrue ==
  ASSUME NEW v \in Vectors, NEW known \in KnownMaps, Agrees(known, v), NEW size \in Nat,
         NEW row \in Rows, Holds(row, v), Support(row) \cap DOMAIN known = {}
  PROVE  /\ WithResolved(known, row, size) \in KnownMaps
         /\ Recovered(WithResolved(known, row, size), known, v, size)
<1>1. IsFiniteSet(Support(row)) /\ Support(row) \subseteq Sources
  BY SourcesFinite, FS_Subset DEF Support
<1>2. CASE Cardinality(Support(row)) # 1
  BY <1>2 DEF WithResolved, Recovered
<1>3. CASE Cardinality(Support(row)) = 1
  <2>1. PICK j : Support(row) = {j}
    BY <1>1, <1>3, FS_Singleton
  <2>2. j \in Sources /\ Leading(row) = j /\ j \notin DOMAIN known
    BY <1>1, <2>1, LeadingIsLeast
  <2> DEFINE value == GfMul(row.rhs, GfInv(row.coefficients[j]))
             new == WithResolved(known, row, size)
  <2>3. value = v[j]
    BY <2>1, <2>2, RowGives
  <2>4. /\ new = [i \in DOMAIN known \cup {j} |->
                     IF i = j THEN [size |-> size, value |-> value] ELSE known[i]]
        /\ DOMAIN new = DOMAIN known \cup {j}
    BY <1>3, <2>2 DEF WithResolved, With
  <2>5. v[j] \in Elements
    BY <2>2 DEF Vectors
  <2> HIDE DEF value, new
  <2>6. \A i \in DOMAIN new : new[i] \in Payloads /\ new[i].value = v[i]
    BY <2>3, <2>4, <2>5 DEF Agrees, Payloads
  <2>7. DOMAIN new \in SUBSET Sources /\ DOMAIN new \subseteq Sources
    BY <2>2, <2>4 DEF Agrees
  <2>8. new \in KnownMaps
    <3>1. new \in [DOMAIN new -> Payloads]
      BY <2>4, <2>6
    <3> QED BY <2>7, <3>1 DEF KnownMaps
  <2>9. Recovered(new, known, v, size)
    BY <2>2, <2>4, <2>6, <2>7 DEF Recovered, Agrees
  <2> QED BY <2>8, <2>9 DEF new
<1> QED
  BY <1>2, <1>3

\* One pivot row, normalized and resolved, recovers nothing false.
LEMMA WithPivotRowTrue ==
  ASSUME NEW v \in Vectors, NEW known \in KnownMaps, Agrees(known, v), NEW size \in Nat,
         NEW pivots, TruePivots(pivots, v), NEW p
  PROVE  /\ WithPivotRow(known, pivots, p, size) \in KnownMaps
         /\ Recovered(WithPivotRow(known, pivots, p, size), known, v, size)
<1>1. CASE p \notin DOMAIN pivots
  BY <1>1 DEF WithPivotRow, Recovered
<1>2. CASE p \in DOMAIN pivots
  <2> DEFINE row == NormalizeRow(pivots[p], known)
  <2>1. pivots[p] \in Rows /\ Holds(pivots[p], v)
    BY <1>2 DEF TruePivots
  <2>2. row \in Rows /\ Holds(row, v) /\ Support(row) \cap DOMAIN known = {}
    BY <2>1, NormalizeSame
  <2>3. WithPivotRow(known, pivots, p, size) = WithResolved(known, row, size)
    BY <1>2 DEF WithPivotRow
  <2> HIDE DEF row
  <2> QED BY <2>2, <2>3, WithResolvedTrue
<1> QED
  BY <1>1, <1>2

\* One pass, row after row.
Substitution(after, pivots, known, size) ==
    /\ after[0] = known
    /\ \A k \in 1..MaxSize :
          after[k] = WithPivotRow(after[k - 1], pivots, MaxSize + 1 - k, size)
    /\ Substituted(pivots, known, size) = after[MaxSize]

\* A pass recovers nothing false.
LEMMA SubstitutedRun ==
  ASSUME NEW v \in Vectors, NEW known \in KnownMaps, Agrees(known, v), NEW size \in Nat,
         NEW pivots, TruePivots(pivots, v)
  PROVE  \E after \in [0..MaxSize -> KnownMaps] :
            /\ Substitution(after, pivots, known, size)
            /\ \A k \in 0..MaxSize : Recovered(after[k], known, v, size)
<1> DEFINE n == MaxSize
           D == {a \in KnownMaps : Recovered(a, known, v, size)}
           Step(a, k) == WithPivotRow(a, pivots, MaxSize + 1 - k, size)
           F == [x \in D \X (1..n) |-> Step(x[1], x[2])]
           Run(after) == after = [k \in 0..n |-> IF k = 0 THEN known ELSE Step(after[k - 1], k)]
           chosen == CHOOSE after : Run(after)
<1>1. n \in Nat
  BY MaxSizeAssumption
<1>2. known \in D
  BY DEF Recovered
<1>3. \A a \in D, k \in 1..n : Step(a, k) \in D
  <2> SUFFICES ASSUME NEW a \in D, NEW k \in 1..n PROVE Step(a, k) \in D
    OBVIOUS
  <2>1. a \in KnownMaps /\ Agrees(a, v) /\ Recovered(a, known, v, size)
    BY DEF Recovered
  <2>2. Step(a, k) \in KnownMaps /\ Recovered(Step(a, k), a, v, size)
    BY <2>1, WithPivotRowTrue
  <2>3. Recovered(Step(a, k), known, v, size)
    <3> HIDE DEF Step
    <3> QED BY <2>1, <2>2, RecoveredTrans
  <2> QED BY <2>2, <2>3
<1>4. \A a \in D, k \in 1..n : F[<<a, k>>] = Step(a, k)
  <2> HIDE DEF n, D
  <2> QED OBVIOUS
<1>5. Substituted(pivots, known, size) = chosen[n]
  BY DEF Substituted, Repeated
<1> HIDE DEF n, D, Step, F
<1>6. \E after : Run(after)
  <2>1. Stays(D, n, F)
    BY <1>3, <1>4 DEF Stays
  <2>2. PICK after \in [0..n -> D] : IsRun(after, n, known, F)
    BY <1>1, <1>2, <2>1, RunExists
  <2>3. ASSUME NEW k \in 0..n
        PROVE  after[k] = IF k = 0 THEN known ELSE Step(after[k - 1], k)
    <3>1. CASE k = 0
      BY <2>2, <3>1 DEF IsRun
    <3>2. CASE k # 0
      <4>1. k \in 1..n /\ k - 1 \in 0..n
        BY <1>1, <3>2
      <4>2. after[k - 1] \in D
        BY <4>1
      <4> QED BY <1>4, <2>2, <3>2, <4>1, <4>2 DEF IsRun
    <3> QED BY <3>1, <3>2
  <2>4. Run(after)
    BY <2>2, <2>3
  <2> QED BY <2>4
<1>7. Run(chosen)
  <2> HIDE DEF Run
  <2> QED BY <1>6
<1>8. /\ chosen[0] = known /\ DOMAIN chosen = 0..n
      /\ chosen = [k \in 0..n |-> chosen[k]]
      /\ \A k \in 1..n : chosen[k] = Step(chosen[k - 1], k)
  <2> HIDE DEF chosen
  <2>1. chosen = [k \in 0..n |-> IF k = 0 THEN known ELSE Step(chosen[k - 1], k)]
    BY <1>7
  <2>2. DOMAIN chosen = 0..n
    BY <2>1
  <2>3. \A k \in 0..n : chosen[k] = IF k = 0 THEN known ELSE Step(chosen[k - 1], k)
    BY <2>1
  <2>4. chosen = [k \in 0..n |-> chosen[k]]
    BY <2>1, <2>3
  <2>5. 0 \in 0..n /\ \A k \in 1..n : k \in 0..n /\ k # 0
    BY <1>1
  <2> HIDE DEF Run
  <2>6. chosen[0] = known
    BY <2>3, <2>5
  <2>7. \A k \in 1..n : chosen[k] = Step(chosen[k - 1], k)
    BY <2>3, <2>5
  <2> QED BY <2>2, <2>4, <2>6, <2>7
<1> HIDE DEF chosen
<1>9. \A k \in 0..n : chosen[k] \in D
  <2>1. chosen[0] \in D
    BY <1>2, <1>8
  <2>2. ASSUME NEW k \in 0..n - 1, chosen[k] \in D PROVE chosen[k + 1] \in D
    <3>1. k + 1 \in 1..n /\ (k + 1) - 1 = k
      BY <1>1
    <3> QED BY <1>3, <1>8, <2>2, <3>1
  <2> QED BY <1>1, <2>1, <2>2, RunStays
<1>10. chosen \in [0..n -> KnownMaps] /\ \A k \in 0..n : Recovered(chosen[k], known, v, size)
  BY <1>8, <1>9 DEF D
<1>11. Substitution(chosen, pivots, known, size)
  BY <1>5, <1>8 DEF n, Step, Substitution
<1> QED
  BY <1>10, <1>11 DEF n

\* One elimination and its pass.
LEMMA PassedTrue ==
  ASSUME NEW v \in Vectors, NEW known \in KnownMaps, Agrees(known, v),
         NEW state, state.symbolSize \in Nat, TrueEquations(state.equations, v)
  PROVE  /\ Passed(state, known) \in KnownMaps
         /\ Recovered(Passed(state, known), known, v, state.symbolSize)
<1>1. TruePivots(PivotRows(state.equations, known), v)
  BY PivotRowsTrue
<1>2. PICK after \in [0..MaxSize -> KnownMaps] :
         /\ \A k \in 0..MaxSize : Recovered(after[k], known, v, state.symbolSize)
         /\ Passed(state, known) = after[MaxSize]
  BY <1>1, SubstitutedRun DEF Passed, Substitution
<1> QED
  BY <1>2, MaxSizeAssumption

\* A pass can be told nothing false.
LEMMA PassedStays ==
  ASSUME NEW v \in Vectors, NEW state, state.known \in KnownMaps, Agrees(state.known, v),
         state.symbolSize \in Nat, TrueEquations(state.equations, v),
         NEW known \in KnownMaps, Recovered(known, state.known, v, state.symbolSize)
  PROVE  /\ Passed(state, known) \in KnownMaps
         /\ Recovered(Passed(state, known), state.known, v, state.symbolSize)
<1>1. Agrees(known, v)
  BY DEF Recovered
<1>2. /\ Passed(state, known) \in KnownMaps
      /\ Recovered(Passed(state, known), known, v, state.symbolSize)
  BY <1>1, PassedTrue
<1> QED
  BY <1>2, RecoveredTrans

\* All passes.
Solving(after, state) ==
    /\ after[0] = state.known
    /\ \A k \in 1..MaxSize : after[k] = Passed(state, after[k - 1])
    /\ Solved(state) = WithKnown(state, after[MaxSize])

\* No pass recovers anything false.
LEMMA SolvedRun ==
  ASSUME NEW v \in Vectors, NEW state, state.known \in KnownMaps, Agrees(state.known, v),
         state.symbolSize \in Nat, TrueEquations(state.equations, v)
  PROVE  \E after \in [0..MaxSize -> KnownMaps] :
            /\ Solving(after, state)
            /\ \A k \in 0..MaxSize : Recovered(after[k], state.known, v, state.symbolSize)
<1> DEFINE n == MaxSize
           start == state.known
           D == {a \in KnownMaps : Recovered(a, start, v, state.symbolSize)}
           Step(a) == Passed(state, a)
           F == [x \in D \X (1..n) |-> Step(x[1])]
           Run(after) == after = [k \in 0..n |-> IF k = 0 THEN start ELSE Step(after[k - 1])]
           chosen == CHOOSE after : Run(after)
<1>1. n \in Nat
  BY MaxSizeAssumption
<1>2. start \in D
  BY DEF Recovered
<1>3. \A a \in D : Step(a) \in D
  BY PassedStays
<1>4. \A a \in D, k \in 1..n : F[<<a, k>>] = Step(a)
  <2> HIDE DEF n, D
  <2> QED OBVIOUS
<1>5. Solved(state) = WithKnown(state, chosen[n])
  BY DEF Solved, Repeated
<1> HIDE DEF n, D, Step, F, start
<1>6. \E after : Run(after)
  <2>1. Stays(D, n, F)
    BY <1>3, <1>4 DEF Stays
  <2>2. PICK after \in [0..n -> D] : IsRun(after, n, start, F)
    BY <1>1, <1>2, <2>1, RunExists
  <2>3. ASSUME NEW k \in 0..n
        PROVE  after[k] = IF k = 0 THEN start ELSE Step(after[k - 1])
    <3>1. CASE k = 0
      BY <2>2, <3>1 DEF IsRun
    <3>2. CASE k # 0
      <4>1. k \in 1..n /\ k - 1 \in 0..n
        BY <1>1, <3>2
      <4>2. after[k - 1] \in D
        BY <4>1
      <4> QED BY <1>4, <2>2, <3>2, <4>1, <4>2 DEF IsRun
    <3> QED BY <3>1, <3>2
  <2>4. Run(after)
    BY <2>2, <2>3
  <2> QED BY <2>4
<1>7. Run(chosen)
  <2> HIDE DEF Run
  <2> QED BY <1>6
<1>8. /\ chosen[0] = start
      /\ chosen = [k \in 0..n |-> chosen[k]]
      /\ \A k \in 1..n : chosen[k] = Step(chosen[k - 1])
  <2> HIDE DEF chosen
  <2>1. chosen = [k \in 0..n |-> IF k = 0 THEN start ELSE Step(chosen[k - 1])]
    BY <1>7
  <2>2. \A k \in 0..n : chosen[k] = IF k = 0 THEN start ELSE Step(chosen[k - 1])
    BY <2>1
  <2>3. chosen = [k \in 0..n |-> chosen[k]]
    BY <2>1, <2>2
  <2>4. 0 \in 0..n /\ \A k \in 1..n : k \in 0..n /\ k # 0
    BY <1>1
  <2> HIDE DEF Run
  <2>5. chosen[0] = start
    BY <2>2, <2>4
  <2>6. \A k \in 1..n : chosen[k] = Step(chosen[k - 1])
    BY <2>2, <2>4
  <2> QED BY <2>3, <2>5, <2>6
<1> HIDE DEF chosen
<1>9. \A k \in 0..n : chosen[k] \in D
  <2>1. chosen[0] \in D
    BY <1>2, <1>8
  <2>2. ASSUME NEW k \in 0..n - 1, chosen[k] \in D PROVE chosen[k + 1] \in D
    <3>1. k + 1 \in 1..n /\ (k + 1) - 1 = k
      BY <1>1
    <3> QED BY <1>3, <1>8, <2>2, <3>1
  <2> QED BY <1>1, <2>1, <2>2, RunStays
<1>10. chosen \in [0..n -> KnownMaps] /\ \A k \in 0..n : Recovered(chosen[k], start, v, state.symbolSize)
  BY <1>8, <1>9 DEF D
<1>11. Solving(chosen, state)
  BY <1>5, <1>8 DEF n, Step, start, Solving
<1> QED
  BY <1>10, <1>11 DEF n, start

-----------------------------------------------------------------------------
(* The rank: there are no more pivots than equations.                        *)

\* An equation adds at most one pivot row.
LEMMA WithEquationGrows ==
  ASSUME NEW pivots, IsFiniteSet(DOMAIN pivots), NEW equations, NEW known, NEW id
  PROVE  /\ IsFiniteSet(DOMAIN WithEquation(pivots, equations, known, id))
         /\ id \notin DOMAIN equations => WithEquation(pivots, equations, known, id) = pivots
         /\ Cardinality(DOMAIN WithEquation(pivots, equations, known, id))
               <= Cardinality(DOMAIN pivots) + 1
<1> DEFINE row == ReduceRow(equations[id], known, pivots)
<1>1. Cardinality(DOMAIN pivots) \in Nat
  BY FS_CardinalityType
<1>2. CASE id \notin DOMAIN equations \/ Support(row) = {}
  <2>1. WithEquation(pivots, equations, known, id) = pivots
    BY <1>2 DEF WithEquation, WithPivot
  <2> QED BY <1>1, <2>1
<1>3. CASE id \in DOMAIN equations /\ Support(row) # {}
  <2>1. DOMAIN WithEquation(pivots, equations, known, id) = DOMAIN pivots \cup {Leading(row)}
    BY <1>3 DEF WithEquation, WithPivot, With
  <2> HIDE DEF row
  <2> QED BY <1>1, <1>3, <2>1, FS_AddElement
<1> QED
  BY <1>2, <1>3

\* There are no more pivot rows than equations.
LEMMA PivotsBounded ==
  ASSUME NEW v \in Vectors, NEW known, Agrees(known, v),
         NEW equations, TrueEquations(equations, v)
  PROVE  /\ Cardinality(DOMAIN PivotRows(equations, known)) \in Nat
         /\ Cardinality(DOMAIN PivotRows(equations, known)) <= Cardinality(DOMAIN equations)
<1> DEFINE n == Beyond(DOMAIN equations)
           Upto(k) == {e \in DOMAIN equations : e < k}
<1>1. n \in Nat
  BY PivotRun
<1>2. PICK after \in [0..n -> PivotMaps] :
         /\ after[0] = <<>>
         /\ \A k \in 1..n : after[k] = WithEquation(after[k - 1], equations, known, k - 1)
         /\ PivotRows(equations, known) = after[n]
  BY PivotRun
<1>3. DOMAIN equations \subseteq Nat /\ IsFiniteSet(DOMAIN equations)
  BY DEF TrueEquations
<1>4. \A e \in DOMAIN equations : e < n
  BY <1>3, BeyondType
<1>5. \A k \in 0..n : /\ IsFiniteSet(Upto(k)) /\ Cardinality(Upto(k)) \in Nat
                      /\ Upto(k) \subseteq DOMAIN equations
  <2> TAKE k \in 0..n
  <2>1. Upto(k) \in SUBSET DOMAIN equations
    OBVIOUS
  <2> HIDE DEF Upto
  <2> QED BY <1>3, <2>1, FS_Subset, FS_CardinalityType
<1> HIDE DEF n
<1> DEFINE OK(k) == /\ IsFiniteSet(DOMAIN after[k])
                    /\ Cardinality(DOMAIN after[k]) <= Cardinality(Upto(k))
           S == {k \in 0..n : OK(k)}
<1>6. 0 \in S
  <2>1. DOMAIN after[0] = {} /\ 0 \in 0..n
    BY <1>1, <1>2
  <2>2. Upto(0) = {}
    BY <1>3
  <2> QED BY <2>1, <2>2, FS_EmptySet
<1>7. ASSUME NEW k \in 0..n - 1, OK(k) PROVE OK(k + 1)
  <2>1. k + 1 \in 1..n /\ k \in 0..n /\ k + 1 \in 0..n /\ k \in Nat
    BY <1>1
  <2>2. after[k + 1] = WithEquation(after[k], equations, known, k)
    BY <1>2, <2>1
  <2>3. Cardinality(DOMAIN after[k]) \in Nat
    BY <1>7, FS_CardinalityType
  <2>4. /\ IsFiniteSet(DOMAIN after[k + 1])
        /\ k \notin DOMAIN equations => after[k + 1] = after[k]
        /\ Cardinality(DOMAIN after[k + 1]) <= Cardinality(DOMAIN after[k]) + 1
    BY <1>7, <2>2, WithEquationGrows
  <2>5. Cardinality(DOMAIN after[k + 1]) \in Nat
    BY <2>4, FS_CardinalityType
  <2>6. CASE k \notin DOMAIN equations
    <3>1. Upto(k + 1) = Upto(k)
      BY <1>3, <2>1, <2>6
    <3> HIDE DEF Upto
    <3> QED BY <1>7, <2>4, <2>6, <3>1
  <2>7. CASE k \in DOMAIN equations
    <3>1. Upto(k + 1) = Upto(k) \cup {k} /\ k \notin Upto(k)
      BY <1>3, <2>1, <2>7
    <3>2. IsFiniteSet(Upto(k)) /\ Cardinality(Upto(k)) \in Nat
      BY <1>5, <2>1
    <3> HIDE DEF Upto
    <3>3. Cardinality(Upto(k + 1)) = Cardinality(Upto(k)) + 1
      BY <3>1, <3>2, FS_AddElement
    <3> QED BY <1>7, <2>3, <2>4, <2>5, <3>2, <3>3
  <2> QED BY <2>6, <2>7
<1>8. 0..n \subseteq S
  <2> HIDE DEF OK
  <2>1. \A k \in 0..n - 1 : k \in S => k + 1 \in S
    <3> TAKE k \in 0..n - 1
    <3>1. k + 1 \in 0..n
      BY <1>1
    <3> QED BY <1>7, <3>1
  <2> HIDE DEF S
  <2> QED BY <1>1, <1>6, <2>1, Upward
<1>9. OK(n) /\ n \in 0..n
  <2> HIDE DEF OK
  <2> QED BY <1>1, <1>8
<1>10. Cardinality(Upto(n)) <= Cardinality(DOMAIN equations)
  <2> HIDE DEF Upto
  <2> QED BY <1>3, <1>5, <1>9, FS_Subset
<1> HIDE DEF Upto
<1>11. Cardinality(DOMAIN after[n]) \in Nat /\ Cardinality(DOMAIN equations) \in Nat
  BY <1>3, <1>9, FS_CardinalityType
<1> QED
  BY <1>2, <1>5, <1>9, <1>10, <1>11

\* No equations, no pivot rows.
LEMMA NoPivots == PivotRows(<<>>, <<>>) = <<>>
<1> DEFINE none == <<>>  v == [i \in Sources |-> 0]
<1>1. DOMAIN none = {} /\ v \in Vectors
  BY DEF Vectors, Elements
<1>2. Agrees(none, v)
  BY <1>1 DEF Agrees
<1>3. TrueEquations(none, v)
  BY <1>1, FS_EmptySet DEF TrueEquations
<1>4. Beyond(DOMAIN none) = 0
  BY <1>1 DEF Beyond
<1> HIDE DEF none, v
<1>5. \E after : after[0] = <<>> /\ PivotRows(none, none) = after[0]
  BY <1>1, <1>2, <1>3, <1>4, PivotRun
<1> QED
  BY <1>5 DEF none

-----------------------------------------------------------------------------
(* Completeness of the elimination: the pivot rows are in echelon form, and  *)
(* say all that the equations say.                                           *)

\* Every pivot row begins with a one, at its place, and holds no known symbol.
Echelon(pivots, known) ==
    /\ DOMAIN pivots \subseteq Sources
    /\ \A p \in DOMAIN pivots :
          /\ pivots[p] \in Rows /\ pivots[p].coefficients[p] = 1
          /\ \A i \in Support(pivots[p]) : p <= i /\ i \notin DOMAIN known

\* The first term of a row is gone once the pivot row for it was added.
LEMMA CancelledBeyond ==
  ASSUME NEW row \in Rows, NEW known, Support(row) \cap DOMAIN known = {},
         NEW pivots, Echelon(pivots, known),
         Support(row) # {}, Leading(row) \in DOMAIN pivots
  PROVE  /\ Support(Cancelled(row, pivots)) \cap DOMAIN known = {}
         /\ \A i \in Support(Cancelled(row, pivots)) : i > Leading(row)
<1> DEFINE l == Leading(row)
           c == row.coefficients[l]
           pivot == pivots[l]
           new == Cancelled(row, pivots)
<1>1. /\ l \in Sources /\ \A i \in Support(row) : l <= i
      /\ row.coefficients \in Vectors
  BY LeadingIsLeast DEF Rows
<1>2. /\ pivot \in Rows /\ pivot.coefficients \in Vectors /\ pivot.coefficients[l] = 1
      /\ \A i \in Support(pivot) : l <= i /\ i \notin DOMAIN known
  BY DEF Echelon, Rows
<1>3. new = Added(row, Scaled(pivot, c))
  BY DEF Cancelled
<1>4. c \in Elements
  BY <1>1 DEF Vectors
<1> HIDE DEF new, pivot, l, c
<1>5. \A i \in Sources :
         new.coefficients[i] = GfAdd(row.coefficients[i], GfMul(pivot.coefficients[i], c))
  BY <1>3 DEF Added, Scaled
<1>6. \A i \in Sources : row.coefficients[i] \in Elements /\ pivot.coefficients[i] \in Elements
  BY <1>1, <1>2 DEF Vectors
<1>7. GfAdd(0, GfMul(0, c)) = 0
  <2>1. 0 \in Elements
    BY DEF Elements
  <2> QED BY <1>4, <2>1, MulTable, AddTable
<1>8. GfAdd(c, GfMul(1, c)) = 0
  BY <1>4, MulTable, AddTable
<1>9. new.coefficients[l] = 0
  BY <1>1, <1>2, <1>5, <1>8 DEF c, l
<1>10. ASSUME NEW i \in Support(new) PROVE i > l /\ i \notin DOMAIN known
  <2>1. i \in Sources /\ new.coefficients[i] # 0
    BY DEF Support
  <2>2. i \in Support(row) \/ i \in Support(pivot)
    BY <1>5, <1>7, <2>1 DEF Support
  <2>3. l <= i /\ i \notin DOMAIN known
    BY <1>1, <1>2, <2>2
  <2>4. i # l
    BY <1>9, <2>1
  <2> QED BY <1>1, <2>1, <2>3, <2>4, MaxSizeAssumption DEF Sources
<1> QED
  BY <1>10 DEF new, l

\* There is nothing left to cancel.
Reduced(row, pivots) == Support(row) = {} \/ Leading(row) \notin DOMAIN pivots

\* A reduced row is empty or begins with a one where no pivot row does.
LEMMA ReducedFresh ==
  ASSUME NEW row \in Rows, NEW v \in Vectors, NEW known, NEW pivots,
         Agrees(known, v), TruePivots(pivots, v), Echelon(pivots, known)
  PROVE  LET new == ReduceRow(row, known, pivots)
         IN  /\ Support(new) \cap DOMAIN known = {}
             /\ Reduced(new, pivots)
             /\ Support(new) # {} => new.coefficients[Leading(new)] = 1
<1> DEFINE n == MaxSize
<1>0. PICK after \in [0..MaxSize -> Rows] : Reduction(after, row, known, pivots)
  BY ReduceRun
<1>1. /\ after[0] = NormalizeRow(row, known)
      /\ \A k \in 1..n : after[k] = Cancelled(after[k - 1], pivots)
      /\ ReduceRow(row, known, pivots) = Monic(after[n])
      /\ after \in [0..n -> Rows]
  BY <1>0 DEF Reduction
<1>2. n \in Nat
  BY MaxSizeAssumption
<1> DEFINE S == {k \in Nat : /\ Support(after[k]) \cap DOMAIN known = {}
                             /\ Reduced(after[k], pivots) \/ \A i \in Support(after[k]) : i > k}
<1> HIDE DEF n
<1>3. 0 \in S
  <2>1. Support(after[0]) = Support(row) \ DOMAIN known
    BY <1>1, NormalizeSame
  <2>2. \A i \in Support(after[0]) : i > 0
    BY MaxSizeAssumption DEF Support, Sources
  <2> QED BY <2>1, <2>2
<1>4. ASSUME NEW k \in 0..n - 1, k \in S PROVE k + 1 \in S
  <2>1. k \in Nat /\ k + 1 \in 1..n /\ (k + 1) - 1 = k /\ k \in 0..n
    BY <1>2
  <2> DEFINE old == after[k]  new == after[k + 1]
  <2>2. new = Cancelled(old, pivots) /\ old \in Rows
    BY <1>1, <2>1
  <2>3. Support(old) \cap DOMAIN known = {} /\ (Reduced(old, pivots) \/ \A i \in Support(old) : i > k)
    BY <1>4
  <2> HIDE DEF old, new
  <2>4. CASE Reduced(old, pivots)
    <3>1. new = old
      BY <2>2, <2>4 DEF Cancelled, Reduced
    <3> QED BY <2>1, <2>3, <2>4, <3>1 DEF old, new
  <2>5. CASE ~Reduced(old, pivots)
    <3>1. Support(old) # {} /\ Leading(old) \in DOMAIN pivots
      BY <2>5 DEF Reduced
    <3>2. /\ Support(new) \cap DOMAIN known = {}
          /\ \A i \in Support(new) : i > Leading(old)
      BY <2>2, <2>3, <3>1, CancelledBeyond
    <3>3. Leading(old) \in Sources /\ Leading(old) > k
      BY <2>3, <2>5, <3>1, LeadingIsLeast
    <3>4. \A i \in Support(new) : i > k + 1
      <4>1. Leading(old) \in Nat
        BY <3>3, MaxSizeAssumption DEF Sources
      <4>2. \A i \in Support(new) : i \in Nat
        BY MaxSizeAssumption DEF Support, Sources
      <4> QED BY <2>1, <3>2, <3>3, <4>1, <4>2
    <3> QED BY <2>1, <3>2, <3>4 DEF new
  <2> QED BY <2>4, <2>5
<1>5. n \in S
  <2>1. n \in 0..n
    BY <1>2
  <2> HIDE DEF S
  <2>2. 0..n \subseteq S
    BY <1>2, <1>3, <1>4, Upward
  <2> QED BY <2>1, <2>2
<1> DEFINE last == after[n]  new == Monic(last)
<1>6. Support(last) \cap DOMAIN known = {} /\ (Reduced(last, pivots) \/ \A i \in Support(last) : i > n)
  BY <1>5
<1>7. last \in Rows
  <2>1. n \in 0..n
    BY <1>2
  <2> HIDE DEF S, new
  <2> QED BY <1>1, <2>1
<1> HIDE DEF last
<1>8. Reduced(last, pivots)
  <2>1. \A i \in Support(last) : ~(i > n)
    BY MaxSizeAssumption DEF Support, Sources, n
  <2> QED BY <1>6, <2>1 DEF Reduced
<1>9. Support(new) = Support(last)
  BY <1>7, MonicSame
<1>10. Leading(new) = Leading(last)
  BY <1>9 DEF Leading
<1>11. Support(new) # {} => new.coefficients[Leading(new)] = 1
  <2> SUFFICES ASSUME Support(last) # {} PROVE new.coefficients[Leading(last)] = 1
    BY <1>9, <1>10
  <2> DEFINE l == Leading(last)  c == last.coefficients[l]
  <2>1. l \in Sources /\ c # 0
    BY LeadingIsLeast DEF Support
  <2>2. c \in Elements
    BY <1>7, <2>1 DEF Rows, Vectors
  <2>3. new = Scaled(last, GfInv(c))
    BY DEF Monic
  <2> HIDE DEF l, c, new
  <2>4. new.coefficients[l] = GfMul(last.coefficients[l], GfInv(c))
    BY <2>1, <2>3 DEF Scaled
  <2>5. GfMul(c, GfInv(c)) = 1
    BY <2>1, <2>2, InvLaws
  <2> QED BY <2>4, <2>5 DEF c, l
<1> HIDE DEF new
<1>12. /\ Support(new) \cap DOMAIN known = {} /\ Reduced(new, pivots)
  BY <1>6, <1>8, <1>9, <1>10 DEF Reduced
<1>13. ReduceRow(row, known, pivots) = new
  BY <1>1 DEF new, last
<1> QED
  BY <1>11, <1>12, <1>13

\* A row of zeros says the same of all symbols.
LEMMA EmptyRow ==
  ASSUME NEW row \in Rows, Support(row) = {}, NEW v \in Vectors, NEW u \in Vectors, Holds(row, v)
  PROVE  Holds(row, u)
<1> DEFINE c == row.coefficients
<1>1. \A i \in Sources : c[i] = 0
  BY DEF Support
<1>2. ASSUME NEW w \in Vectors PROVE Dot(c, w) = 0
  <2>1. \A i \in Sources : GfMul(c[i], w[i]) = 0
    BY <1>1, MulTable DEF Vectors
  <2> DEFINE terms == [i \in Sources |-> GfMul(c[i], w[i])]
  <2>2. \A i \in Sources : terms[i] = 0
    BY <2>1
  <2> HIDE DEF terms
  <2>3. GfSum(Sources, terms) = 0
    BY <2>2, SumZero
  <2> QED BY <2>3 DEF Dot, terms
<1> HIDE DEF c
<1>3. Dot(c, v) = 0 /\ Dot(c, u) = 0
  BY <1>2
<1> QED
  BY <1>3 DEF Holds, c

\* The pivot rows before and after an equation was taken up: none is lost, and what
\* the equation says they say now.
Taken(new, pivots, known, equation) ==
    /\ Echelon(new, known)
    /\ DOMAIN pivots \subseteq DOMAIN new /\ \A p \in DOMAIN pivots : new[p] = pivots[p]
    /\ \A u \in Vectors : Agrees(known, u) /\ TruePivots(new, u) => Holds(equation, u)

\* A reduced equation that is empty was implied; another becomes a pivot row.
LEMMA EquationTaken ==
  ASSUME NEW v \in Vectors, NEW known, Agrees(known, v), NEW equation \in Rows, Holds(equation, v),
         NEW pivots, TruePivots(pivots, v), Echelon(pivots, known)
  PROVE  Taken(WithPivot(pivots, ReduceRow(equation, known, pivots)), pivots, known, equation)
<1> DEFINE row == ReduceRow(equation, known, pivots)
           new == WithPivot(pivots, row)
<1>1. row \in Rows /\ Holds(row, v)
  BY ReducedSame
<1>2. /\ Support(row) \cap DOMAIN known = {} /\ Reduced(row, pivots)
      /\ Support(row) # {} => row.coefficients[Leading(row)] = 1
  BY ReducedFresh
<1>3. \A u \in Vectors : Agrees(known, u) /\ TruePivots(pivots, u) /\ Holds(row, u) => Holds(equation, u)
  BY ReducedSame
<1> HIDE DEF row
<1>4. CASE Support(row) = {}
  <2>1. new = pivots
    BY <1>4 DEF WithPivot
  <2>2. \A u \in Vectors : Holds(row, u)
    BY <1>1, <1>4, EmptyRow
  <2> HIDE DEF new
  <2> QED BY <1>3, <2>1, <2>2 DEF Taken, new, row
<1>5. CASE Support(row) # {}
  <2> DEFINE l == Leading(row)
  <2>1. l \in Sources /\ l \notin DOMAIN pivots /\ \A i \in Support(row) : l <= i
    BY <1>2, <1>5, LeadingIsLeast DEF Reduced
  <2>2. row.coefficients[l] = 1
    BY <1>2, <1>5
  <2>3. new = [z \in DOMAIN pivots \cup {l} |-> IF z = l THEN row ELSE pivots[z]]
    BY <1>5 DEF WithPivot, With
  <2> HIDE DEF new, l
  <2>4. /\ DOMAIN new = DOMAIN pivots \cup {l} /\ new[l] = row
        /\ \A p \in DOMAIN pivots : new[p] = pivots[p]
    BY <2>1, <2>3
  <2>5. Echelon(new, known)
    BY <1>1, <1>2, <2>1, <2>2, <2>4 DEF Echelon
  <2>6. ASSUME NEW u \in Vectors, Agrees(known, u), TruePivots(new, u) PROVE Holds(equation, u)
    <3>1. TruePivots(pivots, u) /\ Holds(row, u)
      BY <2>4, <2>6 DEF TruePivots
    <3> QED BY <1>3, <2>6, <3>1
  <2> QED BY <2>4, <2>5, <2>6 DEF Taken, new, row
<1> QED
  BY <1>4, <1>5

\* The pivot rows are in echelon form and say all that the equations say.
LEMMA PivotRowsComplete ==
  ASSUME NEW v \in Vectors, NEW known, Agrees(known, v),
         NEW equations, TrueEquations(equations, v)
  PROVE  /\ Echelon(PivotRows(equations, known), known)
         /\ \A u \in Vectors : Agrees(known, u) /\ TruePivots(PivotRows(equations, known), u)
               => TrueEquations(equations, u)
<1> DEFINE n == Beyond(DOMAIN equations)
<1>1. n \in Nat
  BY PivotRun
<1>2. PICK after \in [0..n -> PivotMaps] :
         /\ after[0] = <<>>
         /\ \A k \in 1..n : after[k] = WithEquation(after[k - 1], equations, known, k - 1)
         /\ \A k \in 0..n : TruePivots(after[k], v)
         /\ PivotRows(equations, known) = after[n]
  BY PivotRun
<1>3. /\ DOMAIN equations \subseteq Nat
      /\ \A e \in DOMAIN equations : e < n /\ equations[e] \in Rows /\ Holds(equations[e], v)
  BY BeyondType DEF TrueEquations
<1> DEFINE Says(pivots, e) ==
              \A u \in Vectors : Agrees(known, u) /\ TruePivots(pivots, u) => Holds(equations[e], u)
           S == {k \in Nat : /\ Echelon(after[k], known)
                             /\ \A e \in DOMAIN equations : e < k => Says(after[k], e)}
<1> HIDE DEF n
<1>4. 0 \in S
  <2>1. DOMAIN <<>> = {}
    OBVIOUS
  <2>2. Echelon(after[0], known)
    BY <1>2, <2>1 DEF Echelon
  <2>3. \A e \in DOMAIN equations : ~(e < 0)
    BY <1>3
  <2> QED BY <2>2, <2>3
<1>5. ASSUME NEW k \in 0..n - 1, k \in S PROVE k + 1 \in S
  <2>1. k \in Nat /\ k + 1 \in 1..n /\ (k + 1) - 1 = k /\ k \in 0..n
    BY <1>1
  <2> DEFINE old == after[k]  new == after[k + 1]
  <2>2. new = WithEquation(old, equations, known, k) /\ TruePivots(old, v)
    BY <1>2, <2>1
  <2>3. Echelon(old, known) /\ \A e \in DOMAIN equations : e < k => Says(old, e)
    BY <1>5
  <2> HIDE DEF old, new
  <2>4. /\ Echelon(new, known)
        /\ DOMAIN old \subseteq DOMAIN new /\ \A p \in DOMAIN old : new[p] = old[p]
        /\ k \in DOMAIN equations => Says(new, k)
    <3>1. CASE k \notin DOMAIN equations
      BY <2>2, <2>3, <3>1 DEF WithEquation
    <3>2. CASE k \in DOMAIN equations
      <4>1. new = WithPivot(old, ReduceRow(equations[k], known, old))
        BY <2>2, <3>2 DEF WithEquation
      <4>2. equations[k] \in Rows /\ Holds(equations[k], v)
        BY <1>3, <3>2
      <4>3. Taken(new, old, known, equations[k])
        BY <2>2, <2>3, <4>1, <4>2, EquationTaken
      <4> QED BY <4>3 DEF Taken
    <3> QED BY <3>1, <3>2
  <2>5. \A u : TruePivots(new, u) => TruePivots(old, u)
    BY <2>4 DEF TruePivots
  <2>6. ASSUME NEW e \in DOMAIN equations, e < k + 1 PROVE Says(new, e)
    <3>1. CASE e = k
      BY <2>4, <3>1
    <3>2. CASE e # k
      <4>1. e < k
        BY <1>3, <2>1, <2>6, <3>2
      <4>2. Says(old, e)
        BY <2>3, <4>1
      <4> QED BY <2>5, <4>2
    <3> QED BY <3>1, <3>2
  <2>7. k + 1 \in Nat
    BY <2>1
  <2> QED BY <2>4, <2>6, <2>7 DEF new
<1>6. n \in S
  <2>1. n \in 0..n
    BY <1>1
  <2> HIDE DEF S
  <2>2. 0..n \subseteq S
    BY <1>1, <1>4, <1>5, Upward
  <2> QED BY <2>1, <2>2
<1>7. Echelon(after[n], known) /\ \A e \in DOMAIN equations : Says(after[n], e)
  BY <1>3, <1>6
<1>8. ASSUME NEW u \in Vectors, Agrees(known, u), TruePivots(after[n], u)
      PROVE  TrueEquations(equations, u)
  <2>1. \A e \in DOMAIN equations : Holds(equations[e], u)
    BY <1>7, <1>8
  <2> QED BY <2>1 DEF TrueEquations
<1> QED
  BY <1>2, <1>7, <1>8

-----------------------------------------------------------------------------
(* The passes end only when nothing more can be recovered.                   *)

\* No pivot row gives its symbol.
NothingGiven(equations, known) ==
    \A p \in DOMAIN PivotRows(equations, known), j \in Sources :
        Support(PivotRows(equations, known)[p]) # {j}

\* A row with one unknown, and no other, has one term.
LEMMA OneTerm ==
  ASSUME NEW row \in Rows, NEW v \in Vectors, NEW known, Agrees(known, v)
  PROVE  /\ Support(row) \cap DOMAIN known = {} => Support(NormalizeRow(row, known)) = Support(row)
         /\ Cardinality(Support(row)) = 1 <=> \E j \in Sources : Support(row) = {j}
<1>1. Support(NormalizeRow(row, known)) = Support(row) \ DOMAIN known
  BY NormalizeSame
<1>2. IsFiniteSet(Support(row))
  <2>1. Support(row) \subseteq Sources
    BY DEF Support
  <2> QED BY <2>1, SourcesFinite, FS_Subset
<1>3. Cardinality(Support(row)) = 1 <=> \E j : Support(row) = {j}
  BY <1>2, FS_Singleton
<1>4. \A j : Support(row) = {j} => j \in Sources
  BY DEF Support
<1> QED
  BY <1>1, <1>3, <1>4

\* Where no pivot row gives its symbol a pass changes nothing.
LEMMA PassedIdle ==
  ASSUME NEW v \in Vectors, NEW known \in KnownMaps, Agrees(known, v),
         NEW state, state.symbolSize \in Nat, TrueEquations(state.equations, v),
         NothingGiven(state.equations, known)
  PROVE  Passed(state, known) = known
<1> DEFINE pivots == PivotRows(state.equations, known)
           n == MaxSize
           size == state.symbolSize
<1>1. TruePivots(pivots, v) /\ Echelon(pivots, known)
  BY PivotRowsTrue, PivotRowsComplete
<1>2. Passed(state, known) = Substituted(pivots, known, size)
  BY DEF Passed
<1>3. \A p \in DOMAIN pivots, j \in Sources : Support(pivots[p]) # {j}
  BY DEF NothingGiven
<1> HIDE DEF pivots
<1>4. ASSUME NEW p PROVE WithPivotRow(known, pivots, p, size) = known
  <2>1. CASE p \notin DOMAIN pivots
    BY <2>1 DEF WithPivotRow
  <2>2. CASE p \in DOMAIN pivots
    <3>1. pivots[p] \in Rows /\ Support(pivots[p]) \cap DOMAIN known = {}
      BY <1>1, <2>2 DEF Echelon
    <3>2. Support(NormalizeRow(pivots[p], known)) = Support(pivots[p])
      BY <3>1, OneTerm
    <3>3. Cardinality(Support(pivots[p])) # 1
      BY <1>3, <2>2, <3>1, OneTerm
    <3> QED BY <2>2, <3>2, <3>3 DEF WithPivotRow, WithResolved
  <2> QED BY <2>1, <2>2
<1>5. PICK after \in [0..MaxSize -> KnownMaps] : Substitution(after, pivots, known, size)
  BY <1>1, SubstitutedRun
<1> DEFINE D == {known}
<1>6. after[0] \in D /\ n \in Nat
  BY <1>5, MaxSizeAssumption DEF Substitution
<1>7. ASSUME NEW k \in 0..n - 1, after[k] \in D PROVE after[k + 1] \in D
  <2>1. k + 1 \in 1..n /\ (k + 1) - 1 = k
    BY <1>6
  <2> QED BY <1>4, <1>5, <1>7, <2>1 DEF Substitution
<1> HIDE DEF n, D
<1>8. \A k \in 0..n : after[k] \in D
  BY <1>6, <1>7, RunStays
<1>9. after[n] = known
  BY <1>6, <1>8 DEF D
<1> QED
  BY <1>2, <1>5, <1>9 DEF Substitution, n

\* Where a pivot row gives its symbol a pass recovers one.
LEMMA PassedGains ==
  ASSUME NEW v \in Vectors, NEW known \in KnownMaps, Agrees(known, v),
         NEW state, state.symbolSize \in Nat, TrueEquations(state.equations, v),
         ~NothingGiven(state.equations, known)
  PROVE  \E j \in DOMAIN Passed(state, known) : j \notin DOMAIN known
<1> DEFINE pivots == PivotRows(state.equations, known)
           n == MaxSize
           size == state.symbolSize
<1>1. TruePivots(pivots, v) /\ Echelon(pivots, known)
  BY PivotRowsTrue, PivotRowsComplete
<1>2. Passed(state, known) = Substituted(pivots, known, size)
  BY DEF Passed
<1>3. PICK p \in DOMAIN pivots, j \in Sources : Support(pivots[p]) = {j}
  BY DEF NothingGiven
<1> HIDE DEF pivots
<1>4. p \in Sources /\ pivots[p] \in Rows /\ j \notin DOMAIN known
  BY <1>1, <1>3 DEF Echelon
<1>5. PICK after \in [0..MaxSize -> KnownMaps] :
         /\ Substitution(after, pivots, known, size)
         /\ \A k \in 0..MaxSize : Recovered(after[k], known, v, size)
  BY <1>1, SubstitutedRun
<1>6. /\ n \in Nat /\ after[0] = known /\ after \in [0..n -> KnownMaps]
      /\ \A k \in 1..n : after[k] = WithPivotRow(after[k - 1], pivots, n + 1 - k, size)
      /\ \A k \in 0..n : Recovered(after[k], known, v, size)
      /\ Substituted(pivots, known, size) = after[n]
      /\ p \in 1..n
  BY <1>4, <1>5, MaxSizeAssumption DEF Substitution, Sources
<1> HIDE DEF n
<1> DEFINE m == n + 1 - p
           S == {k \in Nat : k >= m => j \in DOMAIN after[k]}
<1>7. m \in 1..n
  BY <1>6
<1>8. 0 \in S
  BY <1>7
<1>9. ASSUME NEW k \in 0..n - 1, k \in S PROVE k + 1 \in S
  <2>1. k \in Nat /\ k + 1 \in 1..n /\ (k + 1) - 1 = k /\ k \in 0..n
    BY <1>6
  <2> DEFINE old == after[k]  new == after[k + 1]
  <2>2. /\ new = WithPivotRow(old, pivots, n + 1 - (k + 1), size) /\ old \in KnownMaps
        /\ Agrees(old, v)
    BY <1>6, <2>1 DEF Recovered
  <2>3. k >= m => j \in DOMAIN old
    BY <1>9
  <2> HIDE DEF old, new
  <2>4. DOMAIN old \subseteq DOMAIN new
    BY <1>1, <2>2, WithPivotRowTrue DEF Recovered
  <2>5. CASE k + 1 = m
    <3>1. n + 1 - (k + 1) = p
      BY <1>6, <2>1, <2>5
    <3>2. new = WithResolved(old, NormalizeRow(pivots[p], old), size)
      BY <1>3, <2>2, <3>1 DEF WithPivotRow
    <3>3. CASE j \in DOMAIN old
      BY <2>1, <2>4, <3>3 DEF new
    <3>4. CASE j \notin DOMAIN old
      <4> DEFINE row == NormalizeRow(pivots[p], old)
      <4>1. Support(row) = {j} /\ row \in Rows
        <5>1. Support(pivots[p]) \cap DOMAIN old = {}
          BY <1>3, <3>4
        <5> QED BY <1>3, <1>4, <2>2, <5>1, OneTerm, NormalizeSame
      <4> HIDE DEF row
      <4>2. Cardinality(Support(row)) = 1
        BY <2>2, <4>1, OneTerm
      <4>3. Leading(row) = j
        BY <4>1, LeadingIsLeast
      <4>4. j \in DOMAIN new
        BY <3>2, <4>2, <4>3 DEF WithResolved, With, row
      <4> QED BY <2>1, <4>4 DEF new
    <3> QED BY <3>3, <3>4
  <2>6. CASE k + 1 # m
    <3>1. k + 1 >= m => k >= m
      BY <1>7, <2>1, <2>6
    <3> QED BY <2>1, <2>3, <2>4, <3>1 DEF new
  <2> QED BY <2>5, <2>6
<1>10. n \in S
  <2>1. n \in 0..n
    BY <1>6
  <2> HIDE DEF S
  <2>2. 0..n \subseteq S
    BY <1>6, <1>8, <1>9, Upward
  <2> QED BY <2>1, <2>2
<1>11. j \in DOMAIN after[n]
  BY <1>7, <1>10
<1> QED
  BY <1>2, <1>4, <1>6, <1>11

-----------------------------------------------------------------------------
(* The states of a solver.                                                   *)

EquationMaps == UNION {[T -> Rows] : T \in SUBSET Nat}

SolverStates ==
    [size : Nat, symbolSize : Nat, known : KnownMaps, systematic : SUBSET Sources,
     equations : EquationMaps, received : SUBSET Nat, rank : Nat, solvable : BOOLEAN]

\* Everything a solver holds is true when the symbols are v.
SoundState(state, v) ==
    /\ state \in SolverStates
    /\ Agrees(state.known, v) /\ TrueEquations(state.equations, v)
    /\ state.systematic \subseteq DOMAIN state.known
    /\ state.rank <= Cardinality(DOMAIN state.equations)

\* The larger of two ranks.
LEMMA MaxOfTwo ==
  ASSUME NEW a \in Nat, NEW b \in Nat
  PROVE  Max({a, b}) \in Nat /\ (Max({a, b}) = a \/ Max({a, b}) = b)
         /\ a <= Max({a, b}) /\ b <= Max({a, b})
<1>1. \E x \in {a, b} : \A y \in {a, b} : x >= y
  <2>1. CASE a >= b
    BY <2>1
  <2>2. CASE ~(a >= b)
    BY <2>2
  <2> QED BY <2>1, <2>2
<1>2. Max({a, b}) \in {a, b} /\ \A y \in {a, b} : Max({a, b}) >= y
  BY <1>1 DEF Max
<1> QED
  BY <1>2

\* Solving changes what is known, the rank and the flag, and nothing else.
LEMMA SolvedSound ==
  ASSUME NEW v \in Vectors, NEW state, SoundState(state, v)
  PROVE  /\ SoundState(Solved(state), v)
         /\ Recovered(Solved(state).known, state.known, v, state.symbolSize)
         /\ Solved(state).size = state.size /\ Solved(state).symbolSize = state.symbolSize
         /\ Solved(state).systematic = state.systematic
         /\ Solved(state).equations = state.equations
         /\ Solved(state).received = state.received
<1>1. /\ state \in SolverStates /\ state.known \in KnownMaps /\ Agrees(state.known, v)
      /\ state.symbolSize \in Nat /\ TrueEquations(state.equations, v)
      /\ state.systematic \subseteq DOMAIN state.known
  BY DEF SoundState, SolverStates
<1>2. PICK after \in [0..MaxSize -> KnownMaps] :
         /\ \A k \in 0..MaxSize : Recovered(after[k], state.known, v, state.symbolSize)
         /\ Solved(state) = WithKnown(state, after[MaxSize])
  BY <1>1, SolvedRun DEF Solving
<1> DEFINE known == after[MaxSize]
           a == Cardinality(DOMAIN PivotRows(state.equations, state.known))
           b == Cardinality(DOMAIN PivotRows(state.equations, known))
           rank == Max({Cardinality(DOMAIN PivotRows(state.equations, k)) :
                           k \in {state.known, known}})
           solvable == state.size > 0 /\ Cardinality(DOMAIN known) >= state.size
<1>3. known \in KnownMaps /\ Recovered(known, state.known, v, state.symbolSize)
  BY <1>2, MaxSizeAssumption
<1> HIDE DEF known
<1>4. Agrees(known, v)
  BY <1>3 DEF Recovered
<1>5. /\ a \in Nat /\ a <= Cardinality(DOMAIN state.equations)
      /\ b \in Nat /\ b <= Cardinality(DOMAIN state.equations)
  BY <1>1, <1>4, PivotsBounded
<1>6. rank = Max({a, b})
  <2>1. {Cardinality(DOMAIN PivotRows(state.equations, k)) : k \in {state.known, known}} = {a, b}
    OBVIOUS
  <2> QED BY <2>1
<1> HIDE DEF a, b
<1>7. rank \in Nat /\ rank <= Cardinality(DOMAIN state.equations)
  <2> HIDE DEF rank
  <2> QED BY <1>5, <1>6, MaxOfTwo
<1>8. Solved(state) = [state EXCEPT !.known = known, !.rank = rank, !.solvable = solvable]
  BY <1>2 DEF WithKnown, known
<1>9. solvable \in BOOLEAN
  OBVIOUS
<1> HIDE DEF rank, solvable
<1>10. /\ Solved(state).size = state.size /\ Solved(state).symbolSize = state.symbolSize
       /\ Solved(state).systematic = state.systematic
       /\ Solved(state).equations = state.equations
       /\ Solved(state).received = state.received
       /\ Solved(state).known = known /\ Solved(state).rank = rank
  BY <1>1, <1>8 DEF SolverStates
<1>11. Solved(state) \in SolverStates
  BY <1>1, <1>3, <1>7, <1>8, <1>9 DEF SolverStates
<1>12. state.systematic \subseteq DOMAIN known
  BY <1>1, <1>3 DEF Recovered
<1> QED
  BY <1>1, <1>3, <1>4, <1>7, <1>10, <1>11, <1>12 DEF SoundState

\* A solver that has nothing more to recover.
Settled(state) == NothingGiven(state.equations, state.known)

\* After as many passes as there are symbols nothing is left to recover.
LEMMA SolvedSettled ==
  ASSUME NEW v \in Vectors, NEW state, SoundState(state, v)
  PROVE  Settled(Solved(state))
<1>1. /\ state.known \in KnownMaps /\ Agrees(state.known, v)
      /\ state.symbolSize \in Nat /\ TrueEquations(state.equations, v)
  BY DEF SoundState, SolverStates
<1> DEFINE n == MaxSize
<1>2. PICK after \in [0..MaxSize -> KnownMaps] :
         /\ Solving(after, state)
         /\ \A k \in 0..MaxSize : Recovered(after[k], state.known, v, state.symbolSize)
  BY <1>1, SolvedRun
<1>3. /\ n \in Nat /\ after[0] = state.known /\ after \in [0..n -> KnownMaps]
      /\ \A k \in 1..n : after[k] = Passed(state, after[k - 1])
      /\ \A k \in 0..n : Recovered(after[k], state.known, v, state.symbolSize)
      /\ Solved(state) = WithKnown(state, after[n])
  BY <1>2, MaxSizeAssumption DEF Solving
<1>4. \A k \in 0..n : Agrees(after[k], v)
  BY <1>3 DEF Recovered
<1>5. \A k \in 0..n : IsFiniteSet(DOMAIN after[k]) /\ Cardinality(DOMAIN after[k]) \in Nat
  <2>1. \A k \in 0..n : DOMAIN after[k] \subseteq Sources
    BY <1>4 DEF Agrees
  <2> QED BY <2>1, SourcesFinite, FS_Subset, FS_CardinalityType
<1> DEFINE S == {k \in Nat : \/ NothingGiven(state.equations, after[k])
                             \/ Cardinality(DOMAIN after[k]) >= k}
<1> HIDE DEF n
<1>6. 0 \in S
  <2>1. 0 \in 0..n
    BY <1>3
  <2> QED BY <1>5, <2>1
<1>7. ASSUME NEW k \in 0..n - 1, k \in S PROVE k + 1 \in S
  <2>1. k \in Nat /\ k + 1 \in 1..n /\ (k + 1) - 1 = k /\ k \in 0..n /\ k + 1 \in 0..n
    BY <1>3
  <2> DEFINE old == after[k]  new == after[k + 1]
  <2>2. /\ new = Passed(state, old) /\ old \in KnownMaps /\ Agrees(old, v)
        /\ IsFiniteSet(DOMAIN new) /\ Cardinality(DOMAIN new) \in Nat
        /\ Cardinality(DOMAIN old) \in Nat
    BY <1>3, <1>4, <1>5, <2>1
  <2>3. NothingGiven(state.equations, old) \/ Cardinality(DOMAIN old) >= k
    BY <1>7
  <2> HIDE DEF old, new
  <2>4. CASE NothingGiven(state.equations, old)
    <3>1. new = old
      BY <1>1, <2>2, <2>4, PassedIdle
    <3> QED BY <2>1, <2>4, <3>1 DEF new
  <2>5. CASE ~NothingGiven(state.equations, old)
    <3>1. PICK j \in DOMAIN new : j \notin DOMAIN old
      BY <1>1, <2>2, <2>5, PassedGains
    <3>2. DOMAIN old \subseteq DOMAIN new
      BY <1>1, <2>2, PassedTrue DEF Recovered
    <3>3. Cardinality(DOMAIN old) <= Cardinality(DOMAIN new)
          /\ (Cardinality(DOMAIN old) = Cardinality(DOMAIN new) => DOMAIN old = DOMAIN new)
      BY <2>2, <3>2, FS_Subset
    <3>4. Cardinality(DOMAIN new) >= k + 1
      BY <2>1, <2>2, <2>3, <2>5, <3>1, <3>3
    <3> QED BY <2>1, <3>4 DEF new
  <2> QED BY <2>4, <2>5
<1>8. n \in 0..n /\ n \in S
  <2>1. n \in 0..n
    BY <1>3
  <2> HIDE DEF S
  <2>2. 0..n \subseteq S
    BY <1>3, <1>6, <1>7, Upward
  <2> QED BY <2>1, <2>2
<1> DEFINE known == after[n]
<1>9. /\ Agrees(known, v) /\ IsFiniteSet(DOMAIN known) /\ Cardinality(DOMAIN known) \in Nat
      /\ NothingGiven(state.equations, known) \/ Cardinality(DOMAIN known) >= n
  BY <1>4, <1>5, <1>8
<1> HIDE DEF known, S
<1>10. NothingGiven(state.equations, known)
  <2> SUFFICES ASSUME Cardinality(DOMAIN known) >= n
               PROVE  NothingGiven(state.equations, known)
    BY <1>9
  <2>1. IsFiniteSet(Sources) /\ Cardinality(Sources) = n
    BY <1>3, FS_Interval DEF Sources, n
  <2>2. DOMAIN known \subseteq Sources
    BY <1>9 DEF Agrees
  <2>3. Cardinality(DOMAIN known) <= Cardinality(Sources)
        /\ (Cardinality(DOMAIN known) = Cardinality(Sources) => DOMAIN known = Sources)
    BY <2>1, <2>2, FS_Subset
  <2>4. DOMAIN known = Sources
    BY <1>3, <1>9, <2>1, <2>3
  <2>5. Echelon(PivotRows(state.equations, known), known)
    BY <1>1, <1>9, PivotRowsComplete
  <2> QED BY <2>4, <2>5 DEF Echelon, NothingGiven
<1>11. Solved(state).known = known /\ Solved(state).equations = state.equations
  BY <1>3 DEF WithKnown, known, SoundState, SolverStates
<1> QED
  BY <1>10, <1>11 DEF Settled

-----------------------------------------------------------------------------
(* A generation and its solver.                                              *)

Generations ==
    UNION {[id : Nat, size : {s}, base : Nat \ {0}, chunks : [1..s -> PayloadChunk]] : s \in 0..MaxSize}

\* The values of the symbols of a generation, whatever is put beyond its size.
TrueFor(v, generation) ==
    v \in Vectors /\ \A i \in 1..generation.size : v[i] = generation.chunks[i].value

\* What a solver holds is of this generation: nothing false, no symbol beyond its
\* size, every known one as it was sent, equations only if the chunks are of one size.
GenerationOK(state, generation) ==
    /\ \A v \in Vectors : TrueFor(v, generation) => SoundState(state, v)
    /\ \A i \in DOMAIN state.known :
          i \in 1..generation.size /\ state.known[i] = generation.chunks[i]
    /\ state.symbolSize = 0 \/ \E i \in 1..generation.size :
          state.symbolSize = generation.chunks[i].size
    /\ DOMAIN state.equations # {} =>
          \A i \in 1..generation.size : generation.chunks[i].size = state.symbolSize

\* And there is nothing more to recover from what it holds.
SolverOK(state, generation) == GenerationOK(state, generation) /\ Settled(state)

\* The values followed by something.
Padded(generation, j, x) ==
    [i \in Sources |-> IF i = j THEN x
                       ELSE IF i \in 1..generation.size THEN generation.chunks[i].value ELSE 0]

\* The values of a generation, followed by anything, are values of all symbols.
LEMMA PaddedType ==
  ASSUME NEW generation \in Generations, NEW j, NEW x \in Elements
  PROVE  /\ Padded(generation, j, x) \in Vectors
         /\ generation.size \in 0..MaxSize
         /\ \A i \in 1..generation.size : generation.chunks[i] \in PayloadChunk /\ i \in Sources
         /\ j \notin 1..generation.size => TrueFor(Padded(generation, j, x), generation)
<1>1. /\ generation.size \in 0..MaxSize
      /\ \A i \in 1..generation.size : generation.chunks[i] \in PayloadChunk
  BY DEF Generations
<1>2. \A i \in 1..generation.size : i \in Sources
  BY <1>1, MaxSizeAssumption DEF Sources
<1>3. Padded(generation, j, x) \in Vectors
  BY <1>1 DEF Padded, Vectors, PayloadChunk, Elements
<1> QED
  BY <1>1, <1>2, <1>3 DEF Padded, TrueFor

\* A symbol that solving makes known has one value only.
LEMMA SolvedDetermined ==
  ASSUME NEW v \in Vectors, NEW u \in Vectors, NEW state,
         SoundState(state, v), SoundState(state, u),
         NEW j \in DOMAIN Solved(state).known
  PROVE  v[j] = u[j]
<1>1. Agrees(Solved(state).known, v) /\ Agrees(Solved(state).known, u)
  BY SolvedSound DEF SoundState
<1> QED
  BY <1>1 DEF Agrees

\* Solving keeps to the generation.
LEMMA SolvedOK ==
  ASSUME NEW generation \in Generations, NEW state, GenerationOK(state, generation)
  PROVE  /\ SolverOK(Solved(state), generation)
         /\ Solved(state).size = state.size
         /\ Solved(state).systematic = state.systematic
         /\ Solved(state).received = state.received
         /\ DOMAIN state.known \subseteq DOMAIN Solved(state).known
<1> DEFINE new == Solved(state)
           v == Padded(generation, 0, 0)
<1>0. 0 \in Elements /\ 1 \in Elements /\ 0 # 1
  BY DEF Elements
<1>1. v \in Vectors /\ TrueFor(v, generation)
  BY <1>0, PaddedType
<1>2. SoundState(state, v)
  BY <1>1 DEF GenerationOK
<1>3. /\ SoundState(new, v) /\ Recovered(new.known, state.known, v, state.symbolSize)
      /\ new.size = state.size /\ new.symbolSize = state.symbolSize
      /\ new.systematic = state.systematic /\ new.equations = state.equations
      /\ new.received = state.received
  BY <1>1, <1>2, SolvedSound
<1>4. \A u \in Vectors : TrueFor(u, generation) => SoundState(new, u)
  BY SolvedSound DEF GenerationOK
<1>5. \A j \in DOMAIN new.known : j \in Sources /\ new.known[j] \in Payloads /\ new.known[j].value = v[j]
  BY <1>3 DEF SoundState, Agrees
<1>6. ASSUME NEW j \in DOMAIN new.known PROVE j \in 1..generation.size
  <2> SUFFICES ASSUME j \notin 1..generation.size PROVE FALSE
    OBVIOUS
  <2> DEFINE u == Padded(generation, j, 1)
             w == Padded(generation, j, 0)
  <2>1. u \in Vectors /\ TrueFor(u, generation) /\ w \in Vectors /\ TrueFor(w, generation)
    BY <1>0, PaddedType
  <2>2. SoundState(state, u) /\ SoundState(state, w)
    BY <2>1 DEF GenerationOK
  <2>3. j \in Sources
    BY <1>5
  <2>4. u[j] = 1 /\ w[j] = 0
    BY <2>3 DEF Padded
  <2> HIDE DEF u, w, new
  <2>5. u[j] = w[j]
    BY <2>1, <2>2, SolvedDetermined DEF new
  <2> QED BY <2>4, <2>5
<1>7. ASSUME NEW j \in DOMAIN new.known, j \notin DOMAIN state.known
      PROVE  DOMAIN state.equations # {}
  <2> SUFFICES ASSUME DOMAIN state.equations = {} PROVE FALSE
    OBVIOUS
  <2>1. PICK x \in Elements : x # v[j]
    BY <1>0
  <2> DEFINE u == Padded(generation, j, x)
  <2>2. u \in Vectors
    BY PaddedType
  <2>3. \A i \in Sources : i # j => u[i] = v[i]
    BY DEF Padded
  <2>4. u[j] = x
    BY <1>5 DEF Padded
  <2>5. Agrees(state.known, u)
    <3>1. \A i \in DOMAIN state.known : i \in Sources /\ i # j
      BY <1>2, <1>7 DEF SoundState, Agrees
    <3> HIDE DEF u, v
    <3> QED BY <1>2, <2>3, <3>1 DEF SoundState, Agrees
  <2>6. TrueEquations(state.equations, u)
    BY <1>2 DEF SoundState, TrueEquations
  <2> HIDE DEF u, v, new
  <2>7. SoundState(state, u)
    BY <1>2, <2>5, <2>6 DEF SoundState
  <2>8. v[j] = u[j]
    BY <1>1, <1>2, <2>2, <2>7, SolvedDetermined DEF new
  <2> QED BY <2>1, <2>4, <2>8
<1>8. ASSUME NEW j \in DOMAIN new.known PROVE new.known[j] = generation.chunks[j]
  <2>1. CASE j \in DOMAIN state.known
    BY <1>3, <2>1 DEF Recovered, GenerationOK
  <2>2. CASE j \notin DOMAIN state.known
    <3>1. new.known[j].size = state.symbolSize
      BY <1>3, <2>2 DEF Recovered
    <3>2. j \in 1..generation.size /\ DOMAIN state.equations # {}
      BY <1>6, <1>7, <2>2
    <3>3. generation.chunks[j].size = state.symbolSize
      BY <3>2 DEF GenerationOK
    <3>4. v[j] = generation.chunks[j].value
      BY <1>1, <3>2 DEF TrueFor
    <3>5. new.known[j] \in Payloads /\ generation.chunks[j] \in PayloadChunk /\ new.known[j].value = v[j]
      BY <1>0, <1>5, <3>2, PaddedType
    <3> HIDE DEF new, v
    <3> QED BY <3>1, <3>3, <3>4, <3>5 DEF Payloads, PayloadChunk
  <2> QED BY <2>1, <2>2
<1> HIDE DEF new, v
<1>9. GenerationOK(new, generation)
  BY <1>3, <1>4, <1>6, <1>8 DEF GenerationOK
<1>10. Settled(new)
  BY <1>1, <1>2, SolvedSettled DEF new
<1> QED
  BY <1>3, <1>9, <1>10 DEF new, Recovered, SolverOK

\* The first payload settles the symbol size.
LEMMA SizedOK ==
  ASSUME NEW generation \in Generations, NEW state, GenerationOK(state, generation),
         NEW i \in 1..generation.size, NEW payload, payload.size = generation.chunks[i].size
  PROVE  /\ GenerationOK(WithSymbolSize(state, payload), generation)
         /\ WithSymbolSize(state, payload) \in SolverStates
         /\ WithSymbolSize(state, payload).symbolSize # 0
         /\ \A f \in {"size", "known", "systematic", "equations", "received"} :
               WithSymbolSize(state, payload)[f] = state[f]
<1> DEFINE new == WithSymbolSize(state, payload)
           v == Padded(generation, 0, 0)
<1>0. 0 \in Elements
  BY DEF Elements
<1>1. v \in Vectors /\ TrueFor(v, generation)
  BY <1>0, PaddedType
<1>2. SoundState(state, v) /\ state \in SolverStates /\ state.symbolSize \in Nat
  BY <1>1 DEF GenerationOK, SoundState, SolverStates
<1>3. payload.size \in Nat \ {0}
  BY <1>0, PaddedType DEF PayloadChunk
<1> HIDE DEF v
<1>4. CASE state.symbolSize > 0
  <2>1. new = state
    BY <1>4 DEF WithSymbolSize
  <2> QED BY <1>2, <1>4, <2>1
<1>5. CASE ~(state.symbolSize > 0)
  <2>1. new = [state EXCEPT !.symbolSize = payload.size]
    BY <1>5 DEF WithSymbolSize
  <2>2. new \in SolverStates /\ new.symbolSize = payload.size
    BY <1>2, <1>3, <2>1 DEF SolverStates
  <2>3. /\ new.size = state.size /\ new.known = state.known /\ new.systematic = state.systematic
        /\ new.equations = state.equations /\ new.received = state.received
        /\ new.rank = state.rank
    BY <1>2, <2>1 DEF SolverStates
  <2>4. DOMAIN state.equations = {}
    <3> SUFFICES ASSUME DOMAIN state.equations # {} PROVE FALSE
      OBVIOUS
    <3>1. generation.chunks[i].size = state.symbolSize
      BY DEF GenerationOK
    <3>2. generation.chunks[i].size \in Nat \ {0}
      BY <1>0, PaddedType DEF PayloadChunk
    <3> QED BY <1>5, <3>1, <3>2
  <2> HIDE DEF new
  <2>5. \A u \in Vectors : TrueFor(u, generation) => SoundState(new, u)
    BY <2>2, <2>3 DEF GenerationOK, SoundState
  <2>6. GenerationOK(new, generation)
    BY <2>2, <2>3, <2>4, <2>5 DEF GenerationOK
  <2> QED BY <1>3, <2>2, <2>3, <2>6 DEF new
<1> QED
  BY <1>4, <1>5

\* A symbol as it was sent.
IsSystematic(unit, generation) ==
    unit.index \in 1..generation.size /\ unit.payload = generation.chunks[unit.index]

\* The sizes of the symbols a solver may know fit its equations.
LEMMA Combinable ==
  ASSUME NEW generation \in Generations, NEW state, GenerationOK(state, generation)
  PROVE  ~Uncombinable(state)
<1> SUFFICES ASSUME NEW e \in DOMAIN state.equations,
                    Mixes(state.equations[e], state.known, state.symbolSize)
             PROVE  FALSE
  BY DEF Uncombinable
<1>1. PICK z \in DOMAIN state.known : state.known[z].size # state.symbolSize
  BY DEF Mixes
<1>2. z \in 1..generation.size /\ state.known[z] = generation.chunks[z]
  BY DEF GenerationOK
<1> QED
  BY <1>1, <1>2 DEF GenerationOK

\* A symbol received keeps the solver right and settled, and is never refused.
LEMMA SystematicOK ==
  ASSUME NEW generation \in Generations, NEW state, GenerationOK(state, generation),
         NEW unit, IsSystematic(unit, generation)
  PROVE  /\ SolverOK(IngestSystematic(state, unit), generation)
         /\ IngestSystematic(state, unit).size = state.size
         /\ IngestSystematic(state, unit).systematic = state.systematic \cup {unit.index}
         /\ DOMAIN state.known \cup {unit.index} \subseteq DOMAIN IngestSystematic(state, unit).known
         /\ ~SystematicRaises(state, unit)
<1> DEFINE i == unit.index
           sized == WithSymbolSize(state, unit.payload)
           mid == [sized EXCEPT !.systematic = @ \cup {i}, !.known = With(@, i, unit.payload)]
<1>1. i \in 1..generation.size /\ unit.payload = generation.chunks[i]
  BY DEF IsSystematic
<1>2. /\ GenerationOK(sized, generation) /\ sized \in SolverStates
      /\ sized.size = state.size /\ sized.known = state.known
      /\ sized.systematic = state.systematic
  BY <1>1, SizedOK
<1>3. i \in Sources /\ unit.payload \in PayloadChunk /\ unit.payload \in Payloads
  <2>1. 0 \in Elements
    BY DEF Elements
  <2> QED BY <1>1, <2>1, PaddedType DEF Payloads, PayloadChunk
<1>4. ~SystematicRaises(state, unit)
  <2> SUFFICES ASSUME DOMAIN state.equations # {} PROVE ~SizeMismatch(state, unit.payload)
    BY Combinable DEF SystematicRaises
  <2>1. generation.chunks[i].size = state.symbolSize
    BY <1>1 DEF GenerationOK
  <2> QED BY <1>1, <2>1 DEF SizeMismatch
<1>5. IngestSystematic(state, unit) = Solved(mid)
  BY <1>4 DEF IngestSystematic
<1> DEFINE known == With(sized.known, i, unit.payload)
<1>6. /\ DOMAIN known = DOMAIN sized.known \cup {i}
      /\ known = [z \in DOMAIN sized.known \cup {i} |-> IF z = i THEN unit.payload ELSE sized.known[z]]
  BY DEF With
<1>7. known \in KnownMaps
  <2>1. PICK T \in SUBSET Sources : sized.known \in [T -> Payloads]
    BY <1>2 DEF SolverStates, KnownMaps
  <2>2. DOMAIN known \in SUBSET Sources /\ known \in [DOMAIN known -> Payloads]
    BY <1>3, <1>6, <2>1
  <2> QED BY <2>2 DEF KnownMaps
<1>8. /\ mid \in SolverStates /\ mid.known = known /\ mid.size = sized.size
      /\ mid.systematic = sized.systematic \cup {i} /\ mid.equations = sized.equations
      /\ mid.symbolSize = sized.symbolSize /\ mid.rank = sized.rank
  <2> HIDE DEF sized, known, i
  <2>1. mid = [sized EXCEPT !.systematic = sized.systematic \cup {i}, !.known = known]
    BY <1>2 DEF SolverStates, known
  <2>2. sized.systematic \cup {i} \in SUBSET Sources
    BY <1>2, <1>3 DEF SolverStates
  <2> QED BY <1>2, <1>7, <2>1, <2>2 DEF SolverStates
<1> HIDE DEF sized, mid, known
<1>9. GenerationOK(mid, generation)
  <2>1. ASSUME NEW u \in Vectors, TrueFor(u, generation) PROVE SoundState(mid, u)
    <3>1. SoundState(sized, u)
      BY <1>2, <2>1 DEF GenerationOK
    <3>2. u[i] = unit.payload.value
      BY <1>1, <2>1 DEF TrueFor
    <3>3. Agrees(known, u)
      BY <1>3, <1>6, <3>1, <3>2 DEF Agrees, SoundState
    <3> QED BY <1>6, <1>8, <3>1, <3>3 DEF SoundState
  <2>2. \A z \in DOMAIN known : z \in 1..generation.size /\ known[z] = generation.chunks[z]
    BY <1>1, <1>2, <1>6 DEF GenerationOK
  <2> QED BY <1>2, <1>8, <2>1, <2>2 DEF GenerationOK
<1>10. /\ SolverOK(Solved(mid), generation) /\ Solved(mid).size = mid.size
       /\ Solved(mid).systematic = mid.systematic
       /\ DOMAIN mid.known \subseteq DOMAIN Solved(mid).known
  BY <1>9, SolvedOK
<1> QED
  BY <1>2, <1>4, <1>5, <1>6, <1>8, <1>10

-----------------------------------------------------------------------------
(* Symbols that a settled solver does not know could have another value.     *)

\* One symbol of another value.
Changed(v, p, x) == [i \in Sources |-> IF i = p THEN x ELSE v[i]]

\* A row with symbol p can be made true by a change of that symbol, and only by one
\* of them.
LEMMA DotChanged ==
  ASSUME NEW c \in Vectors, NEW v \in Vectors, NEW p \in Sources, NEW t \in Elements
  PROVE  /\ GfAdd(v[p], t) \in Elements
         /\ Changed(v, p, GfAdd(v[p], t)) \in Vectors
         /\ Dot(c, Changed(v, p, GfAdd(v[p], t))) = GfAdd(Dot(c, v), GfMul(t, c[p]))
<1> DEFINE u == Changed(v, p, GfAdd(v[p], t))
           d == [i \in Sources |-> IF i = p THEN t ELSE 0]
<1>1. v[p] \in Elements /\ c[p] \in Elements /\ 0 \in Elements
  BY DEF Vectors, Elements
<1>2. GfAdd(v[p], t) \in Elements
  BY <1>1, FieldType
<1>3. u \in Vectors /\ d \in Vectors
  BY <1>1, <1>2 DEF Changed, Vectors
<1>4. \A i \in Sources : u[i] = GfAdd(v[i], d[i])
  <2>1. \A i \in Sources : GfAdd(v[i], 0) = v[i]
    BY AddTable DEF Vectors
  <2> QED BY <2>1 DEF Changed
<1>5. \A a \in Vectors : Dot(c, a) = Dot(a, c)
  <2> SUFFICES ASSUME NEW a \in Vectors PROVE Dot(c, a) = Dot(a, c)
    OBVIOUS
  <2>1. \A i \in Sources : GfMul(c[i], a[i]) = GfMul(a[i], c[i])
    BY <1>1, MulLaws DEF Vectors
  <2> QED BY <2>1 DEF Dot
<1>6. Dot(d, c) = GfMul(t, c[p])
  <2> DEFINE w == [i \in Sources |-> GfMul(d[i], c[i])]
  <2>1. \A i \in Sources \ {p} : w[i] = 0
    <3>1. \A i \in Sources : GfMul(0, c[i]) = 0
      BY MulTable DEF Vectors
    <3> QED BY <3>1
  <2>2. w[p] = GfMul(t, c[p]) /\ w[p] \in Elements
    BY <1>1, FieldType
  <2>3. Dot(d, c) = GfSum(Sources, w)
    BY DEF Dot
  <2> HIDE DEF w, d
  <2>4. GfSum(Sources, w) = GfSum({p}, w)
    BY <2>1, SumSupport
  <2>5. GfSum({p}, w) = w[p]
    BY <2>2, SumOne
  <2> QED BY <2>2, <2>3, <2>4, <2>5
<1> HIDE DEF u, d
<1>7. Dot(u, c) = GfAdd(Dot(v, c), Dot(d, c))
  BY <1>3, <1>4, DotAdd
<1> QED
  BY <1>2, <1>3, <1>5, <1>6, <1>7 DEF u

\* A row that stays true when a symbol changes does not hold that symbol.
LEMMA NotInRow ==
  ASSUME NEW row \in Rows, NEW v \in Vectors, NEW p \in Sources,
         Holds(row, v), Holds(row, Changed(v, p, GfAdd(v[p], 1)))
  PROVE  p \notin Support(row)
<1> DEFINE c == row.coefficients
<1>1. 1 \in Elements /\ c \in Vectors
  BY DEF Elements, Rows
<1>2. Dot(c, Changed(v, p, GfAdd(v[p], 1))) = GfAdd(Dot(c, v), GfMul(1, c[p]))
  BY <1>1, DotChanged
<1>3. Dot(c, Changed(v, p, GfAdd(v[p], 1))) = Dot(c, v)
  BY DEF Holds
<1>4. Dot(c, v) \in Elements /\ c[p] \in Elements
  BY <1>1, DotType DEF Vectors
<1>5. GfMul(1, c[p]) = c[p]
  BY <1>4, MulTable
<1> HIDE DEF c
<1>6. \A a \in Elements, b \in Elements : GfAdd(a, b) = a => b = 0
  BY AddTable, Four DEF Elements
<1>7. c[p] = 0
  BY <1>2, <1>3, <1>4, <1>5, <1>6
<1> QED
  BY <1>7 DEF Support, c

\* A row with symbol p is true for some value of it.
LEMMA MadeTrue ==
  ASSUME NEW row \in Rows, NEW v \in Vectors, NEW p \in Support(row)
  PROVE  \E x \in Elements : Changed(v, p, x) \in Vectors /\ Holds(row, Changed(v, p, x))
<1> DEFINE c == row.coefficients
           gap == GfAdd(Dot(c, v), row.rhs)
           t == GfMul(gap, GfInv(c[p]))
<1>1. p \in Sources /\ c[p] # 0 /\ c \in Vectors /\ row.rhs \in Elements
  BY DEF Support, Rows
<1>2. c[p] \in Elements /\ Dot(c, v) \in Elements
  BY <1>1, DotType DEF Vectors
<1> HIDE DEF c
<1>3. GfInv(c[p]) \in Elements /\ GfMul(c[p], GfInv(c[p])) = 1
  BY <1>1, <1>2, InvLaws
<1>4. gap \in Elements
  BY <1>1, <1>2, FieldType
<1> HIDE DEF gap
<1>5. t \in Elements
  BY <1>3, <1>4, FieldType
<1>6. GfMul(t, c[p]) = gap
  <2>1. GfMul(t, c[p]) = GfMul(gap, GfMul(GfInv(c[p]), c[p]))
    BY <1>2, <1>3, <1>4, MulLaws
  <2>2. GfMul(GfInv(c[p]), c[p]) = 1
    BY <1>2, <1>3, MulLaws
  <2>3. GfMul(gap, 1) = gap
    BY <1>4, MulTable
  <2> QED BY <2>1, <2>2, <2>3
<1> HIDE DEF t
<1> DEFINE x == GfAdd(v[p], t)
<1>7. x \in Elements /\ Changed(v, p, x) \in Vectors
      /\ Dot(c, Changed(v, p, x)) = GfAdd(Dot(c, v), gap)
  BY <1>1, <1>5, <1>6, DotChanged
<1>8. GfAdd(Dot(c, v), gap) = row.rhs
  <2>1. \A a \in Elements, b \in Elements : GfAdd(a, GfAdd(a, b)) = b
    BY AddTable, Four
  <2> QED BY <1>1, <1>2, <2>1 DEF gap
<1> HIDE DEF x
<1>9. Holds(row, Changed(v, p, x))
  BY <1>7, <1>8 DEF Holds, c
<1> QED
  BY <1>7, <1>9

\* A row without symbol p does not mind a change of it.
LEMMA StaysTrue ==
  ASSUME NEW row \in Rows, NEW v \in Vectors, NEW p \in Sources, p \notin Support(row),
         NEW x \in Elements
  PROVE  /\ Changed(v, p, x) \in Vectors
         /\ Holds(row, Changed(v, p, x)) <=> Holds(row, v)
<1> DEFINE c == row.coefficients  u == Changed(v, p, x)
<1>1. c \in Vectors /\ c[p] = 0
  BY DEF Support, Rows
<1>2. u \in Vectors /\ u[p] = x /\ \A i \in Sources : i # p => u[i] = v[i]
  BY DEF Changed, Vectors
<1> HIDE DEF c, u
<1>3. \A i \in Sources : GfMul(c[i], u[i]) = GfMul(c[i], v[i])
  <2>1. v[p] \in Elements
    BY DEF Vectors
  <2>2. GfMul(0, x) = 0 /\ GfMul(0, v[p]) = 0
    BY <2>1, MulTable
  <2> QED BY <1>1, <1>2, <2>2
<1>4. Dot(c, u) = Dot(c, v)
  BY <1>3 DEF Dot
<1> QED
  BY <1>2, <1>4 DEF Holds, c, u

\* A row that is true for a generation, whatever is beyond it, is about its symbols.
LEMMA RowInside ==
  ASSUME NEW generation \in Generations, NEW row \in Rows,
         \A v \in Vectors : TrueFor(v, generation) => Holds(row, v)
  PROVE  Support(row) \subseteq 1..generation.size
<1> SUFFICES ASSUME NEW j \in Support(row), j \notin 1..generation.size PROVE FALSE
  OBVIOUS
<1> DEFINE v == Padded(generation, 0, 0)
           u == Changed(v, j, GfAdd(v[j], 1))
<1>1. j \in Sources /\ 0 \in Elements /\ 1 \in Elements
  BY DEF Support, Elements
<1>2. generation.size \in Nat
  BY DEF Generations
<1>3. v \in Vectors /\ TrueFor(v, generation) /\ \A i \in 1..generation.size : i \in Sources
  BY <1>1, <1>2, PaddedType
<1> HIDE DEF v
<1>4. u \in Vectors
  BY <1>1, <1>3, DotChanged
<1>5. TrueFor(u, generation)
  BY <1>3, <1>4 DEF TrueFor, Changed
<1>6. Holds(row, v) /\ Holds(row, u)
  BY <1>3, <1>4, <1>5
<1> QED
  BY <1>1, <1>3, <1>6, NotInRow

\* Every pivot row of a solver is about unknown symbols of its generation.
LEMMA PivotsInside ==
  ASSUME NEW generation \in Generations, NEW state, GenerationOK(state, generation),
         NEW p \in DOMAIN PivotRows(state.equations, state.known)
  PROVE  LET row == PivotRows(state.equations, state.known)[p]
         IN  /\ row \in Rows /\ p \in Support(row)
             /\ \A i \in Support(row) :
                   i \in 1..generation.size /\ i \notin DOMAIN state.known /\ p <= i
<1> DEFINE pivots == PivotRows(state.equations, state.known)
           v == Padded(generation, 0, 0)
<1>1. v \in Vectors /\ TrueFor(v, generation)
  <2>1. 0 \in Elements
    BY DEF Elements
  <2> QED BY <2>1, PaddedType
<1> HIDE DEF v
<1>2. \A u \in Vectors : TrueFor(u, generation) =>
         Agrees(state.known, u) /\ TrueEquations(state.equations, u)
  BY DEF GenerationOK, SoundState
<1>3. \A u \in Vectors : TrueFor(u, generation) => TruePivots(pivots, u)
  BY <1>2, PivotRowsTrue
<1>4. Echelon(pivots, state.known)
  BY <1>1, <1>2, PivotRowsComplete
<1> HIDE DEF pivots
<1>5. p \in DOMAIN pivots
  BY DEF pivots
<1>6. \A u \in Vectors : TrueFor(u, generation) => Holds(pivots[p], u)
  BY <1>3, <1>5 DEF TruePivots
<1>7. pivots[p] \in Rows /\ p \in Sources /\ pivots[p].coefficients[p] = 1
  BY <1>4, <1>5 DEF Echelon
<1>8. Support(pivots[p]) \subseteq 1..generation.size
  BY <1>6, <1>7, RowInside
<1>9. p \in Support(pivots[p])
  BY <1>7 DEF Support
<1> QED
  BY <1>4, <1>5, <1>7, <1>8, <1>9 DEF Echelon, pivots

\* All that the solver holds is true of u.
TrueOf(state, u) == u \in Vectors /\ Agrees(state.known, u) /\ TrueEquations(state.equations, u)

\* What a settled solver does not know is not determined: the pivot rows let its last
\* unknown symbol be chosen, and give the symbols before it.
LEMMA Undetermined ==
  ASSUME NEW generation \in Generations, NEW state, GenerationOK(state, generation), Settled(state),
         NEW i \in 1..generation.size, i \notin DOMAIN state.known
  PROVE  \E v, u : /\ TrueOf(state, v) /\ TrueOf(state, u)
                   /\ \E f \in 1..generation.size : v[f] # u[f]
<1> DEFINE known == state.known
           pivots == PivotRows(state.equations, state.known)
           v == Padded(generation, 0, 0)
           U == {k \in 1..generation.size : k \notin DOMAIN known}
<1>1. v \in Vectors /\ TrueFor(v, generation) /\ \A k \in 1..generation.size : k \in Sources
  <2>1. 0 \in Elements
    BY DEF Elements
  <2> QED BY <2>1, PaddedType
<1> HIDE DEF v
<1>2. TrueOf(state, v) /\ generation.size \in Nat
  BY <1>1 DEF GenerationOK, SoundState, TrueOf, Generations
<1>3. PICK f \in U : \A k \in U : k <= f
  <2>1. IsFiniteSet(1..generation.size) /\ U \in SUBSET (1..generation.size)
    BY <1>2, FS_Interval
  <2>2. IsFiniteSet(U)
    BY <2>1, FS_Subset
  <2>3. U \in SUBSET Nat /\ U # {}
    BY <1>2
  <2> HIDE DEF U
  <2> QED BY <2>2, <2>3, GreatestMember
<1>4. f \in Sources /\ f \in Nat /\ f \notin DOMAIN known /\ f \in 1..generation.size
  BY <1>1, <1>3
<1>5. \A p \in DOMAIN pivots :
         /\ pivots[p] \in Rows /\ p \in Support(pivots[p]) /\ p \in Nat
         /\ \A k \in Support(pivots[p]) : k \in Nat /\ p <= k /\ k <= f /\ k \notin DOMAIN known
  BY <1>2, <1>3, PivotsInside
<1>6. \A p \in DOMAIN pivots, j \in Sources : Support(pivots[p]) # {j}
  BY DEF Settled, NothingGiven
<1>7. /\ Agrees(known, v) /\ TrueEquations(state.equations, v)
      /\ DOMAIN pivots \subseteq Sources
      /\ \A u \in Vectors : Agrees(known, u) /\ TruePivots(pivots, u)
            => TrueEquations(state.equations, u)
  BY <1>1, <1>2, PivotRowsComplete DEF TrueOf, Echelon
<1> HIDE DEF pivots, known, U
<1>8. \A p \in DOMAIN pivots : p < f
  <2> SUFFICES ASSUME NEW p \in DOMAIN pivots, ~(p < f) PROVE FALSE
    OBVIOUS
  <2>1. p = f
    BY <1>4, <1>5
  <2>2. \A k \in Support(pivots[p]) : k = f
    BY <1>4, <1>5, <2>1
  <2>3. Support(pivots[p]) = {f}
    BY <1>5, <2>1, <2>2
  <2> QED BY <1>4, <1>6, <2>3
<1> DEFINE Other(u, k) == /\ u \in Vectors /\ u[f] # v[f]
                          /\ \A j \in DOMAIN known : u[j] = v[j]
                          /\ \A p \in DOMAIN pivots : p >= f - k => Holds(pivots[p], u)
           S == {k \in Nat : \E u : Other(u, k)}
<1>9. 0 \in S
  <2> DEFINE u == Changed(v, f, GfAdd(v[f], 1))
  <2>1. 1 \in Elements /\ v[f] \in Elements
    BY <1>1, <1>4 DEF Elements, Vectors
  <2>2. u \in Vectors
    BY <1>1, <1>4, <2>1, DotChanged
  <2>3. GfAdd(v[f], 1) # v[f]
    BY <2>1, AddTable, Four
  <2>4. u[f] # v[f]
    BY <1>4, <2>3 DEF Changed
  <2>5. \A j \in DOMAIN known : u[j] = v[j]
    BY <1>4, <1>7 DEF Changed, Agrees
  <2> HIDE DEF u
  <2>6. \A p \in DOMAIN pivots : ~(p >= f - 0)
    BY <1>4, <1>5, <1>8
  <2>7. Other(u, 0)
    BY <2>2, <2>4, <2>5, <2>6
  <2> QED BY <2>7
<1>10. ASSUME NEW k \in 0..f - 1, k \in S PROVE k + 1 \in S
  <2>1. PICK u : Other(u, k)
    BY <1>10
  <2>2. /\ u \in Vectors /\ u[f] # v[f] /\ \A j \in DOMAIN known : u[j] = v[j]
        /\ \A p \in DOMAIN pivots : p >= f - k => Holds(pivots[p], u)
    BY <2>1
  <2> DEFINE p == f - (k + 1)
  <2>3. /\ p \in Nat /\ p # f /\ k + 1 \in Nat
        /\ \A q \in Nat : q >= p => q = p \/ q >= f - k
    BY <1>4
  <2> HIDE DEF p
  <2> SUFFICES \E w : Other(w, k + 1)
    BY <2>3
  <2>4. CASE p \notin DOMAIN pivots
    <3>1. \A q \in DOMAIN pivots : q >= p => Holds(pivots[q], u)
      BY <1>5, <2>2, <2>3, <2>4
    <3> QED BY <2>2, <3>1 DEF p
  <2>5. CASE p \in DOMAIN pivots
    <3>1. pivots[p] \in Rows /\ p \in Support(pivots[p]) /\ p \in Sources /\ p \notin DOMAIN known
      BY <1>5, <1>7, <2>5
    <3>2. PICK x \in Elements : Changed(u, p, x) \in Vectors /\ Holds(pivots[p], Changed(u, p, x))
      BY <2>2, <3>1, MadeTrue
    <3> DEFINE w == Changed(u, p, x)
    <3>3. w[f] # v[f] /\ \A j \in DOMAIN known : w[j] = v[j]
      <4>1. \A j \in Sources : j # p => w[j] = u[j]
        BY DEF Changed
      <4>2. \A j \in DOMAIN known : j \in Sources /\ j # p
        BY <1>7, <3>1 DEF Agrees
      <4> HIDE DEF w
      <4> QED BY <1>4, <2>2, <2>3, <4>1, <4>2
    <3>4. ASSUME NEW q \in DOMAIN pivots, q >= p PROVE Holds(pivots[q], w)
      <4>1. CASE q = p
        BY <3>2, <4>1
      <4>2. CASE q # p
        <5>1. Holds(pivots[q], u) /\ pivots[q] \in Rows
          BY <1>5, <2>2, <2>3, <3>4, <4>2
        <5>2. p \notin Support(pivots[q])
          BY <1>5, <2>3, <3>4, <4>2
        <5> QED BY <2>2, <3>1, <5>1, <5>2, StaysTrue
      <4> QED BY <4>1, <4>2
    <3> HIDE DEF w
    <3>5. w \in Vectors
      BY <3>2 DEF w
    <3> QED BY <3>3, <3>4, <3>5 DEF p
  <2> QED BY <2>4, <2>5
<1>11. f \in S
  <2>1. f \in 0..f
    BY <1>4
  <2> HIDE DEF S
  <2>2. 0..f \subseteq S
    BY <1>4, <1>9, <1>10, Upward
  <2> QED BY <2>1, <2>2
<1>12. PICK u : Other(u, f)
  BY <1>11
<1>13. TruePivots(pivots, u)
  <2>1. \A p \in DOMAIN pivots : p >= f - f
    BY <1>4, <1>5
  <2> QED BY <1>5, <1>7, <1>12, <2>1 DEF TruePivots
<1>14. Agrees(known, u)
  BY <1>7, <1>12 DEF Agrees
<1>15. TrueOf(state, u) /\ u[f] # v[f]
  BY <1>7, <1>12, <1>13, <1>14 DEF TrueOf, known
<1> QED
  BY <1>2, <1>4, <1>15

\* The field is finite.
LEMMA ElementsFinite == IsFiniteSet(Elements)
<1>1. Elements \in SUBSET Nat /\ \A a \in Elements : a <= 3
  BY DEF Elements
<1>2. 3 \in Nat
  OBVIOUS
<1> QED
  BY <1>1, <1>2, FS_BoundedSetOfNaturals

\* There are finitely many functions between finite sets: each is a set of pairs.
LEMMA FunctionsFinite ==
  ASSUME NEW S, IsFiniteSet(S), NEW T, IsFiniteSet(T)
  PROVE  IsFiniteSet([S -> T])
<1> DEFINE G == [f \in [S -> T] |-> {<<s, f[s]>> : s \in S}]
<1>1. IsFiniteSet(SUBSET (S \X T))
  <2>1. IsFiniteSet(S \X T)
    BY FS_Product
  <2> QED BY <2>1, FS_SUBSET
<1>2. G \in [[S -> T] -> SUBSET (S \X T)]
  OBVIOUS
<1>3. ASSUME NEW f \in [S -> T], NEW g \in [S -> T], G[f] = G[g]
      PROVE  f = g
  <2>1. \A s \in S : <<s, f[s]>> \in G[g]
    BY <1>3
  <2>2. \A s \in S : f[s] = g[s]
    BY <2>1
  <2> QED BY <2>2
<1> HIDE DEF G
<1>4. G \in Injection([S -> T], SUBSET (S \X T))
  BY <1>2, <1>3 DEF Injection, IsInjective
<1> QED
  BY <1>1, <1>4, FS_Injection

\* Symbols that make true what a solver holds satisfy it.
LEMMA TrueSatisfies ==
  ASSUME NEW generation \in Generations, NEW state, GenerationOK(state, generation),
         NEW u, TrueOf(state, u)
  PROVE  /\ [i \in 1..generation.size |-> u[i]] \in [1..generation.size -> Elements]
         /\ Satisfies([i \in 1..generation.size |-> u[i]], state)
<1> DEFINE n == generation.size
           x == [i \in 1..n |-> u[i]]
           paid == [i \in DOMAIN x |-> [value |-> x[i]]]
<1>1. \A i \in 1..n : i \in Sources
  <2>1. 0 \in Elements
    BY DEF Elements
  <2> QED BY <2>1, PaddedType
<1>2. u \in Vectors /\ Agrees(state.known, u) /\ TrueEquations(state.equations, u)
  BY DEF TrueOf
<1>3. x \in [1..n -> Elements]
  BY <1>1, <1>2 DEF Vectors
<1>4. \A i \in DOMAIN state.known \cap DOMAIN x : x[i] = state.known[i].value
  BY <1>2 DEF Agrees
<1>5. ASSUME NEW e \in DOMAIN state.equations
      PROVE  LET row == state.equations[e]
             IN  Combined(0, row.coefficients, Support(row), paid) = row.rhs
  <2> DEFINE row == state.equations[e]
             c == row.coefficients
             S == Support(row)
             term == [i \in S |-> GfMul(c[i], paid[i].value)]
             full == [i \in Sources |-> GfMul(c[i], u[i])]
  <2>1. \A v \in Vectors : TrueFor(v, generation) => Holds(row, v)
    BY DEF GenerationOK, SoundState, TrueEquations
  <2>2. row \in Rows /\ Holds(row, u)
    BY <1>2 DEF TrueEquations
  <2> HIDE DEF row
  <2>3. S \subseteq 1..n
    <3> HIDE DEF n
    <3> QED BY <2>1, <2>2, RowInside DEF n
  <2>4. \A i \in S : paid[i].value = u[i] /\ i \in Sources
    BY <1>1, <2>3
  <2> HIDE DEF paid
  <2>5. \A i \in S : term[i] = full[i]
    BY <2>4
  <2>6. \A i \in Sources \ S : full[i] = 0
    <3>1. \A i \in Sources : GfMul(0, u[i]) = 0
      BY <1>2, MulTable DEF Vectors
    <3> QED BY <3>1 DEF Support
  <2>7. Dot(c, u) = GfSum(Sources, full)
    BY DEF Dot
  <2>8. S \in SUBSET Sources /\ Combined(0, c, S, paid) = GfAdd(0, GfSum(S, term))
    BY DEF Support, Combined
  <2> HIDE DEF full, term, S
  <2>9. GfSum(Sources, full) = GfSum(S, full)
    BY <2>6, <2>8, SumSupport
  <2>10. GfSum(S, term) = GfSum(S, full)
    BY <2>5, SumSame
  <2>11. Dot(c, u) = row.rhs /\ Dot(c, u) \in Elements
    BY <2>2, DotType DEF Holds
  <2> HIDE DEF c
  <2>12. GfAdd(0, Dot(c, u)) = Dot(c, u)
    BY <2>11, AddTable
  <2> QED BY <2>7, <2>8, <2>9, <2>10, <2>11, <2>12 DEF c, row, S
<1> QED
  BY <1>3, <1>4, <1>5 DEF Satisfies

\* Recovery is complete: if one value only satisfies a settled solver, it knows them all.
LEMMA DeterminedSolved ==
  ASSUME NEW generation \in Generations, NEW state, GenerationOK(state, generation), Settled(state),
         state.size = generation.size,
         Cardinality({x \in [1..state.size -> Elements] : Satisfies(x, state)}) = 1
  PROVE  1..state.size \subseteq DOMAIN state.known
<1> SUFFICES ASSUME NEW i \in 1..generation.size, i \notin DOMAIN state.known PROVE FALSE
  OBVIOUS
<1> DEFINE n == generation.size
           X == {x \in [1..n -> Elements] : Satisfies(x, state)}
<1>1. PICK v, u : /\ TrueOf(state, v) /\ TrueOf(state, u)
                  /\ \E f \in 1..n : v[f] # u[f]
  BY Undetermined
<1> DEFINE x == [k \in 1..n |-> v[k]]
           y == [k \in 1..n |-> u[k]]
<1>2. x \in X
  BY <1>1, TrueSatisfies
<1>3. y \in X
  BY <1>1, TrueSatisfies
<1>4. x # y
  <2>1. PICK f \in 1..n : v[f] # u[f]
    BY <1>1
  <2>2. x[f] # y[f]
    BY <2>1
  <2> QED BY <2>2
<1>5. IsFiniteSet(X)
  <2>1. n \in Int
    BY DEF Generations
  <2> HIDE DEF n
  <2>2. IsFiniteSet([1..n -> Elements])
    <3>1. IsFiniteSet(1..n)
      BY <2>1, FS_Interval
    <3> QED BY <3>1, ElementsFinite, FunctionsFinite
  <2>3. X \in SUBSET [1..n -> Elements]
    OBVIOUS
  <2> HIDE DEF X
  <2> QED BY <2>2, <2>3, FS_Subset
<1>6. Cardinality(X) = 1
  OBVIOUS
<1> HIDE DEF X, x, y
<1>7. PICK z : X = {z}
  BY <1>5, <1>6, FS_Singleton
<1> QED
  BY <1>2, <1>3, <1>4, <1>7

-----------------------------------------------------------------------------
(* Coded units.                                                              *)

\* Division has a quotient and a remainder.
LEMMA Remainders ==
  ASSUME NEW a \in Nat, NEW b \in Nat \ {0}
  PROVE  a % b \in 0..b - 1 /\ a % b \in Nat /\ a \div b \in Nat /\ (a >= b => a \div b # 0)
OBVIOUS

\* The equation of a seed is over symbols of the generation.
LEMMA TermsInside ==
  ASSUME NEW size \in 1..MaxSize, NEW degree \in 1..size, NEW seed \in Nat
  PROVE  /\ Terms(size, seed, degree) \in Vectors
         /\ \A i \in Sources : Terms(size, seed, degree)[i] # 0 => i \in 1..size
<1> DEFINE groups == (size + degree - 1) \div degree
           start == ((seed \div groups) + (seed % groups) * degree) % size
<1>1. size \in Nat \ {0} /\ degree \in Nat \ {0}
  BY MaxSizeAssumption
<1>2. groups \in Nat \ {0}
  <2> DEFINE a == size + degree - 1
  <2>1. a \in Nat /\ a >= degree
    BY <1>1
  <2> HIDE DEF a
  <2>2. a \div degree \in Nat /\ a \div degree # 0
    BY <1>1, <2>1, Remainders
  <2> QED BY <2>2 DEF a
<1> HIDE DEF groups
<1>3. seed \div groups \in Nat /\ seed % groups \in Nat
  BY <1>2, Remainders
<1>4. (seed % groups) * degree \in Nat
  BY <1>1, <1>3
<1>5. start \in Nat
  <2> DEFINE a == (seed \div groups) + (seed % groups) * degree
  <2>1. a \in Nat
    BY <1>3, <1>4
  <2> HIDE DEF a
  <2>2. a % size \in Nat
    BY <1>1, <2>1, Remainders
  <2> QED BY <2>2 DEF a
<1>6. EquationIndices(size, seed, degree) = {((start + k) % size) + 1 : k \in 0..degree - 1}
  BY DEF EquationIndices, groups
<1> HIDE DEF start
<1>7. \A i \in EquationIndices(size, seed, degree) : i \in 1..size
  <2>1. \A k \in 0..degree - 1 : (start + k) % size \in 0..size - 1
    BY <1>1, <1>5, Remainders
  <2>2. \A k \in 0..degree - 1 : ((start + k) % size) + 1 \in 1..size
    BY <1>1, <2>1
  <2> QED BY <1>6, <2>2
<1>8. \A i \in Sources : Coefficient(size, seed, degree, i) \in 1..3
  <2> TAKE i \in Sources
  <2>1. i \in Nat /\ seed * seed \in Nat
    BY MaxSizeAssumption DEF Sources
  <2>2. seed * seed * i \in Nat
    BY <2>1
  <2>3. size + seed * seed * i + degree + i \in Nat
    BY <1>1, <2>1, <2>2
  <2>4. (size + seed * seed * i + degree + i) % 3 \in 0..2
    BY <2>3
  <2> HIDE DEF Coefficient
  <2> QED BY <2>4 DEF Coefficient
<1>9. /\ Terms(size, seed, degree) =
            [i \in Sources |-> IF i \in EquationIndices(size, seed, degree)
                               THEN Coefficient(size, seed, degree, i) ELSE 0]
  BY DEF Terms
<1>10. \A i \in Sources : Terms(size, seed, degree)[i] \in Elements
  BY <1>8, <1>9 DEF Elements
<1> QED
  BY <1>7, <1>9, <1>10 DEF Vectors

\* An equation over the generation's symbols, with their combination for payload.
IsCoded(unit, generation) ==
    /\ unit.equation \in Nat /\ unit.seed \in Nat /\ unit.degree \in 1..generation.size
    /\ unit.payload = CodedPayload(generation, unit.seed, unit.degree)
    /\ \A i \in 1..generation.size : generation.chunks[i].size = generation.chunks[1].size

\* The sender's combination makes the receiver's row true.
LEMMA CodedRow ==
  ASSUME NEW generation \in Generations, NEW unit, IsCoded(unit, generation)
  PROVE  /\ EquationOf(generation.size, unit) \in Rows
         /\ \A v \in Vectors : TrueFor(v, generation) => Holds(EquationOf(generation.size, unit), v)
         /\ Support(EquationOf(generation.size, unit)) \subseteq 1..generation.size
<1> DEFINE c == Terms(generation.size, unit.seed, unit.degree)
           S == {i \in Sources : c[i] # 0}
           term == [i \in S |-> GfMul(c[i], generation.chunks[i].value)]
           total == GfSum(S, term)
<1>1. generation.size \in 1..MaxSize /\ unit.degree \in 1..generation.size /\ unit.seed \in Nat
  BY DEF IsCoded, Generations
<1>2. c \in Vectors /\ \A i \in Sources : c[i] # 0 => i \in 1..generation.size
  BY <1>1, TermsInside
<1>3. EquationOf(generation.size, unit) = [coefficients |-> c, rhs |-> GfAdd(0, total)]
  BY DEF EquationOf, IsCoded, CodedPayload, Combined
<1>4. S \in SUBSET Sources /\ IsFiniteSet(S)
  BY SourcesFinite, FS_Subset
<1> HIDE DEF c
<1>5. total \in Elements
  <2> HIDE DEF S, term
  <2> QED BY <1>4, BitsAreFinite
<1>6. GfAdd(0, total) = total
  BY <1>5, AddTable
<1>7. EquationOf(generation.size, unit) \in Rows
  <2> HIDE DEF total
  <2> QED BY <1>2, <1>3, <1>5, <1>6 DEF Rows
<1>8. ASSUME NEW v \in Vectors, TrueFor(v, generation)
      PROVE  Dot(c, v) = total
  <2> DEFINE full == [i \in Sources |-> GfMul(c[i], v[i])]
  <2>1. \A i \in S : term[i] = full[i]
    BY <1>2, <1>8 DEF TrueFor
  <2>2. \A i \in Sources \ S : full[i] = 0
    BY MulTable DEF Vectors
  <2>3. Dot(c, v) = GfSum(Sources, full)
    BY DEF Dot
  <2> HIDE DEF full, term, S
  <2>4. GfSum(Sources, full) = GfSum(S, full)
    BY <1>4, <2>2, SumSupport
  <2>5. GfSum(S, term) = GfSum(S, full)
    BY <2>1, SumSame
  <2> QED BY <2>3, <2>4, <2>5
<1>9. Support(EquationOf(generation.size, unit)) = S
  <2> HIDE DEF total
  <2> QED BY <1>3 DEF Support
<1> HIDE DEF total
<1> QED
  BY <1>2, <1>3, <1>6, <1>7, <1>8, <1>9 DEF Holds

\* One equation more.
LEMMA EquationAdded ==
  ASSUME NEW v \in Vectors, NEW equations \in EquationMaps, TrueEquations(equations, v),
         NEW id \in Nat, NEW row \in Rows, Holds(row, v)
  PROVE  /\ With(equations, id, row) \in EquationMaps
         /\ TrueEquations(With(equations, id, row), v)
         /\ DOMAIN With(equations, id, row) = DOMAIN equations \cup {id}
         /\ Cardinality(DOMAIN equations) <= Cardinality(DOMAIN With(equations, id, row))
<1> DEFINE new == With(equations, id, row)
<1>1. /\ DOMAIN new = DOMAIN equations \cup {id}
      /\ new = [z \in DOMAIN equations \cup {id} |-> IF z = id THEN row ELSE equations[z]]
  BY DEF With
<1>2. DOMAIN equations \subseteq Nat /\ IsFiniteSet(DOMAIN equations)
  BY DEF TrueEquations
<1>3. DOMAIN new \in SUBSET Nat /\ new \in [DOMAIN new -> Rows]
  BY <1>1, <1>2 DEF TrueEquations
<1>4. new \in EquationMaps
  BY <1>3 DEF EquationMaps
<1>5. IsFiniteSet(DOMAIN new) /\ Cardinality(DOMAIN equations) <= Cardinality(DOMAIN new)
  <2>1. IsFiniteSet(DOMAIN new)
    BY <1>1, <1>2, FS_AddElement
  <2>2. DOMAIN equations \in SUBSET DOMAIN new
    BY <1>1
  <2> HIDE DEF new
  <2> QED BY <2>1, <2>2, FS_Subset
<1>6. \A e \in DOMAIN new : new[e] \in Rows /\ Holds(new[e], v)
  BY <1>1 DEF TrueEquations
<1> HIDE DEF new
<1>7. TrueEquations(new, v)
  BY <1>3, <1>5, <1>6 DEF TrueEquations
<1> QED
  BY <1>1, <1>4, <1>5, <1>7 DEF new

\* So does an equation received, whether it is used, dropped or in conflict.
LEMMA CodedOK ==
  ASSUME NEW generation \in Generations, NEW state, SolverOK(state, generation),
         NEW unit, IsCoded(unit, generation)
  PROVE  /\ SolverOK(IngestCoded(state, generation.size, unit), generation)
         /\ IngestCoded(state, generation.size, unit).size = state.size
         /\ IngestCoded(state, generation.size, unit).systematic = state.systematic
         /\ DOMAIN state.known \subseteq DOMAIN IngestCoded(state, generation.size, unit).known
         /\ ~CodedRaises(state, generation.size, unit)
<1> DEFINE size == generation.size
           row == EquationOf(size, unit)
           seen == [state EXCEPT !.received = @ \cup {unit.equation}]
           sized == WithSymbolSize(seen, unit.payload)
           mid == [sized EXCEPT !.equations = With(@, unit.equation, row)]
<1>0. 0 \in Elements /\ GenerationOK(state, generation)
  BY DEF Elements, SolverOK
<1>1. /\ row \in Rows /\ \A v \in Vectors : TrueFor(v, generation) => Holds(row, v)
      /\ Support(row) \subseteq 1..size
  BY CodedRow
<1>2. /\ unit.equation \in Nat /\ unit.degree \in 1..size
      /\ size \in Nat /\ 1 \in 1..size
      /\ unit.payload.size = generation.chunks[1].size
      /\ \A i \in 1..size : generation.chunks[i].size = unit.payload.size
  BY DEF IsCoded, CodedPayload, Generations
<1>3. unit.payload.size \in Nat \ {0}
  BY <1>0, <1>2, PaddedType DEF PayloadChunk
<1>4. PICK v \in Vectors : TrueFor(v, generation)
  <2>1. Padded(generation, 0, 0) \in Vectors /\ TrueFor(Padded(generation, 0, 0), generation)
    BY <1>0, PaddedType
  <2> QED BY <2>1
<1>5. SoundState(state, v) /\ state \in SolverStates
  BY <1>0, <1>4 DEF GenerationOK, SoundState
<1> HIDE DEF row
<1>6. /\ seen \in SolverStates /\ seen.symbolSize = state.symbolSize /\ seen.known = state.known
      /\ seen.size = state.size /\ seen.systematic = state.systematic
      /\ seen.equations = state.equations /\ seen.rank = state.rank
  BY <1>2, <1>5 DEF SolverStates
<1> HIDE DEF seen
<1>7. GenerationOK(seen, generation)
  <2>1. \A u \in Vectors : TrueFor(u, generation) => SoundState(seen, u)
    BY <1>0, <1>6 DEF GenerationOK, SoundState
  <2> QED BY <1>0, <1>6, <2>1 DEF GenerationOK
<1>8. ~SizeMismatch(state, unit.payload)
  BY <1>0, <1>2 DEF GenerationOK, SizeMismatch
<1>9. /\ GenerationOK(sized, generation) /\ sized \in SolverStates /\ sized.symbolSize # 0
      /\ sized.size = seen.size /\ sized.known = seen.known
      /\ sized.systematic = seen.systematic /\ sized.equations = seen.equations
  BY <1>2, <1>7, SizedOK
<1> DEFINE equations == With(sized.equations, unit.equation, row)
<1> HIDE DEF sized
<1>10. \A u \in Vectors : TrueFor(u, generation) =>
          /\ equations \in EquationMaps /\ TrueEquations(equations, u)
          /\ Cardinality(DOMAIN sized.equations) <= Cardinality(DOMAIN equations)
  <2> SUFFICES ASSUME NEW u \in Vectors, TrueFor(u, generation)
               PROVE  /\ equations \in EquationMaps /\ TrueEquations(equations, u)
                      /\ Cardinality(DOMAIN sized.equations) <= Cardinality(DOMAIN equations)
    OBVIOUS
  <2>1. SoundState(sized, u) /\ sized.equations \in EquationMaps /\ TrueEquations(sized.equations, u)
    BY <1>9 DEF GenerationOK, SoundState, SolverStates
  <2> QED BY <1>1, <1>2, <2>1, EquationAdded
<1>11. equations \in EquationMaps
  BY <1>4, <1>10
<1> HIDE DEF equations
<1>12. mid = [sized EXCEPT !.equations = equations]
  BY <1>9 DEF equations, SolverStates
<1>13. /\ mid \in SolverStates /\ mid.known = sized.known /\ mid.size = sized.size
       /\ mid.systematic = sized.systematic /\ mid.equations = equations
       /\ mid.symbolSize = sized.symbolSize /\ mid.rank = sized.rank
  <2> HIDE DEF mid
  <2> QED BY <1>9, <1>11, <1>12 DEF SolverStates
<1>14. ~Uncombinable(state) /\ ~Mixes(row, state.known, unit.payload.size)
  <2>1. \A i \in DOMAIN state.known : state.known[i].size = unit.payload.size
    BY <1>0, <1>2 DEF GenerationOK
  <2> QED BY <1>0, <2>1, Combinable DEF Mixes
<1>15. IngestCoded(state, size, unit)
         = IF ~Expandable(size, unit.degree) \/ Conflicts(state, row) THEN sized ELSE Solved(mid)
  BY <1>8, <1>14 DEF IngestCoded, row, sized, seen
<1>16. ~CodedRaises(state, size, unit)
  BY <1>14 DEF CodedRaises, row
<1> HIDE DEF mid
<1>17. GenerationOK(mid, generation)
  <2>1. ASSUME NEW u \in Vectors, TrueFor(u, generation) PROVE SoundState(mid, u)
    <3>1. SoundState(sized, u)
      BY <1>9, <2>1 DEF GenerationOK
    <3>2. /\ TrueEquations(equations, u)
          /\ Cardinality(DOMAIN sized.equations) <= Cardinality(DOMAIN equations)
      BY <1>10, <2>1
    <3>3. Cardinality(DOMAIN sized.equations) \in Nat /\ Cardinality(DOMAIN equations) \in Nat
      BY <3>1, <3>2, FS_CardinalityType DEF SoundState, TrueEquations
    <3>4. sized.rank \in Nat /\ sized.rank <= Cardinality(DOMAIN sized.equations)
      BY <3>1 DEF SoundState, SolverStates
    <3>5. sized.rank <= Cardinality(DOMAIN equations)
      BY <3>2, <3>3, <3>4
    <3> QED BY <1>13, <3>1, <3>2, <3>5 DEF SoundState
  <2>2. \A i \in 1..size : generation.chunks[i].size = sized.symbolSize
    BY <1>2, <1>9 DEF GenerationOK
  <2> HIDE DEF size
  <2> QED BY <1>9, <1>13, <2>1, <2>2 DEF GenerationOK, size
<1>18. /\ SolverOK(Solved(mid), generation) /\ Solved(mid).size = mid.size
       /\ Solved(mid).systematic = mid.systematic
       /\ DOMAIN mid.known \subseteq DOMAIN Solved(mid).known
  BY <1>17, SolvedOK
<1>19. SolverOK(sized, generation)
  BY <1>6, <1>9 DEF SolverOK, Settled
<1> QED
  BY <1>6, <1>9, <1>13, <1>15, <1>16, <1>18, <1>19

-----------------------------------------------------------------------------
(* What the sender shows.                                                    *)

\* The smaller of two numbers (Min of the community modules).
LEMMA MinOfTwo ==
  ASSUME NEW a \in Int, NEW b \in Int
  PROVE  Min({a, b}) = IF a <= b THEN a ELSE b
<1>1. \E x \in {a, b} : \A y \in {a, b} : x <= y
  OBVIOUS
<1> QED BY <1>1 DEF Min

\* The number of generations of a payload, and where each begins.
LEMMA CountOfGenerations ==
  ASSUME NEW total \in Nat \ {0}, NEW window \in Nat \ {0}
  PROVE  LET count == (total + window - 1) \div window
         IN  /\ count \in Nat \ {0}
             /\ total <= window => count = 1
             /\ \A g \in 1..count : (g - 1) * window \in Nat /\ (g - 1) * window < total
<1> DEFINE a == total + window - 1
           count == a \div window
<1>1. a \in Nat /\ a >= window
  OBVIOUS
<1>2. a = total + window - 1
  OBVIOUS
<1> HIDE DEF a
<1>3. count \in Nat /\ count # 0
  BY <1>1, Remainders
<1>4. count * window <= a /\ a < (count + 1) * window
  BY <1>1
<1> HIDE DEF count
<1>5. total <= window => count = 1
  <2> SUFFICES ASSUME total <= window, count >= 2 PROVE FALSE
    BY <1>3
  <2>1. a < 2 * window
    BY <1>2
  <2>2. count * window >= 2 * window
    BY <1>3
  <2>3. count * window \in Nat
    BY <1>3
  <2> QED BY <1>1, <1>4, <2>1, <2>2, <2>3
<1>6. ASSUME NEW g \in 1..count PROVE (g - 1) * window \in Nat /\ (g - 1) * window < total
  <2>1. g \in Nat /\ g - 1 \in Nat
    BY <1>3
  <2>2. g * window <= count * window
    BY <1>3, <2>1
  <2>3. (g - 1) * window = g * window - window
    BY <2>1
  <2>4. g * window \in Nat /\ count * window \in Nat /\ (g - 1) * window \in Nat
    BY <1>3, <2>1
  <2> QED BY <1>2, <1>4, <2>2, <2>3, <2>4
<1> QED
  BY <1>3, <1>5, <1>6 DEF count, a

\* The windows do not leave the payload, and their chunks are the payload's.
LEMMA GenerationsOfPlan ==
  ASSUME NEW plan \in Plans
  PROVE  LET gs == GenerationPlans(plan)
         IN  /\ Len(gs) \in Nat \ {0} /\ DOMAIN gs = 1..Len(gs)
             /\ OneGeneration(plan) =>
                   Len(gs) = 1 /\ gs[1].base = 1 /\ gs[1].size = Len(plan.payload)
             /\ \A g \in 1..Len(gs) :
                   /\ gs[g] \in Generations /\ gs[g].id = g - 1 /\ gs[g].size \in 1..MaxSize
                   /\ gs[g].chunks \in Seq(PayloadChunk) /\ Len(gs[g].chunks) = gs[g].size
                   /\ \A i \in 1..gs[g].size :
                         /\ gs[g].base + i - 1 \in 1..Len(plan.payload)
                         /\ gs[g].chunks[i] = plan.payload[gs[g].base + i - 1]
<1> DEFINE total == Len(plan.payload)
           window == plan.window
           count == (total + window - 1) \div window
           gs == GenerationPlans(plan)
<1>1. /\ plan.payload \in Seq(PayloadChunk) /\ total \in Nat \ {0}
      /\ \A c \in 1..total : plan.payload[c] \in PayloadChunk
      /\ window \in Nat \ {0} /\ window <= MaxSize
  <2>1. plan.payload \in Seq(PayloadChunk) /\ plan.payload # <<>> /\ window \in 1..MaxSize
    BY DEF Plans
  <2>2. total \in Nat /\ total # 0
    BY <2>1, EmptySeq
  <2>3. \A c \in 1..total : plan.payload[c] \in PayloadChunk
    BY <2>1, ElementOfSeq
  <2> QED BY <2>1, <2>2, <2>3, MaxSizeAssumption
<1>2. /\ count \in Nat \ {0}
      /\ total <= window => count = 1
      /\ \A g \in 1..count : (g - 1) * window \in Nat /\ (g - 1) * window < total
  BY <1>1, CountOfGenerations
<1> DEFINE start(g) == (g - 1) * window
           last(g) == Min({start(g) + window, total})
           chunks(g) == SubSeq(plan.payload, start(g) + 1, last(g))
           planned(g) == [id |-> g - 1, size |-> Len(chunks(g)), base |-> start(g) + 1,
                          chunks |-> chunks(g)]
<1>3. gs = [g \in 1..count |-> planned(g)]
  BY DEF GenerationPlans
<1>4. DOMAIN gs = 1..count /\ \A g \in 1..count : gs[g] = planned(g)
  <2> HIDE DEF gs, planned, count
  <2> QED BY <1>3
<1>5. Len(gs) = count
  <2> HIDE DEF gs, planned, count
  <2>1. \A g \in 1..count : gs[g] \in {gs[h] : h \in 1..count}
    OBVIOUS
  <2>2. gs \in [1..count -> {gs[h] : h \in 1..count}]
    BY <1>3, <1>4
  <2>3. gs \in Seq({gs[h] : h \in 1..count})
    BY <1>2, <2>2, SeqDef
  <2>4. DOMAIN gs = 1..Len(gs) /\ Len(gs) \in Nat
    BY <2>3, LenProperties
  <2> QED BY <1>2, <1>4, <2>4
<1>6. ASSUME NEW g \in 1..count
      PROVE  /\ start(g) \in Nat /\ start(g) < total /\ last(g) \in Nat
             /\ last(g) = IF start(g) + window <= total THEN start(g) + window ELSE total
  <2>1. start(g) \in Nat /\ start(g) < total
    BY <1>2
  <2> HIDE DEF start
  <2>2. start(g) + window \in Int /\ total \in Int
    BY <1>1, <2>1
  <2>3. last(g) = IF start(g) + window <= total THEN start(g) + window ELSE total
    BY <2>2, MinOfTwo
  <2> QED BY <1>1, <2>1, <2>3
<1> HIDE DEF gs, count, window, total
<1>7. ASSUME NEW g \in 1..count
      PROVE  /\ chunks(g) \in Seq(PayloadChunk) /\ Len(chunks(g)) = last(g) - start(g)
             /\ Len(chunks(g)) \in 1..MaxSize
             /\ \A i \in 1..Len(chunks(g)) :
                   start(g) + i \in 1..total /\ chunks(g)[i] = plan.payload[start(g) + i]
  <2>1. start(g) \in Nat /\ start(g) < total /\ last(g) \in Nat
        /\ last(g) = IF start(g) + window <= total THEN start(g) + window ELSE total
    BY <1>6
  <2>2. last(g) - start(g) \in 1..MaxSize /\ last(g) <= total
    BY <1>1, <2>1, MaxSizeAssumption
  <2> HIDE DEF start, last
  <2>3. \A i \in start(g) + 1..last(g) : plan.payload[i] \in PayloadChunk
    BY <1>1, <2>1, <2>2
  <2>4. /\ chunks(g) \in Seq(PayloadChunk)
        /\ Len(chunks(g)) = IF start(g) + 1 <= last(g) THEN last(g) - (start(g) + 1) + 1 ELSE 0
        /\ \A i \in 1..last(g) - (start(g) + 1) + 1 :
              chunks(g)[i] = plan.payload[(start(g) + 1) + i - 1]
    <3>1. start(g) + 1 \in Int /\ last(g) \in Int
      BY <2>1
    <3> QED BY <2>3, <3>1, SubSeqProperties
  <2> HIDE DEF chunks
  <2>5. Len(chunks(g)) = last(g) - start(g)
    BY <2>1, <2>2, <2>4
  <2>6. ASSUME NEW i \in 1..Len(chunks(g))
        PROVE  start(g) + i \in 1..total /\ chunks(g)[i] = plan.payload[start(g) + i]
    <3>1. i \in Nat /\ i >= 1 /\ i <= last(g) - start(g)
      BY <2>1, <2>2, <2>5
    <3>2. (start(g) + 1) + i - 1 = start(g) + i /\ i \in 1..last(g) - (start(g) + 1) + 1
      BY <2>1, <3>1
    <3>3. start(g) + i \in 1..total
      BY <1>1, <2>1, <2>2, <3>1
    <3> QED BY <2>4, <3>2, <3>3
  <2> QED BY <2>2, <2>4, <2>5, <2>6
<1>8. ASSUME NEW g \in 1..count
      PROVE  /\ gs[g] \in Generations /\ gs[g].id = g - 1 /\ gs[g].size \in 1..MaxSize
             /\ gs[g].chunks \in Seq(PayloadChunk) /\ Len(gs[g].chunks) = gs[g].size
             /\ \A i \in 1..gs[g].size :
                   /\ gs[g].base + i - 1 \in 1..total
                   /\ gs[g].chunks[i] = plan.payload[gs[g].base + i - 1]
  <2>2. start(g) \in Nat /\ g - 1 \in Nat
    BY <1>2, <1>6
  <2>3. gs[g] = [id |-> g - 1, size |-> Len(chunks(g)), base |-> start(g) + 1, chunks |-> chunks(g)]
    BY <1>4
  <2> HIDE DEF start, chunks, planned
  <2>1. gs[g].id = g - 1 /\ gs[g].size = Len(chunks(g)) /\ gs[g].base = start(g) + 1
        /\ gs[g].chunks = chunks(g)
    BY <2>3
  <2>4. /\ chunks(g) \in Seq(PayloadChunk) /\ Len(chunks(g)) \in 1..MaxSize
        /\ \A i \in 1..Len(chunks(g)) :
              start(g) + i \in 1..total /\ chunks(g)[i] = plan.payload[start(g) + i]
    BY <1>7
  <2>5. chunks(g) \in [1..Len(chunks(g)) -> PayloadChunk]
    BY <2>4, LenProperties
  <2>6. gs[g] \in Generations
    <3>1. Len(chunks(g)) \in 0..MaxSize /\ start(g) + 1 \in Nat \ {0}
      BY <2>2, <2>4, MaxSizeAssumption
    <3> QED BY <2>2, <2>3, <2>5, <3>1 DEF Generations
  <2>7. ASSUME NEW i \in 1..gs[g].size
        PROVE  gs[g].base + i - 1 \in 1..total /\ gs[g].chunks[i] = plan.payload[gs[g].base + i - 1]
    <3>1. gs[g].base + i - 1 = start(g) + i
      BY <2>1, <2>2, <2>4, MaxSizeAssumption
    <3> QED BY <2>1, <2>4, <3>1
  <2> QED BY <2>1, <2>4, <2>6, <2>7
<1>9. ASSUME OneGeneration(plan)
      PROVE  count = 1 /\ gs[1].base = 1 /\ gs[1].size = total
  <2>1. total <= window
    BY <1>9 DEF OneGeneration, total, window
  <2>2. count = 1 /\ 1 \in 1..count
    BY <1>2, <2>1
  <2>3. start(1) = 0
    BY <1>1
  <2>4. last(1) = total
    BY <1>1, <1>6, <2>1, <2>2, <2>3
  <2> QED BY <1>1, <1>4, <1>7, <2>2, <2>3, <2>4
<1> QED
  BY <1>2, <1>4, <1>5, <1>8, <1>9 DEF gs, total

\* What the units of a generation carry.
UnitOf(unit, generation) ==
    \/ /\ unit.kind = "systematic" /\ IsSystematic(unit, generation)
       /\ unit.chunk = generation.base + unit.index - 1
    \/ unit.kind = "coded" /\ IsCoded(unit, generation)

\* Coded units only of chunks of one size.
LEMMA OneSize ==
  ASSUME NEW generation, generation.size \in Nat \ {0},
         generation.chunks \in Seq(PayloadChunk), Len(generation.chunks) = generation.size,
         SupportsCodedUnits(generation)
  PROVE  \A i \in 1..generation.size : generation.chunks[i].size = generation.chunks[1].size
<1> DEFINE size == generation.size
           sizes == [i \in 1..size |-> generation.chunks[i].size]
           S == {c.size : c \in Range(generation.chunks)}
<1>1. DOMAIN generation.chunks = 1..size
  BY LenProperties
<1>2. S = {sizes[i] : i \in 1..size}
  BY <1>1 DEF Range
<1>3. IsFiniteSet(1..size) /\ 1 \in 1..size
  BY FS_Interval
<1>4. IsFiniteSet(S)
  <2>1. sizes \in Surjection(1..size, S)
    <3>1. DOMAIN sizes = 1..size /\ sizes = [i \in 1..size |-> sizes[i]]
      OBVIOUS
    <3> HIDE DEF sizes, S, size
    <3>2. sizes \in [1..size -> S] /\ \A t \in S : \E i \in 1..size : sizes[i] = t
      BY <1>2, <3>1
    <3> QED BY <3>2 DEF Surjection
  <2> HIDE DEF sizes, S
  <2> QED BY <1>3, <2>1, FS_Surjection
<1>5. Cardinality(S) = 1
  BY DEF SupportsCodedUnits
<1> HIDE DEF S
<1>6. PICK x : S = {x}
  BY <1>4, <1>5, FS_Singleton
<1>7. \A i \in 1..size : generation.chunks[i].size \in S
  BY <1>2
<1> QED
  BY <1>3, <1>6, <1>7

\* The coded units of a generation are equations over its symbols.
LEMMA CodedUnitsType ==
  ASSUME NEW plan \in Plans, NEW g \in 1..Len(GenerationPlans(plan))
  PROVE  LET generation == GenerationPlans(plan)[g]
         IN  /\ CodedUnitCount(plan, generation) \in Nat
             /\ \A e \in 1..CodedUnitCount(plan, generation) :
                   UnitOf(CodedUnits(plan, generation)[e], generation)
<1> DEFINE generation == GenerationPlans(plan)[g]
           count == CodedUnitCount(plan, generation)
           degree == Min({plan.degree, generation.size})
<1>1. /\ generation \in Generations /\ generation.size \in 1..MaxSize
      /\ generation.chunks \in Seq(PayloadChunk) /\ Len(generation.chunks) = generation.size
  BY GenerationsOfPlan
<1> HIDE DEF generation
<1>2. plan.redundancy \in Nat /\ plan.degree \in Nat /\ (plan.redundancy > 0 => plan.degree > 0)
  BY DEF Plans
<1>3. count \in Nat
  BY <1>2 DEF CodedUnitCount
<1>4. ASSUME NEW e \in 1..count
      PROVE  UnitOf(CodedUnits(plan, generation)[e], generation)
  <2>1. plan.redundancy > 0 /\ SupportsCodedUnits(generation)
    BY <1>3 DEF CodedUnitCount
  <2>2. \A i \in 1..generation.size : generation.chunks[i].size = generation.chunks[1].size
    BY <1>1, <2>1, OneSize, MaxSizeAssumption
  <2>3. degree = IF plan.degree <= generation.size THEN plan.degree ELSE generation.size
    BY <1>1, <1>2, MinOfTwo, MaxSizeAssumption
  <2>4. degree \in 1..generation.size
    BY <1>1, <1>2, <2>1, <2>3, MaxSizeAssumption
  <2>5. e - 1 \in Nat
    BY <1>3
  <2> DEFINE unit == [kind |-> "coded", equation |-> e - 1, seed |-> e - 1, degree |-> degree,
                      payload |-> CodedPayload(generation, e - 1, degree)]
  <2>6. CodedUnits(plan, generation)[e] = unit
    BY DEF CodedUnits
  <2> HIDE DEF degree
  <2>7. /\ unit.kind = "coded" /\ unit.equation = e - 1 /\ unit.seed = e - 1
        /\ unit.degree = degree /\ unit.payload = CodedPayload(generation, e - 1, degree)
    OBVIOUS
  <2> HIDE DEF unit
  <2> QED BY <2>2, <2>4, <2>5, <2>6, <2>7 DEF UnitOf, IsCoded
<1> QED
  BY <1>3, <1>4 DEF generation

\* A generation is announced and then shown: its symbols, all of them, and its
\* equations.
LEMMA GenerationFramesType ==
  ASSUME NEW plan \in Plans, NEW g \in 1..Len(GenerationPlans(plan))
  PROVE  LET generation == GenerationPlans(plan)[g]
             frames == GenerationFrames(plan, generation)
         IN  /\ Len(frames) \in Nat \ {0} /\ frames \in Seq({frames[k] : k \in 1..Len(frames)})
             /\ frames[1] = GenerationControl(plan, generation)
             /\ \A k \in 2..Len(frames) : UnitOf(frames[k], generation)
             /\ \A i \in 1..generation.size : \E k \in 2..Len(frames) :
                   frames[k] = SystematicUnits(generation)[i]
<1> DEFINE generation == GenerationPlans(plan)[g]
           control == GenerationControl(plan, generation)
           units == SystematicUnits(generation)
           coded == CodedUnits(plan, generation)
           count == CodedUnitCount(plan, generation)
           size == generation.size
           frames == GenerationFrames(plan, generation)
           S == {control} \cup {units[i] : i \in 1..size} \cup {coded[e] : e \in 1..count}
<1>1. generation \in Generations /\ size \in Nat
  BY GenerationsOfPlan, MaxSizeAssumption
<1>2. count \in Nat /\ \A e \in 1..count : UnitOf(coded[e], generation)
  BY CodedUnitsType
<1> HIDE DEF generation
<1>3. \A i \in 1..size : UnitOf(units[i], generation)
  BY DEF SystematicUnits, UnitOf, IsSystematic
<1>4. DOMAIN units = 1..size /\ DOMAIN coded = 1..count
      /\ units = [i \in 1..size |-> units[i]] /\ coded = [e \in 1..count |-> coded[e]]
  BY DEF SystematicUnits, CodedUnits
<1>5. frames = <<control>> \o units \o coded
  BY DEF GenerationFrames
<1> HIDE DEF units, coded, control, size, count, frames
<1>6. units \in Seq(S) /\ Len(units) = size
  <2>1. units \in [1..size -> S]
    BY <1>4
  <2>2. units \in Seq(S)
    BY <1>1, <2>1, SeqDef
  <2>3. DOMAIN units = 1..Len(units) /\ Len(units) \in Nat
    BY <2>2, LenProperties
  <2> QED BY <1>1, <1>4, <2>2, <2>3
<1>7. coded \in Seq(S) /\ Len(coded) = count
  <2>1. coded \in [1..count -> S]
    BY <1>4
  <2>2. coded \in Seq(S)
    BY <1>2, <2>1, SeqDef
  <2>3. DOMAIN coded = 1..Len(coded) /\ Len(coded) \in Nat
    BY <2>2, LenProperties
  <2> QED BY <1>2, <1>4, <2>2, <2>3
<1>8. <<control>> \in Seq(S) /\ Len(<<control>>) = 1 /\ <<control>>[1] = control
  OBVIOUS
<1> HIDE DEF S
<1> DEFINE head == <<control>> \o units
<1>9. /\ head \in Seq(S) /\ Len(head) = 1 + size
      /\ \A k \in 1..1 + size : head[k] = IF k <= 1 THEN <<control>>[k] ELSE units[k - 1]
  BY <1>6, <1>8, ConcatProperties
<1> HIDE DEF head
<1>10. /\ frames \in Seq(S) /\ Len(frames) = 1 + size + count
       /\ \A k \in 1..1 + size + count :
             frames[k] = IF k <= 1 + size THEN head[k] ELSE coded[k - (1 + size)]
  BY <1>5, <1>7, <1>9, ConcatProperties DEF head
<1>11. frames[1] = control
  BY <1>1, <1>2, <1>8, <1>9, <1>10
<1>12. ASSUME NEW k \in 2..Len(frames) PROVE UnitOf(frames[k], generation)
  <2>1. k \in 1..1 + size + count /\ k >= 2
    BY <1>1, <1>2, <1>10
  <2>2. CASE k <= 1 + size
    <3>1. k \in 1..1 + size /\ k - 1 \in 1..size
      BY <1>1, <2>1, <2>2
    <3>2. frames[k] = units[k - 1]
      BY <1>9, <1>10, <2>1, <2>2, <3>1
    <3> QED BY <1>3, <3>1, <3>2 DEF size
  <2>3. CASE ~(k <= 1 + size)
    <3>1. k - (1 + size) \in 1..count
      BY <1>1, <1>2, <2>1, <2>3
    <3>2. frames[k] = coded[k - (1 + size)]
      BY <1>10, <2>1, <2>3
    <3> QED BY <1>2, <3>1, <3>2
  <2> QED BY <2>2, <2>3
<1>13. ASSUME NEW i \in 1..size PROVE \E k \in 2..Len(frames) : frames[k] = units[i]
  <2>1. i + 1 \in 2..Len(frames) /\ i + 1 \in 1..1 + size /\ (i + 1) - 1 = i
        /\ i + 1 \in 1..1 + size + count /\ i + 1 <= 1 + size /\ ~(i + 1 <= 1)
    BY <1>1, <1>2, <1>10
  <2>2. frames[i + 1] = units[i]
    BY <1>9, <1>10, <2>1
  <2> QED BY <2>1, <2>2
<1>14. frames \in Seq({frames[k] : k \in 1..Len(frames)})
  <2>1. frames \in [1..Len(frames) -> S] /\ Len(frames) \in Nat
    BY <1>10, LenProperties
  <2>2. frames \in [1..Len(frames) -> {frames[k] : k \in 1..Len(frames)}]
    BY <2>1
  <2> QED BY <2>1, <2>2, SeqDef
<1>15. Len(frames) \in Nat \ {0}
  BY <1>1, <1>2, <1>10
<1> QED
  BY <1>11, <1>12, <1>13, <1>14, <1>15 DEF generation, frames, control, size, units

\* owner[p] is the generation, from 1, that the frame at p belongs to: it is the
\* control of that generation, or a unit that follows another frame of it.
Owned(shown, plan, owner) ==
    /\ Len(shown) >= 1 /\ shown[1] = Manifest(plan)
    /\ \A p \in 2..Len(shown) :
          /\ owner[p] \in 1..Len(GenerationPlans(plan))
          /\ \/ shown[p] = GenerationControl(plan, GenerationPlans(plan)[owner[p]])
             \/ /\ UnitOf(shown[p], GenerationPlans(plan)[owner[p]])
                /\ p > 2 /\ owner[p - 1] = owner[p]

Shown(shown, plan) == \E owner : Owned(shown, plan, owner)

FramesOf(plan, g) ==
    LET frames == GenerationFrames(plan, GenerationPlans(plan)[g])
    IN  {frames[k] : k \in 1..Len(frames)}

AllFrames(plan) ==
    {Manifest(plan)} \cup UNION {FramesOf(plan, g) : g \in 1..Len(GenerationPlans(plan))}

\* One generation more.
LEMMA ShownGrows ==
  ASSUME NEW plan \in Plans, NEW g \in 1..Len(GenerationPlans(plan)),
         NEW shown \in Seq(AllFrames(plan)), Shown(shown, plan)
  PROVE  LET frames == GenerationFrames(plan, GenerationPlans(plan)[g])
         IN  /\ shown \o frames \in Seq(AllFrames(plan)) /\ Shown(shown \o frames, plan)
             /\ Len(shown \o frames) = Len(shown) + Len(frames)
             /\ \A p \in 1..Len(shown) : (shown \o frames)[p] = shown[p]
             /\ \A k \in 1..Len(frames) : (shown \o frames)[Len(shown) + k] = frames[k]
<1> DEFINE frames == GenerationFrames(plan, GenerationPlans(plan)[g])
           longer == shown \o frames
           n == Len(shown)
           m == Len(frames)
<1>1. /\ m \in Nat \ {0} /\ frames \in Seq(FramesOf(plan, g))
      /\ frames[1] = GenerationControl(plan, GenerationPlans(plan)[g])
      /\ \A k \in 2..m : UnitOf(frames[k], GenerationPlans(plan)[g])
  BY GenerationFramesType DEF FramesOf
<1>2. frames \in Seq(AllFrames(plan))
  <2>1. FramesOf(plan, g) \subseteq AllFrames(plan)
    BY DEF AllFrames
  <2> HIDE DEF frames
  <2> QED BY <1>1, <2>1, SeqMonotonic
<1>3. n \in Nat /\ n >= 1
  BY LenProperties DEF Shown, Owned
<1> HIDE DEF frames
<1>4. /\ longer \in Seq(AllFrames(plan)) /\ Len(longer) = n + m
      /\ \A i \in 1..n + m : longer[i] = IF i <= n THEN shown[i] ELSE frames[i - n]
  BY <1>2, ConcatProperties
<1>5. PICK owner : Owned(shown, plan, owner)
  BY DEF Shown
<1> HIDE DEF longer, n, m
<1>6. /\ \A p \in 1..n : longer[p] = shown[p]
      /\ \A k \in 1..m : longer[n + k] = frames[k]
  <2>1. ASSUME NEW p \in 1..n PROVE longer[p] = shown[p]
    <3>1. p \in 1..n + m /\ p <= n
      BY <1>1, <1>3
    <3> QED BY <1>4, <3>1
  <2>2. ASSUME NEW k \in 1..m PROVE longer[n + k] = frames[k]
    <3>1. n + k \in 1..n + m /\ ~(n + k <= n) /\ (n + k) - n = k
      BY <1>1, <1>3
    <3> QED BY <1>4, <3>1
  <2> QED BY <2>1, <2>2
<1> DEFINE next == [p \in 1..n + m |-> IF p <= n THEN owner[p] ELSE g]
<1>7. Owned(longer, plan, next)
  <2>1. Len(longer) >= 1 /\ 1 \in 1..n
    BY <1>1, <1>3, <1>4
  <2>2. longer[1] = Manifest(plan)
    BY <1>5, <1>6, <2>1 DEF Owned
  <2>3. ASSUME NEW p \in 2..Len(longer)
        PROVE  /\ next[p] \in 1..Len(GenerationPlans(plan))
               /\ \/ longer[p] = GenerationControl(plan, GenerationPlans(plan)[next[p]])
                  \/ /\ UnitOf(longer[p], GenerationPlans(plan)[next[p]])
                     /\ p > 2 /\ next[p - 1] = next[p]
    <3>1. p \in 1..n + m /\ p >= 2 /\ p - 1 \in 1..n + m
      BY <1>1, <1>3, <1>4
    <3>2. CASE p <= n
      <4>1. p \in 2..n /\ p \in 1..n /\ p - 1 <= n
        BY <1>3, <3>1, <3>2
      <4>2. next[p] = owner[p] /\ next[p - 1] = owner[p - 1] /\ longer[p] = shown[p]
        BY <1>6, <3>1, <3>2, <4>1
      <4> HIDE DEF next
      <4> QED BY <1>5, <4>1, <4>2 DEF Owned, n
    <3>3. CASE ~(p <= n)
      <4>1. p - n \in 1..m /\ n + (p - n) = p
        BY <1>1, <1>3, <3>1, <3>3
      <4>2. longer[p] = frames[p - n] /\ next[p] = g
        BY <1>6, <3>1, <3>3, <4>1
      <4>3. CASE p - n = 1
        BY <1>1, <4>2, <4>3
      <4>4. CASE p - n # 1
        <5>1. p - n \in 2..m /\ p > 2 /\ ~(p - 1 <= n)
          BY <1>1, <1>3, <3>1, <4>1, <4>4
        <5>2. next[p - 1] = g
          BY <3>1, <5>1
        <5> HIDE DEF next
        <5> QED BY <1>1, <4>2, <5>1, <5>2
      <4> QED BY <4>3, <4>4
    <3> QED BY <3>2, <3>3
  <2> HIDE DEF next
  <2> QED BY <2>1, <2>2, <2>3 DEF Owned
<1>8. Shown(longer, plan)
  <2> HIDE DEF next
  <2> QED BY <1>7 DEF Shown
<1> QED
  BY <1>4, <1>6, <1>8 DEF longer, frames, n, m

\* Everything but the end frame, generation after generation.
LEMMA EpochRun ==
  ASSUME NEW plan \in Plans
  PROVE  LET n == Len(GenerationPlans(plan))
         IN  \E after \in [0..n -> Seq(AllFrames(plan))] :
                /\ \A k \in 0..n : Shown(after[k], plan)
                /\ \A k \in 1..n :
                      after[k] = after[k - 1] \o GenerationFrames(plan, GenerationPlans(plan)[k])
                /\ Epoch(plan) = after[n] \o <<[kind |-> "end"]>>
<1> DEFINE n == Len(GenerationPlans(plan))
           start == <<Manifest(plan)>>
           D == {s \in Seq(AllFrames(plan)) : Shown(s, plan)}
           Step(s, k) == s \o GenerationFrames(plan, GenerationPlans(plan)[k])
           F == [x \in D \X (1..n) |-> Step(x[1], x[2])]
           Run(after) == after = [k \in 0..n |-> IF k = 0 THEN start ELSE Step(after[k - 1], k)]
           chosen == CHOOSE after : Run(after)
<1>1. n \in Nat
  BY GenerationsOfPlan
<1>2. start \in D
  <2>1. Manifest(plan) \in AllFrames(plan)
    BY DEF AllFrames
  <2> DEFINE S == AllFrames(plan)  m == Manifest(plan)
  <2>2. m \in S
    BY <2>1
  <2> HIDE DEF S, m
  <2>3. <<m>> \in Seq(S) /\ Len(<<m>>) = 1 /\ <<m>>[1] = m
    BY <2>2
  <2>4. Len(start) = 1 /\ start[1] = Manifest(plan) /\ start \in Seq(AllFrames(plan))
    BY <2>3 DEF m, S
  <2> HIDE DEF start
  <2>5. Owned(start, plan, <<>>)
    BY <2>4 DEF Owned
  <2> QED BY <2>4, <2>5 DEF Shown
<1>3. \A a \in D, k \in 1..n : Step(a, k) \in D
  BY ShownGrows
<1>4. \A a \in D, k \in 1..n : F[<<a, k>>] = Step(a, k)
  <2> HIDE DEF n, D
  <2> QED OBVIOUS
<1>5. Epoch(plan) = chosen[n] \o <<[kind |-> "end"]>>
  BY DEF Epoch, Repeated
<1> HIDE DEF n, D, Step, F, start
<1>6. \E after : Run(after)
  <2>1. Stays(D, n, F)
    BY <1>3, <1>4 DEF Stays
  <2>2. PICK after \in [0..n -> D] : IsRun(after, n, start, F)
    BY <1>1, <1>2, <2>1, RunExists
  <2>3. ASSUME NEW k \in 0..n
        PROVE  after[k] = IF k = 0 THEN start ELSE Step(after[k - 1], k)
    <3>1. CASE k = 0
      BY <2>2, <3>1 DEF IsRun
    <3>2. CASE k # 0
      <4>1. k \in 1..n /\ k - 1 \in 0..n
        BY <1>1, <3>2
      <4>2. after[k - 1] \in D
        BY <4>1
      <4> QED BY <1>4, <2>2, <3>2, <4>1, <4>2 DEF IsRun
    <3> QED BY <3>1, <3>2
  <2>4. Run(after)
    BY <2>2, <2>3
  <2> QED BY <2>4
<1>7. Run(chosen)
  <2> HIDE DEF Run
  <2> QED BY <1>6
<1>8. /\ chosen[0] = start
      /\ chosen = [k \in 0..n |-> chosen[k]]
      /\ \A k \in 1..n : chosen[k] = Step(chosen[k - 1], k)
  <2> HIDE DEF chosen
  <2>1. chosen = [k \in 0..n |-> IF k = 0 THEN start ELSE Step(chosen[k - 1], k)]
    BY <1>7
  <2>2. \A k \in 0..n : chosen[k] = IF k = 0 THEN start ELSE Step(chosen[k - 1], k)
    BY <2>1
  <2>3. chosen = [k \in 0..n |-> chosen[k]]
    BY <2>1, <2>2
  <2>4. 0 \in 0..n /\ \A k \in 1..n : k \in 0..n /\ k # 0
    BY <1>1
  <2> HIDE DEF Run
  <2>5. chosen[0] = start
    BY <2>2, <2>4
  <2>6. \A k \in 1..n : chosen[k] = Step(chosen[k - 1], k)
    BY <2>2, <2>4
  <2> QED BY <2>3, <2>5, <2>6
<1> HIDE DEF chosen
<1>9. \A k \in 0..n : chosen[k] \in D
  <2>1. chosen[0] \in D
    BY <1>2, <1>8
  <2>2. ASSUME NEW k \in 0..n - 1, chosen[k] \in D PROVE chosen[k + 1] \in D
    <3>1. k + 1 \in 1..n /\ (k + 1) - 1 = k
      BY <1>1
    <3> QED BY <1>3, <1>8, <2>2, <3>1
  <2> QED BY <1>1, <2>1, <2>2, RunStays
<1>10. chosen \in [0..n -> Seq(AllFrames(plan))] /\ \A k \in 0..n : Shown(chosen[k], plan)
  BY <1>8, <1>9 DEF D
<1> QED
  BY <1>5, <1>8, <1>10 DEF n, Step

\* An epoch: the manifest, the generations, the end.
EpochOwned(epoch, plan, owner) ==
    /\ Len(epoch) \in Nat /\ Len(epoch) >= 2 /\ DOMAIN epoch = 1..Len(epoch)
    /\ epoch[1] = Manifest(plan) /\ epoch[Len(epoch)] = [kind |-> "end"]
    /\ \A p \in 2..Len(epoch) - 1 :
          /\ owner[p] \in 1..Len(GenerationPlans(plan))
          /\ \/ epoch[p] = GenerationControl(plan, GenerationPlans(plan)[owner[p]])
             \/ /\ UnitOf(epoch[p], GenerationPlans(plan)[owner[p]])
                /\ p > 2 /\ owner[p - 1] = owner[p]

HasFrame(epoch, frame) == \E p \in 1..Len(epoch) : epoch[p] = frame

\* Every frame of an epoch has an owner, and every symbol of the payload a frame.
LEMMA EpochFrames ==
  ASSUME NEW plan \in Plans
  PROVE  /\ \E owner : EpochOwned(Epoch(plan), plan, owner)
         /\ \A g \in 1..Len(GenerationPlans(plan)) : \A i \in 1..GenerationPlans(plan)[g].size :
               HasFrame(Epoch(plan), SystematicUnits(GenerationPlans(plan)[g])[i])
<1> DEFINE n == Len(GenerationPlans(plan))
           epoch == Epoch(plan)
           end == [kind |-> "end"]
<1>1. n \in Nat
  BY GenerationsOfPlan
<1>2. PICK after \in [0..n -> Seq(AllFrames(plan))] :
         /\ \A k \in 0..n : Shown(after[k], plan)
         /\ \A k \in 1..n :
               after[k] = after[k - 1] \o GenerationFrames(plan, GenerationPlans(plan)[k])
         /\ epoch = after[n] \o <<end>>
  BY EpochRun
<1> DEFINE S == AllFrames(plan) \cup {end}
           shown == after[n]
           m == Len(shown)
<1>3. shown \in Seq(AllFrames(plan)) /\ Shown(shown, plan)
  BY <1>1, <1>2
<1> HIDE DEF shown, epoch, end, n
<1>4. PICK owner : Owned(shown, plan, owner)
  BY <1>3 DEF Shown
<1>5. shown \in Seq(S) /\ <<end>> \in Seq(S) /\ Len(<<end>>) = 1 /\ <<end>>[1] = end
  <2>1. AllFrames(plan) \subseteq S /\ end \in S
    OBVIOUS
  <2> HIDE DEF S
  <2> QED BY <1>3, <2>1, SeqMonotonic
<1>6. m \in Nat /\ m >= 1
  BY <1>3, <1>4, LenProperties DEF Owned
<1> HIDE DEF S
<1>7. /\ epoch \in Seq(S) /\ Len(epoch) = m + 1
      /\ \A i \in 1..m + 1 : epoch[i] = IF i <= m THEN shown[i] ELSE <<end>>[i - m]
  <2>1. epoch = shown \o <<end>>
    BY <1>2 DEF shown
  <2> QED BY <1>5, <2>1, ConcatProperties
<1>8. DOMAIN epoch = 1..Len(epoch)
  BY <1>7, LenProperties
<1>9. /\ \A p \in 1..m : epoch[p] = shown[p]
      /\ epoch[m + 1] = end
  <2>1. \A p \in 1..m : p \in 1..m + 1 /\ p <= m
    BY <1>6
  <2>2. m + 1 \in 1..m + 1 /\ ~(m + 1 <= m) /\ (m + 1) - m = 1
    BY <1>6
  <2>3. \A p \in 1..m : epoch[p] = shown[p]
    BY <1>7, <2>1
  <2> QED BY <1>5, <1>7, <2>2, <2>3
<1>10. EpochOwned(epoch, plan, owner)
  <2>1. Len(epoch) \in Nat /\ Len(epoch) >= 2 /\ Len(epoch) - 1 = m /\ Len(epoch) = m + 1
    BY <1>6, <1>7
  <2>2. epoch[1] = Manifest(plan)
    BY <1>4, <1>6, <1>9 DEF Owned
  <2>3. ASSUME NEW p \in 2..m
        PROVE  /\ owner[p] \in 1..Len(GenerationPlans(plan))
               /\ \/ epoch[p] = GenerationControl(plan, GenerationPlans(plan)[owner[p]])
                  \/ /\ UnitOf(epoch[p], GenerationPlans(plan)[owner[p]])
                     /\ p > 2 /\ owner[p - 1] = owner[p]
    <3>1. epoch[p] = shown[p]
      BY <1>6, <1>9
    <3> QED BY <1>4, <3>1 DEF Owned
  <2> HIDE DEF m
  <2> QED BY <1>8, <1>9, <2>1, <2>2, <2>3 DEF EpochOwned, end
<1>11. ASSUME NEW g \in 1..n, NEW i \in 1..GenerationPlans(plan)[g].size
       PROVE  HasFrame(epoch, SystematicUnits(GenerationPlans(plan)[g])[i])
  <2> DEFINE f == SystematicUnits(GenerationPlans(plan)[g])[i]
             K == {k \in 0..n : k >= g => HasFrame(after[k], f)}
  <2>1. 0 \in K
    BY <1>1
  <2>2. ASSUME NEW k \in 0..n - 1, k \in K PROVE k + 1 \in K
    <3> DEFINE old == after[k]
               frames == GenerationFrames(plan, GenerationPlans(plan)[k + 1])
    <3>1. k + 1 \in 1..n /\ (k + 1) - 1 = k /\ k \in 0..n /\ k + 1 \in 0..n /\ k \in Nat /\ g \in Nat
      BY <1>1
    <3>2. old \in Seq(AllFrames(plan)) /\ Shown(old, plan) /\ after[k + 1] = old \o frames
      BY <1>2, <3>1
    <3>3. Len(old) \in Nat
      BY <3>2, LenProperties
    <3>4. /\ Len(frames) \in Nat
          /\ \A j \in 1..GenerationPlans(plan)[k + 1].size : \E q \in 2..Len(frames) :
                frames[q] = SystematicUnits(GenerationPlans(plan)[k + 1])[j]
      BY <3>1, GenerationFramesType DEF n
    <3>5. /\ Len(after[k + 1]) = Len(old) + Len(frames)
          /\ \A p \in 1..Len(old) : after[k + 1][p] = old[p]
          /\ \A q \in 1..Len(frames) : after[k + 1][Len(old) + q] = frames[q]
      BY <3>1, <3>2, ShownGrows DEF n
    <3> HIDE DEF f, old, frames
    <3>6. ASSUME k + 1 >= g PROVE HasFrame(after[k + 1], f)
      <4>1. CASE k >= g
        <5>1. PICK p \in 1..Len(old) : old[p] = f
          BY <2>2, <4>1 DEF HasFrame, old
        <5>2. p \in 1..Len(after[k + 1])
          BY <3>3, <3>4, <3>5
        <5> QED BY <3>5, <5>1, <5>2 DEF HasFrame
      <4>2. CASE ~(k >= g)
        <5>1. k + 1 = g
          BY <3>1, <3>6, <4>2
        <5>2. PICK q \in 2..Len(frames) : frames[q] = f
          BY <3>4, <5>1 DEF f
        <5>3. q \in 1..Len(frames) /\ Len(old) + q \in 1..Len(after[k + 1])
          BY <3>3, <3>4, <3>5
        <5> QED BY <3>5, <5>2, <5>3 DEF HasFrame
      <4> QED BY <4>1, <4>2
    <3> QED BY <3>1, <3>6
  <2> HIDE DEF K
  <2>3. 0..n \subseteq K
    BY <1>1, <2>1, <2>2, Upward
  <2>4. HasFrame(shown, f)
    BY <1>1, <2>3 DEF K, shown
  <2> HIDE DEF f
  <2>5. PICK p \in 1..m : shown[p] = f
    BY <2>4 DEF HasFrame
  <2>6. p \in 1..Len(epoch) /\ epoch[p] = f
    BY <1>6, <1>7, <1>9, <2>5
  <2> QED BY <2>6 DEF HasFrame, f
<1> QED
  BY <1>10, <1>11 DEF n, epoch
=============================================================================
