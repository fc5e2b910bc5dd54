------------------------------ MODULE DataLemmas ------------------------------
(***************************************************************************)
(* Facts about the data of the other modules: sums over finite sets and    *)
(* over sequences, and functions that are defined by recursion.  Each is   *)
(* an induction over data.  An induction is put as the choice of a least   *)
(* counterexample, so that what is proved of a number or of a size is a    *)
(* set of numbers and no operator has to be passed to a theorem.           *)
(***************************************************************************)
EXTENDS Integers, Sequences, FiniteSets, Functions, FiniteSetTheorems, TLAPS

(* A set of numbers that is not empty has a least element. *)
LEMMA LeastNat ==
    ASSUME NEW S \in SUBSET Nat, S # {}
    PROVE  \E n \in S : \A m \in S : n <= m
<1>1. PICK n \in S : \A m \in S : <<m, n>> \notin OpToRel(<, Nat)
    BY NatLessThanWellFounded, WFMin
<1>2. \A m \in S : ~(m < n)
    BY <1>1 DEF OpToRel
<1>3. QED
    BY <1>2

(* A set with 0 and, with each number, the next one has all the numbers.   *)
LEMMA AllNat ==
    ASSUME NEW S, 0 \in S, \A n \in Nat : n \in S => n + 1 \in S
    PROVE  \A n \in Nat : n \in S
<1>1. SUFFICES ASSUME Nat \ S # {} PROVE FALSE
    OBVIOUS
<1>2. PICK n \in Nat \ S : \A m \in Nat \ S : n <= m
    BY <1>1, LeastNat
<1>3. n - 1 \in Nat /\ n - 1 \notin Nat \ S
    BY <1>2
<1>4. QED
    BY <1>2, <1>3

-----------------------------------------------------------------------------
(* The recursion of SumFunctionOnSet: g[s] is the sum of f over s, for     *)
(* every s of D.                                                           *)
AnyOf(s) == CHOOSE x \in s : TRUE

Adds(f, g, s) == IF s = {} THEN 0 ELSE f[AnyOf(s)] + g[s \ {AnyOf(s)}]

SumsUpTo(f, D, n, g) ==
    g = [s \in {t \in SUBSET D : Cardinality(t) <= n} |-> Adds(f, g, s)]

Sums(f, D, g) == g = [s \in SUBSET D |-> Adds(f, g, s)]

LEMMA AnyOfIsIn == ASSUME NEW s, s # {} PROVE AnyOf(s) \in s
BY DEF AnyOf

LEMMA RestIsSmaller ==
    ASSUME NEW s, IsFiniteSet(s), s # {}, NEW x \in s
    PROVE  /\ IsFiniteSet(s \ {x}) /\ Cardinality(s \ {x}) \in Nat
           /\ Cardinality(s) \in Nat
           /\ Cardinality(s \ {x}) = Cardinality(s) - 1
BY FS_RemoveElement, FS_CardinalityType

LEMMA SumsUpToExist ==
    ASSUME NEW D, IsFiniteSet(D), NEW f
    PROVE  \A n \in Nat : \E g : SumsUpTo(f, D, n, g)
<1> DEFINE Small(n) == {t \in SUBSET D : Cardinality(t) <= n}
<1> DEFINE Done == {n \in Nat : \E g : SumsUpTo(f, D, n, g)}
<1>1. \A s \in SUBSET D : IsFiniteSet(s) /\ Cardinality(s) \in Nat
    BY FS_Subset, FS_CardinalityType
<1>2. 0 \in Done
    <2> DEFINE g == [s \in Small(0) |-> 0]
    <2>1. \A s \in Small(0) : s = {}
        BY <1>1, FS_EmptySet
    <2>2. SumsUpTo(f, D, 0, g)
        BY <2>1 DEF SumsUpTo, Adds
    <2>3. QED
        BY <2>2
<1>3. ASSUME NEW n \in Nat, n \in Done
      PROVE  n + 1 \in Done
    <2>1. PICK h : SumsUpTo(f, D, n, h)
        BY <1>3
    <2> DEFINE g == [s \in Small(n + 1) |-> Adds(f, h, s)]
    <2>2. ASSUME NEW s \in Small(n) PROVE g[s] = h[s]
        <3>1. s \in Small(n + 1)
            BY <1>1
        <3>2. h[s] = Adds(f, h, s)
            BY <2>1 DEF SumsUpTo
        <3>3. QED
            BY <3>1, <3>2
    <2>3. ASSUME NEW s \in Small(n + 1) PROVE Adds(f, g, s) = Adds(f, h, s)
        <3>1. CASE s = {}
            BY <3>1 DEF Adds
        <3>2. CASE s # {}
            <4>1. AnyOf(s) \in s
                BY <3>2, AnyOfIsIn
            <4>2. s \ {AnyOf(s)} \in Small(n)
                BY <4>1, <3>2, <1>1, RestIsSmaller
            <4>3. g[s \ {AnyOf(s)}] = h[s \ {AnyOf(s)}]
                BY <4>2, <2>2
            <4> HIDE DEF g
            <4>4. QED
                BY <4>3 DEF Adds
        <3>3. QED
            BY <3>1, <3>2
    <2>4. SumsUpTo(f, D, n + 1, g)
        BY <2>3 DEF SumsUpTo
    <2>5. QED
        BY <2>4
<1> HIDE DEF Done
<1>4. \A n \in Nat : n \in Done
    BY <1>2, <1>3, AllNat
<1>5. QED
    BY <1>4 DEF Done

LEMMA SumsExist ==
    ASSUME NEW D, IsFiniteSet(D), NEW f
    PROVE  \E g : Sums(f, D, g)
<1>1. Cardinality(D) \in Nat
    BY FS_CardinalityType
<1>2. {t \in SUBSET D : Cardinality(t) <= Cardinality(D)} = SUBSET D
    BY FS_Subset
<1>3. PICK g : SumsUpTo(f, D, Cardinality(D), g)
    BY <1>1, SumsUpToExist
<1>4. QED
    BY <1>2, <1>3 DEF SumsUpTo, Sums

LEMMA SumIsSums ==
    ASSUME NEW D, IsFiniteSet(D), NEW f
    PROVE  \E g : Sums(f, D, g) /\ SumFunctionOnSet(f, D) = g[D]
<1> DEFINE g == CHOOSE h : h = [s \in SUBSET D |->
                    IF s = {} THEN 0 ELSE f[AnyOf(s)] + h[s \ {AnyOf(s)}]]
<1>1. SumFunctionOnSet(f, D) = g[D]
    BY DEF SumFunctionOnSet, FoldFunctionOnSet, MapThenFoldSet, AnyOf
<1>2. \E h : h = [s \in SUBSET D |->
                    IF s = {} THEN 0 ELSE f[AnyOf(s)] + h[s \ {AnyOf(s)}]]
    <2>1. PICK h : Sums(f, D, h)
        BY SumsExist
    <2>2. h = [s \in SUBSET D |-> IF s = {} THEN 0 ELSE f[AnyOf(s)] + h[s \ {AnyOf(s)}]]
        BY <2>1 DEF Sums, Adds
    <2>3. QED
        BY <2>2
<1>3. g = [s \in SUBSET D |-> IF s = {} THEN 0 ELSE f[AnyOf(s)] + g[s \ {AnyOf(s)}]]
    BY <1>2
<1>4. Sums(f, D, g)
    BY <1>3 DEF Sums, Adds
<1>5. QED
    BY <1>1, <1>4

(* A sum depends on the values added only, and not on the set of which the *)
(* set added over is a part.                                               *)
LEMMA SumsAgree ==
    ASSUME NEW D, NEW E, NEW f, NEW h, NEW g, NEW k,
           Sums(f, D, g), Sums(h, E, k),
           NEW T \in SUBSET (D \cap E), IsFiniteSet(T), \A t \in T : f[t] = h[t]
    PROVE  g[T] = k[T]
<1> DEFINE Same == {n \in Nat : \A s \in SUBSET T : Cardinality(s) = n => g[s] = k[s]}
<1>1. \A s \in SUBSET T : IsFiniteSet(s) /\ Cardinality(s) \in Nat
    BY FS_Subset, FS_CardinalityType
<1>2. \A s \in SUBSET T : g[s] = Adds(f, g, s) /\ k[s] = Adds(h, k, s)
    BY DEF Sums
<1>3. 0 \in Same
    BY <1>1, <1>2, FS_EmptySet DEF Adds
<1>4. ASSUME NEW n \in Nat, n \in Same PROVE n + 1 \in Same
    <2>1. SUFFICES ASSUME NEW s \in SUBSET T, Cardinality(s) = n + 1 PROVE g[s] = k[s]
        OBVIOUS
    <2>2. s # {}
        BY <2>1, FS_EmptySet
    <2>3. AnyOf(s) \in s
        BY <2>2, AnyOfIsIn
    <2>4. s \ {AnyOf(s)} \in SUBSET T /\ Cardinality(s \ {AnyOf(s)}) = n
        BY <1>1, <2>1, <2>2, <2>3, RestIsSmaller
    <2>5. g[s \ {AnyOf(s)}] = k[s \ {AnyOf(s)}] /\ f[AnyOf(s)] = h[AnyOf(s)]
        BY <1>4, <2>3, <2>4
    <2>6. QED
        BY <1>2, <2>2, <2>5 DEF Adds
<1> HIDE DEF Same
<1>5. \A n \in Nat : n \in Same
    BY <1>3, <1>4, AllNat
<1>6. QED
    BY <1>1, <1>5 DEF Same

LEMMA SumAgrees ==
    ASSUME NEW D, IsFiniteSet(D), NEW f, NEW h, \A d \in D : f[d] = h[d]
    PROVE  SumFunctionOnSet(f, D) = SumFunctionOnSet(h, D)
<1>1. PICK g : Sums(f, D, g) /\ SumFunctionOnSet(f, D) = g[D]
    BY SumIsSums
<1>2. PICK k : Sums(h, D, k) /\ SumFunctionOnSet(h, D) = k[D]
    BY SumIsSums
<1>3. QED
    BY <1>1, <1>2, SumsAgree

LEMMA SumOfNone == ASSUME NEW f PROVE SumFunctionOnSet(f, {}) = 0
<1>1. PICK g : Sums(f, {}, g) /\ SumFunctionOnSet(f, {}) = g[{}]
    BY SumIsSums, FS_EmptySet
<1>2. QED
    BY <1>1 DEF Sums, Adds

LEMMA SumOfAny ==
    ASSUME NEW D, IsFiniteSet(D), D # {}, NEW f
    PROVE  SumFunctionOnSet(f, D) =
               f[AnyOf(D)] + SumFunctionOnSet(f, D \ {AnyOf(D)})
<1> DEFINE R == D \ {AnyOf(D)}
<1>1. IsFiniteSet(R) /\ R \in SUBSET (D \cap R)
    BY FS_RemoveElement
<1>2. PICK g : Sums(f, D, g) /\ SumFunctionOnSet(f, D) = g[D]
    BY SumIsSums
<1>3. PICK k : Sums(f, R, k) /\ SumFunctionOnSet(f, R) = k[R]
    BY <1>1, SumIsSums
<1>4. g[R] = k[R]
    BY <1>1, <1>2, <1>3, SumsAgree
<1>5. g[D] = f[AnyOf(D)] + g[R]
    BY <1>2 DEF Sums, Adds
<1>6. QED
    BY <1>2, <1>3, <1>4, <1>5

(* A sum of integers does not depend on the order in which they are added. *)
LEMMA SumWithout ==
    ASSUME NEW D, IsFiniteSet(D), NEW f, \A d \in D : f[d] \in Int
    PROVE  /\ SumFunctionOnSet(f, D) \in Int
           /\ \A x \in D : SumFunctionOnSet(f, D) = f[x] + SumFunctionOnSet(f, D \ {x})
<1> DEFINE Good(s) ==
        /\ SumFunctionOnSet(f, s) \in Int
        /\ \A x \in s : SumFunctionOnSet(f, s) = f[x] + SumFunctionOnSet(f, s \ {x})
<1> DEFINE Done == {n \in Nat : \A s \in SUBSET D : Cardinality(s) <= n => Good(s)}
<1>1. \A s \in SUBSET D : IsFiniteSet(s) /\ Cardinality(s) \in Nat
    BY FS_Subset, FS_CardinalityType
<1>2. 0 \in Done
    <2>1. \A s \in SUBSET D : Cardinality(s) <= 0 => s = {}
        BY <1>1, FS_EmptySet
    <2>2. Good({})
        BY SumOfNone
    <2>3. QED
        BY <2>1, <2>2
<1>3. ASSUME NEW n \in Nat, n \in Done PROVE n + 1 \in Done
    <2>1. SUFFICES ASSUME NEW s \in SUBSET D, Cardinality(s) <= n + 1, s # {} PROVE Good(s)
        BY SumOfNone
    <2>2. IsFiniteSet(s)
        BY <1>1
    <2>3. PICK a \in s : SumFunctionOnSet(f, s) = f[a] + SumFunctionOnSet(f, s \ {a})
        BY <2>1, <2>2, SumOfAny, AnyOfIsIn
    <2>4. ASSUME NEW x \in s
          PROVE  /\ f[x] \in Int /\ s \ {x} \in SUBSET D
                 /\ IsFiniteSet(s \ {x}) /\ Cardinality(s \ {x}) <= n
        <3>1. IsFiniteSet(s \ {x}) /\ Cardinality(s \ {x}) = Cardinality(s) - 1
            BY <2>1, <2>2, RestIsSmaller
        <3>2. QED
            BY <1>1, <2>1, <3>1
    <2>5. ASSUME NEW r \in SUBSET D, Cardinality(r) <= n PROVE Good(r)
        BY <1>3, <2>5
    <2>6. SumFunctionOnSet(f, s) \in Int
        <3>1. SumFunctionOnSet(f, s \ {a}) \in Int /\ f[a] \in Int
            BY <2>4, <2>5
        <3>2. QED
            BY <2>3, <3>1
    <2>7. ASSUME NEW x \in s, x # a
          PROVE  SumFunctionOnSet(f, s) = f[x] + SumFunctionOnSet(f, s \ {x})
        <3> DEFINE rest == (s \ {a}) \ {x}
        <3>1. SumFunctionOnSet(f, s \ {a}) = f[x] + SumFunctionOnSet(f, rest)
            BY <2>4, <2>5, <2>7
        <3>2. SumFunctionOnSet(f, s \ {x}) = f[a] + SumFunctionOnSet(f, (s \ {x}) \ {a})
            BY <2>4, <2>5, <2>7
        <3>3. rest = (s \ {x}) \ {a}
            OBVIOUS
        <3>4. SumFunctionOnSet(f, rest) \in Int /\ f[a] \in Int /\ f[x] \in Int
            <4>1. rest \in SUBSET (s \ {a}) /\ Cardinality(rest) <= Cardinality(s \ {a})
                BY <2>4, FS_Subset
            <4>2. Cardinality(rest) <= n /\ rest \in SUBSET D
                BY <1>1, <2>4, <4>1
            <4>3. QED
                BY <4>2, <2>4, <2>5
        <3> HIDE DEF rest
        <3>5. QED
            BY <2>3, <3>1, <3>2, <3>3, <3>4
    <2>8. QED
        BY <2>3, <2>6, <2>7
<1> HIDE DEF Done
<1>4. \A n \in Nat : n \in Done
    BY <1>2, <1>3, AllNat
<1>5. Good(D)
    BY <1>1, <1>4 DEF Done
<1>6. QED
    BY <1>5

LEMMA UpToIsFinite ==
    ASSUME NEW n \in Nat
    PROVE  /\ IsFiniteSet(1..n) /\ IsFiniteSet(1..(n + 1))
           /\ n + 1 \in 1..(n + 1) /\ (1..(n + 1)) \ {n + 1} = 1..n
BY FS_Interval

(* One more value is added. *)
LEMMA SumOfNext ==
    ASSUME NEW n \in Nat, NEW f, \A i \in 1..(n + 1) : f[i] \in Int
    PROVE  SumFunctionOnSet(f, 1..(n + 1)) = SumFunctionOnSet(f, 1..n) + f[n + 1]
<1> DEFINE D == 1..(n + 1)
<1>1. IsFiniteSet(D) /\ n + 1 \in D /\ D \ {n + 1} = 1..n /\ \A d \in D : f[d] \in Int
    BY UpToIsFinite
<1> HIDE DEF D
<1>2. SumFunctionOnSet(f, D) = f[n + 1] + SumFunctionOnSet(f, 1..n)
    BY <1>1, SumWithout
<1>3. \A i \in 1..n : f[i] \in Int
    OBVIOUS
<1>4. SumFunctionOnSet(f, 1..n) \in Int
    BY <1>3, UpToIsFinite, SumWithout
<1>5. f[n + 1] \in Int
    OBVIOUS
<1>6. SumFunctionOnSet(f, D) = SumFunctionOnSet(f, 1..n) + f[n + 1]
    BY <1>2, <1>4, <1>5
<1>7. QED
    BY <1>6 DEF D

LEMMA SumIsNat ==
    ASSUME NEW n \in Nat, NEW f, \A i \in 1..n : f[i] \in Nat
    PROVE  \A m \in 0..n : SumFunctionOnSet(f, 1..m) \in Nat
<1> DEFINE Done == {m \in Nat : m <= n => SumFunctionOnSet(f, 1..m) \in Nat}
<1>1. 0 \in Done
    <2>1. 1..0 = {}
        OBVIOUS
    <2>2. QED
        BY <2>1, SumOfNone
<1>2. ASSUME NEW m \in Nat, m \in Done PROVE m + 1 \in Done
    <2>1. SUFFICES ASSUME m + 1 <= n PROVE SumFunctionOnSet(f, 1..(m + 1)) \in Nat
        OBVIOUS
    <2>2. \A i \in 1..(m + 1) : f[i] \in Int
        BY <2>1
    <2>3. SumFunctionOnSet(f, 1..(m + 1)) = SumFunctionOnSet(f, 1..m) + f[m + 1]
        BY <2>2, SumOfNext
    <2>4. SumFunctionOnSet(f, 1..m) \in Nat /\ f[m + 1] \in Nat
        BY <1>2, <2>1
    <2>5. QED
        BY <2>3, <2>4
<1> HIDE DEF Done
<1>3. \A m \in Nat : m \in Done
    BY <1>1, <1>2, AllNat
<1>4. QED
    BY <1>3 DEF Done

LEMMA SumOfZeros ==
    ASSUME NEW n \in Nat, NEW f, \A i \in 1..n : f[i] = 0
    PROVE  SumFunctionOnSet(f, 1..n) = 0
<1> DEFINE Done == {m \in Nat : m <= n => SumFunctionOnSet(f, 1..m) = 0}
<1>1. 0 \in Done
    <2>1. 1..0 = {}
        OBVIOUS
    <2>2. QED
        BY <2>1, SumOfNone
<1>2. ASSUME NEW m \in Nat, m \in Done PROVE m + 1 \in Done
    <2>1. SUFFICES ASSUME m + 1 <= n PROVE SumFunctionOnSet(f, 1..(m + 1)) = 0
        OBVIOUS
    <2>2. \A i \in 1..(m + 1) : f[i] = 0 /\ f[i] \in Int
        BY <2>1
    <2>3. SumFunctionOnSet(f, 1..(m + 1)) = SumFunctionOnSet(f, 1..m) + f[m + 1]
        BY <2>2, SumOfNext
    <2>4. SumFunctionOnSet(f, 1..m) = 0 /\ f[m + 1] = 0
        BY <1>2, <2>1, <2>2
    <2>5. QED
        BY <2>3, <2>4
<1> HIDE DEF Done
<1>3. \A m \in Nat : m \in Done
    BY <1>1, <1>2, AllNat
<1>4. QED
    BY <1>3 DEF Done

(* A function can be defined by recursion: from a, step by step.           *)
Recursion(a, step, n, f) == f[0] = a /\ \A k \in 1..n : f[k] = step[<<k, f[k - 1]>>]

LEMMA RecursionExists ==
    ASSUME NEW A, NEW a \in A, NEW step \in [Nat \X A -> A], NEW n \in Nat
    PROVE  \E f \in [0..n -> A] : Recursion(a, step, n, f)
<1> DEFINE Has(m) == \E f \in [0..m -> A] :
                        f[0] = a /\ \A k \in 1..m : f[k] = step[<<k, f[k - 1]>>]
           Done == {m \in Nat : Has(m)}
<1>1. 0 \in Done
    <2> DEFINE f == [k \in 0..0 |-> a]
    <2>1. f \in [0..0 -> A] /\ f[0] = a /\ \A k \in 1..0 : FALSE
        OBVIOUS
    <2>2. QED
        BY <2>1
<1>2. ASSUME NEW m \in Nat, m \in Done PROVE m + 1 \in Done
    <2>1. PICK f \in [0..m -> A] : f[0] = a /\ \A k \in 1..m : f[k] = step[<<k, f[k - 1]>>]
        BY <1>2
    <2>2. f[m] \in A /\ m + 1 \in Nat /\ <<m + 1, f[m]>> \in Nat \X A
        BY <2>1
    <2>3. step[<<m + 1, f[m]>>] \in A
        BY <2>2
    <2> DEFINE g == [k \in 0..(m + 1) |-> IF k = m + 1 THEN step[<<m + 1, f[m]>>] ELSE f[k]]
    <2>4. g \in [0..(m + 1) -> A]
        BY <2>1, <2>3
    <2>5. \A k \in 0..m : g[k] = f[k]
        OBVIOUS
    <2>6. g[m + 1] = step[<<m + 1, f[m]>>] /\ (m + 1) - 1 = m
        OBVIOUS
    <2> HIDE DEF g
    <2>7. g[0] = a
        BY <2>1, <2>5
    <2>8. ASSUME NEW k \in 1..(m + 1) PROVE g[k] = step[<<k, g[k - 1]>>]
        <3>1. CASE k = m + 1
            BY <2>5, <2>6, <3>1
        <3>2. CASE k # m + 1
            <4>1. k \in 1..m /\ k \in 0..m /\ k - 1 \in 0..m
                BY <3>2
            <4>2. QED
                BY <2>1, <2>5, <4>1
        <3>3. QED
            BY <3>1, <3>2
    <2>9. QED
        BY <2>4, <2>7, <2>8
<1> HIDE DEF Done
<1>3. \A m \in Nat : m \in Done
    BY <1>1, <1>2, AllNat
<1>4. QED
    BY <1>3 DEF Done, Recursion
=============================================================================
