---------------------------- MODULE NaturalFacts ----------------------------
(***************************************************************************)
(* Facts about natural numbers: induction, stated over sets (a property is *)
(* the set of the numbers that have it), recursion, division and digits.   *)
(***************************************************************************)
EXTENDS Integers, Sequences, FiniteSets, FiniteSetTheorems, WellFoundedInduction, TLAPS

Less == {ss \in Nat \X Nat : ss[1] < ss[2]}

LEMMA LessIsWellFounded == IsWellFoundedOn(Less, Nat)
    BY NatLessThanWellFounded DEF OpToRel, Less

\* A nonempty set of natural numbers has a least element.
LEMMA LeastNatural ==
    ASSUME NEW T, T \subseteq Nat, T # {}
    PROVE  \E x \in T : \A y \in T : x <= y
<1>1. \A x \in Nat, y \in Nat : y < x => <<y, x>> \in Less
    BY DEF Less
<1>2. PICK x \in T : \A y \in T : ~(<<y, x>> \in Less)
    BY LessIsWellFounded, WFMin
<1>3. \A y \in T : ~(y < x)
    BY <1>1, <1>2
<1>4. QED
    BY <1>2, <1>3

\* A set that holds 0 and, with a number, the next one holds all of them.
LEMMA SetInduction ==
    ASSUME NEW S, 0 \in S, \A n \in Nat : n \in S => n + 1 \in S
    PROVE  Nat \subseteq S
<1> SUFFICES ASSUME NEW m \in Nat \ S PROVE FALSE
    OBVIOUS
<1>1. PICK x \in Nat \ S : \A y \in Nat \ S : x <= y
    BY LeastNatural
<1>2. x # 0 /\ x - 1 \in Nat
    BY <1>1
<1>3. x - 1 \in S
    BY <1>1, <1>2
<1>4. QED
    BY <1>1, <1>2, <1>3

\* The same for the numbers up to a bound.
LEMMA BoundedInduction ==
    ASSUME NEW N \in Nat, NEW S, 0 \in S,
           \A n \in 0..(N - 1) : n \in S => n + 1 \in S
    PROVE  0..N \subseteq S
<1> DEFINE T == {n \in Nat : n <= N => n \in S}
<1>1. 0 \in T
    OBVIOUS
<1>2. \A n \in Nat : n \in T => n + 1 \in T
    OBVIOUS
<1>3. Nat \subseteq T
    <2> HIDE DEF T
    <2>1. QED BY <1>1, <1>2, SetInduction
<1>4. QED
    BY <1>3

\* A finite nonempty set of natural numbers has a greatest element.
LEMMA GreatestNatural ==
    ASSUME NEW S, S \subseteq Nat, IsFiniteSet(S), S # {}
    PROVE  \E x \in S : \A y \in S : y <= x
<1> DEFINE Bounded == {n \in Nat : \A f \in [1..n -> Nat] :
                          \E m \in Nat : \A i \in 1..n : f[i] <= m}
<1>1. 0 \in Bounded
    OBVIOUS
<1>2. ASSUME NEW n \in Nat, n \in Bounded PROVE n + 1 \in Bounded
    <2>0. n + 1 \in Nat
        OBVIOUS
    <2> SUFFICES ASSUME NEW f \in [1..(n + 1) -> Nat]
                 PROVE  \E m \in Nat : \A i \in 1..(n + 1) : f[i] <= m
        BY <2>0, Zenon
    <2>1. [i \in 1..n |-> f[i]] \in [1..n -> Nat]
        OBVIOUS
    <2>2. PICK m \in Nat : \A i \in 1..n : f[i] <= m
        BY <1>2, <2>1
    <2>3. f[n + 1] \in Nat
        OBVIOUS
    <2> DEFINE top == m + f[n + 1]
    <2>4. top \in Nat
        BY <2>3
    <2>5. ASSUME NEW i \in 1..(n + 1) PROVE f[i] <= top
        <3>1. CASE i \in 1..n BY <2>2, <2>3, <3>1
        <3>2. CASE i = n + 1 BY <2>3, <3>2
        <3>3. QED BY <3>1, <3>2
    <2> HIDE DEF top
    <2>6. QED BY <2>4, <2>5
<1>3. Nat \subseteq Bounded
    <2> HIDE DEF Bounded
    <2>1. QED BY <1>1, <1>2, SetInduction
<1>4. PICK n \in Nat : ExistsSurjection(1..n, S)
    BY FS_NatSurjection
<1>5. PICK f \in [1..n -> S] : \A s \in S : \E i \in 1..n : f[i] = s
    BY <1>4 DEF ExistsSurjection, Surjection
<1>6. f \in [1..n -> Nat]
    BY <1>5
<1>7. PICK m \in Nat : \A i \in 1..n : f[i] <= m
    BY <1>3, <1>6
<1>8. \A s \in S : s <= m
    BY <1>5, <1>7
<1> DEFINE Gaps == {d \in Nat : \E s \in S : d = m - s}
<1>9. Gaps \subseteq Nat /\ Gaps # {}
    <2>1. PICK s \in S : TRUE OBVIOUS
    <2>2. m - s \in Gaps BY <1>8
    <2>3. QED BY <2>2
<1>10. PICK d \in Gaps : \A e \in Gaps : d <= e
    BY <1>9, LeastNatural
<1>11. PICK x \in S : d = m - x
    BY <1>10
<1>12. ASSUME NEW y \in S PROVE y <= x
    <2>1. m - y \in Gaps
        BY <1>8
    <2>2. d <= m - y
        BY <1>10, <2>1
    <2>3. QED
        BY <1>11, <2>2
<1>13. QED
    BY <1>12

\* A set that only grows, inside a finite set, and stays once it stays for a
\* step, has settled after as many steps as there are elements.
LEMMA GrowingSetSettles ==
    ASSUME NEW U, IsFiniteSet(U), NEW f,
           f \in [0..(Cardinality(U) + 1) -> SUBSET U],
           \A k \in 0..Cardinality(U) : f[k] \subseteq f[k + 1],
           \A k \in 0..(Cardinality(U) - 1) : f[k] = f[k + 1] => f[k + 1] = f[k + 2]
    PROVE  f[Cardinality(U)] = f[Cardinality(U) + 1]
<1> DEFINE N == Cardinality(U)
<1>0. N \in Nat
    BY FS_CardinalityType
<1> HIDE DEF N
<1>1. \A k \in 0..(N + 1) : f[k] \subseteq U
    BY DEF N
<1> SUFFICES ASSUME f[N] # f[N + 1] PROVE FALSE
    BY DEF N
<1> DEFINE Back == {j \in Nat : j <= N => f[N - j] # f[(N - j) + 1]}
<1>2. 0 \in Back
    BY <1>0
<1>3. ASSUME NEW j \in Nat, j \in Back PROVE j + 1 \in Back
    <2> SUFFICES ASSUME j + 1 <= N PROVE f[N - (j + 1)] # f[(N - (j + 1)) + 1]
        OBVIOUS
    <2>1. /\ N - (j + 1) \in 0..(N - 1) /\ (N - (j + 1)) + 1 = N - j
          /\ (N - (j + 1)) + 2 = (N - j) + 1
        BY <1>0
    <2>2. f[N - j] # f[(N - j) + 1]
        BY <1>0, <1>3
    <2>3. f[N - (j + 1)] = f[(N - (j + 1)) + 1] =>
              f[(N - (j + 1)) + 1] = f[(N - (j + 1)) + 2]
        BY <2>1 DEF N
    <2>4. QED
        BY <2>1, <2>2, <2>3
<1>4. Nat \subseteq Back
    <2> HIDE DEF Back
    <2>1. QED BY <1>2, <1>3, SetInduction
<1>5. \A k \in 0..N : f[k] # f[k + 1]
    <2> TAKE k \in 0..N
    <2>1. N - k \in Nat /\ N - k <= N /\ N - (N - k) = k
        BY <1>0
    <2>2. N - k \in Back
        BY <1>4, <2>1
    <2>3. QED
        BY <2>1, <2>2
<1> DEFINE Large == {k \in 0..(N + 1) : IsFiniteSet(f[k]) /\ Cardinality(f[k]) >= k}
<1>6. \A k \in 0..(N + 1) : IsFiniteSet(f[k]) /\ Cardinality(f[k]) \in Nat
    BY <1>1, FS_Subset, FS_CardinalityType
<1>7. 0 \in Large
    BY <1>0, <1>6
<1>8. ASSUME NEW k \in 0..((N + 1) - 1), k \in Large PROVE k + 1 \in Large
    <2>1. k \in 0..N /\ k + 1 \in 0..(N + 1) /\ k \in 0..(N + 1)
        BY <1>0
    <2>2. f[k] \subseteq f[k + 1] /\ f[k] # f[k + 1]
        BY <1>5, <2>1 DEF N
    <2>3. /\ Cardinality(f[k]) <= Cardinality(f[k + 1])
          /\ Cardinality(f[k]) # Cardinality(f[k + 1])
        BY <1>6, <2>1, <2>2, FS_Subset
    <2>4. Cardinality(f[k]) \in Nat /\ Cardinality(f[k + 1]) \in Nat /\ IsFiniteSet(f[k + 1])
        BY <1>6, <2>1
    <2>5. Cardinality(f[k]) >= k
        BY <1>8
    <2>6. Cardinality(f[k + 1]) >= k + 1
        BY <2>1, <2>3, <2>4, <2>5
    <2>7. QED
        BY <2>1, <2>4, <2>6
<1>9. 0..(N + 1) \subseteq Large
    <2> HIDE DEF Large
    <2>1. N + 1 \in Nat BY <1>0
    <2>2. QED BY <1>7, <1>8, <2>1, BoundedInduction
<1>10. Cardinality(f[N + 1]) >= N + 1
    BY <1>0, <1>9
<1>11. Cardinality(f[N + 1]) <= N
    <2>1. f[N + 1] \in SUBSET U
        BY <1>0, <1>1
    <2>2. QED
        BY <2>1, FS_Subset DEF N
<1>12. Cardinality(f[N + 1]) \in Nat
    BY <1>0, <1>6
<1>13. QED
    BY <1>0, <1>10, <1>11, <1>12

-----------------------------------------------------------------------------
(***************************************************************************)
(* Recursion                                                               *)
(***************************************************************************)

\* What a step F, given the number of steps before it, makes of b.
Iterate(D, b, F, N) ==
    CHOOSE f \in [0..N -> D] :
        f[0] = b /\ \A k \in 0..(N - 1) : f[k + 1] = F[<<k, f[k]>>]

\* It exists, whatever the step.
LEMMA RecursionUpTo ==
    ASSUME NEW D, NEW b \in D, NEW N \in Nat, NEW F,
           \A k \in 0..(N - 1), d \in D : F[<<k, d>>] \in D
    PROVE  /\ Iterate(D, b, F, N) \in [0..N -> D]
           /\ Iterate(D, b, F, N)[0] = b
           /\ \A k \in 0..(N - 1) :
                  Iterate(D, b, F, N)[k + 1] = F[<<k, Iterate(D, b, F, N)[k]>>]
<1> DEFINE Up(n, f) == f[0] = b /\ \A k \in 0..(n - 1) : f[k + 1] = F[<<k, f[k]>>]
           S == {n \in 0..N : \E f \in [0..n -> D] : Up(n, f)}
<1>1. 0 \in S
    <2> DEFINE g == [k \in 0..0 |-> b]
    <2>1. g \in [0..0 -> D] /\ Up(0, g)
        OBVIOUS
    <2> HIDE DEF g
    <2>2. QED BY <2>1
<1>2. ASSUME NEW n \in 0..(N - 1), n \in S PROVE n + 1 \in S
    <2>1. PICK f \in [0..n -> D] : Up(n, f)
        BY <1>2
    <2> DEFINE g == [k \in 0..(n + 1) |-> IF k = n + 1 THEN F[<<n, f[n]>>] ELSE f[k]]
    <2>2. F[<<n, f[n]>>] \in D
        OBVIOUS
    <2>3. g \in [0..(n + 1) -> D]
        BY <2>2
    <2>4. g[0] = b
        BY <2>1
    <2>5. ASSUME NEW k \in 0..n PROVE g[k + 1] = F[<<k, g[k]>>]
        <3>1. k \in 0..(n + 1) /\ k + 1 \in 0..(n + 1) /\ k # n + 1
            OBVIOUS
        <3>2. g[k] = f[k] /\ g[k + 1] = IF k + 1 = n + 1 THEN F[<<n, f[n]>>] ELSE f[k + 1]
            BY <3>1
        <3>3. CASE k = n
            BY <3>2, <3>3
        <3>4. CASE k # n
            <4>1. k \in 0..(n - 1) /\ k + 1 # n + 1
                BY <3>4
            <4>2. f[k + 1] = F[<<k, f[k]>>]
                BY <2>1, <4>1
            <4>3. QED BY <3>2, <4>1, <4>2
        <3>5. QED BY <3>3, <3>4
    <2> HIDE DEF g
    <2>6. (n + 1) - 1 = n /\ n + 1 \in 0..N
        OBVIOUS
    <2>7. QED BY <2>3, <2>4, <2>5, <2>6
<1>3. 0..N \subseteq S
    <2> HIDE DEF S
    <2>1. QED BY <1>1, <1>2, BoundedInduction
<1>4. \E f \in [0..N -> D] : Up(N, f)
    <2>1. N \in S
        <3> HIDE DEF S
        <3>1. QED BY <1>3
    <2>2. QED BY <2>1
<1>5. QED BY <1>4 DEF Iterate

\* The same without a bound on the number of steps.
IterateForever(D, b, F) ==
    CHOOSE f \in [Nat -> D] : f[0] = b /\ \A k \in Nat : f[k + 1] = F[<<k, f[k]>>]

LEMMA RecursionOnNat ==
    ASSUME NEW D, NEW b \in D, NEW F,
           \A k \in Nat, d \in D : F[<<k, d>>] \in D
    PROVE  /\ IterateForever(D, b, F) \in [Nat -> D]
           /\ IterateForever(D, b, F)[0] = b
           /\ \A k \in Nat :
                  IterateForever(D, b, F)[k + 1] = F[<<k, IterateForever(D, b, F)[k]>>]
<1> DEFINE Up(n, f) == /\ f \in [0..n -> D] /\ f[0] = b
                       /\ \A k \in 0..(n - 1) : f[k + 1] = F[<<k, f[k]>>]
           u(n) == Iterate(D, b, F, n)
<1>1. ASSUME NEW n \in Nat PROVE Up(n, u(n))
    <2>1. ASSUME NEW k \in 0..(n - 1), NEW d \in D PROVE F[<<k, d>>] \in D
        <3>1. k \in Nat OBVIOUS
        <3>2. QED BY <3>1
    <2>2. QED BY <2>1, RecursionUpTo
<1> HIDE DEF u
<1>2. ASSUME NEW n \in Nat PROVE u(n + 1)[n] = u(n)[n] /\ u(n + 1)[n + 1] = F[<<n, u(n + 1)[n]>>]
    <2> DEFINE T == {k \in 0..n : u(n + 1)[k] = u(n)[k]}
    <2>0. Up(n, u(n)) /\ Up(n + 1, u(n + 1))
        BY <1>1
    <2>1. 0 \in T
        BY <2>0
    <2>2. ASSUME NEW k \in 0..(n - 1), k \in T PROVE k + 1 \in T
        <3>1. k \in 0..((n + 1) - 1) /\ k + 1 \in 0..n
            OBVIOUS
        <3>2. u(n)[k + 1] = F[<<k, u(n)[k]>>]
            BY <2>0
        <3>3. u(n + 1)[k + 1] = F[<<k, u(n + 1)[k]>>]
            BY <2>0, <3>1
        <3>4. QED BY <2>2, <3>1, <3>2, <3>3
    <2>3. 0..n \subseteq T
        <3> HIDE DEF T
        <3>1. QED BY <2>1, <2>2, BoundedInduction
    <2>4. QED BY <2>0, <2>3
<1> DEFINE f == [n \in Nat |-> u(n)[n]]
<1>3. f \in [Nat -> D]
    BY <1>1
<1>4. f[0] = b
    BY <1>1
<1>5. ASSUME NEW k \in Nat PROVE f[k + 1] = F[<<k, f[k]>>]
    <2>1. f[k + 1] = u(k + 1)[k + 1] /\ f[k] = u(k)[k]
        OBVIOUS
    <2>2. QED BY <1>2, <2>1
<1> HIDE DEF f
<1>6. QED BY <1>3, <1>4, <1>5 DEF IterateForever

-----------------------------------------------------------------------------
(***************************************************************************)
(* Division                                                                *)
(***************************************************************************)

\* Quotient and remainder are determined by what they are parts of.
LEMMA QuotientAndRest ==
    ASSUME NEW B \in Nat \ {0}, NEW x \in Int, NEW q \in Int, NEW r \in 0..(B - 1), x = B * q + r
    PROVE  x \div B = q /\ x % B = r
<1> DEFINE d == x \div B
           m == x % B
<1>1. d \in Int /\ m \in 0..(B - 1) /\ x = B * d + m
    OBVIOUS
<1> HIDE DEF d, m
<1>2. d = q
    <2>1. CASE d < q
        <3>1. d + 1 <= q BY <1>1, <2>1
        <3>2. B * (d + 1) <= B * q BY <1>1, <3>1
        <3>3. B * (d + 1) = B * d + B BY <1>1
        <3>4. B * d \in Int /\ B * q \in Int BY <1>1
        <3>5. QED BY <1>1, <3>2, <3>3, <3>4
    <2>2. CASE q < d
        <3>1. q + 1 <= d BY <1>1, <2>2
        <3>2. B * (q + 1) <= B * d BY <1>1, <3>1
        <3>3. B * (q + 1) = B * q + B BY <1>1
        <3>4. B * d \in Int /\ B * q \in Int BY <1>1
        <3>5. QED BY <1>1, <3>2, <3>3, <3>4
    <2>3. QED BY <1>1, <2>1, <2>2
<1>3. m = r
    <2>1. B * d \in Int BY <1>1
    <2>2. QED BY <1>1, <1>2, <2>1
<1>4. QED BY <1>2, <1>3 DEF d, m

\* Dividing by a product is dividing by one factor after the other.
LEMMA DivideTwice ==
    ASSUME NEW x \in Nat, NEW B \in Nat \ {0}, NEW P \in Nat \ {0}
    PROVE  x \div (B * P) = (x \div B) \div P
<1> DEFINE q == x \div B
           r == x % B
           e == q \div P
           s == q % P
<1>1. q \in Int /\ r \in 0..(B - 1) /\ x = B * q + r
    OBVIOUS
<1>2. e \in Int /\ s \in 0..(P - 1) /\ q = P * e + s
    BY <1>1
<1> HIDE DEF q, r, e, s
<1>3. B * P \in Nat \ {0}
    OBVIOUS
<1>4. B * q = B * (P * e) + B * s
    BY <1>1, <1>2
<1>5. B * (P * e) = (B * P) * e
    BY <1>2
<1>6. x = (B * P) * e + (B * s + r)
    <2>1. B * s \in Int /\ (B * P) * e \in Int BY <1>2, <1>3
    <2>2. QED BY <1>1, <1>4, <1>5, <2>1
<1>7. B * s + r \in 0..(B * P - 1)
    <2>1. s + 1 <= P BY <1>2
    <2>2. B * (s + 1) <= B * P BY <1>2, <2>1
    <2>3. B * (s + 1) = B * s + B BY <1>2
    <2>4. B * s \in Nat BY <1>2
    <2>5. QED BY <1>1, <1>3, <2>2, <2>3, <2>4
<1>8. x \div (B * P) = e
    BY <1>2, <1>3, <1>6, <1>7, QuotientAndRest
<1>9. QED BY <1>8 DEF e, q

-----------------------------------------------------------------------------
(***************************************************************************)
(* Numbers and their digits                                                *)
(***************************************************************************)

\* The powers of a base.
PowersOf(B) == CHOOSE f : f = [n \in Nat |-> IF n = 0 THEN 1 ELSE B * f[n - 1]]

LEMMA PowersFacts ==
    ASSUME NEW B \in Nat \ {0}
    PROVE  /\ PowersOf(B)[0] = 1
           /\ \A n \in Nat : /\ PowersOf(B)[n] \in Nat \ {0}
                             /\ PowersOf(B)[n + 1] = B * PowersOf(B)[n]
<1> DEFINE D == Nat \ {0}
           F == [p \in Nat \X D |-> B * p[2]]
           Powers(f) == f = [n \in Nat |-> IF n = 0 THEN 1 ELSE B * f[n - 1]]
           P == PowersOf(B)
<1>1. \A k \in Nat, d \in D : F[<<k, d>>] = B * d /\ F[<<k, d>>] \in D
    OBVIOUS
<1> DEFINE f == IterateForever(D, 1, F)
<1>2. f \in [Nat -> D] /\ f[0] = 1 /\ \A k \in Nat : f[k + 1] = F[<<k, f[k]>>]
    <2> HIDE DEF D, F
    <2>1. 1 \in D BY DEF D
    <2>2. \A k \in Nat, d \in D : F[<<k, d>>] \in D BY <1>1
    <2>3. QED BY <2>1, <2>2, RecursionOnNat
<1> HIDE DEF f
<1>3. Powers(f)
    <2>1. ASSUME NEW n \in Nat PROVE f[n] = IF n = 0 THEN 1 ELSE B * f[n - 1]
        <3>1. CASE n = 0 BY <1>2, <3>1
        <3>2. CASE n # 0
            <4>1. n - 1 \in Nat /\ (n - 1) + 1 = n BY <3>2
            <4>2. f[n - 1] \in D BY <1>2, <4>1
            <4>3. f[(n - 1) + 1] = F[<<n - 1, f[n - 1]>>] BY <1>2, <4>1
            <4>4. F[<<n - 1, f[n - 1]>>] = B * f[n - 1]
                <5> HIDE DEF D, F
                <5>1. QED BY <1>1, <4>1, <4>2
            <4>5. QED BY <3>2, <4>1, <4>3, <4>4
        <3>3. QED BY <3>1, <3>2
    <2>2. QED BY <1>2, <2>1
<1>4. Powers(P)
    <2>1. P = CHOOSE g : Powers(g)
        BY DEF PowersOf
    <2> HIDE DEF Powers, P
    <2>2. QED BY <1>3, <2>1
<1> HIDE DEF P
<1>5. P[0] = 1
    BY <1>4
<1>6. ASSUME NEW n \in Nat PROVE P[n + 1] = B * P[n]
    <2>1. n + 1 \in Nat /\ n + 1 # 0 /\ (n + 1) - 1 = n OBVIOUS
    <2>2. P[n + 1] = IF n + 1 = 0 THEN 1 ELSE B * P[(n + 1) - 1]
        BY <1>4, <2>1
    <2>3. QED BY <2>1, <2>2
<1> DEFINE S == {n \in Nat : P[n] \in D}
<1>7. 0 \in S
    BY <1>5
<1>8. ASSUME NEW n \in Nat, n \in S PROVE n + 1 \in S
    <2>1. B * P[n] \in D BY <1>8
    <2>2. QED BY <1>6, <2>1
<1>9. Nat \subseteq S
    <2> HIDE DEF S
    <2>1. QED BY <1>7, <1>8, SetInduction
<1>10. QED
    BY <1>5, <1>6, <1>9 DEF P

\* The number whose digits are b, the least one first, from its front.
ListsHorner(B, b, f) ==
    f = [i \in 0..Len(b) |-> IF i = 0 THEN 0 ELSE B * f[i - 1] + b[Len(b) - i + 1]]

Horner(B, b) == CHOOSE f : ListsHorner(B, b, f)

LEMMA HornerStep ==
    ASSUME NEW B \in Nat \ {0}, NEW b \in Seq(0..(B - 1))
    PROVE  /\ Horner(B, b)[0] = 0
           /\ \A i \in 0..(Len(b) - 1) : Horner(B, b)[i + 1] = B * Horner(B, b)[i] + b[Len(b) - i]
<1> DEFINE n == Len(b)
           F == [p \in (0..(n - 1)) \X Nat |-> B * p[2] + b[n - p[1]]]
<1>0. n \in Nat
    OBVIOUS
<1>1. ASSUME NEW k \in 0..(n - 1), NEW d \in Nat
      PROVE  F[<<k, d>>] = B * d + b[n - k] /\ F[<<k, d>>] \in Nat
    <2>1. b[n - k] \in 0..(B - 1) BY <1>0
    <2>2. b[n - k] \in Nat BY <2>1
    <2>3. B * d \in Nat OBVIOUS
    <2>4. F[<<k, d>>] = B * d + b[n - k]
        <3> HIDE DEF n
        <3>1. QED OBVIOUS
    <2>5. B * d + b[n - k] \in Nat
        <3> DEFINE x == B * d
                   y == b[n - k]
        <3> HIDE DEF x, y
        <3>1. x + y \in Nat BY <2>2, <2>3 DEF x, y
        <3>2. QED BY <3>1 DEF x, y
    <2>6. QED
        <3> HIDE DEF F, n
        <3>1. QED BY <2>4, <2>5
<1> HIDE DEF F, n
<1> DEFINE D == Nat
           zero == 0
           f == Iterate(D, zero, F, n)
<1>2. f \in [0..n -> D] /\ f[0] = zero /\ \A k \in 0..(n - 1) : f[k + 1] = F[<<k, f[k]>>]
    <2>1. \A k \in 0..(n - 1), d \in D : F[<<k, d>>] \in D BY <1>1
    <2>2. zero \in D OBVIOUS
    <2> HIDE DEF D, zero
    <2>3. QED BY <1>0, <2>1, <2>2, RecursionUpTo
<1> HIDE DEF f
<1>3. ASSUME NEW i \in 0..n
      PROVE  f[i] = IF i = 0 THEN 0 ELSE B * f[i - 1] + b[n - i + 1]
    <2>1. CASE i = 0 BY <1>2, <2>1
    <2>2. CASE i # 0
        <3>1. i - 1 \in 0..(n - 1) /\ (i - 1) + 1 = i /\ n - (i - 1) = n - i + 1
            BY <1>0, <2>2
        <3>2. f[i - 1] \in Nat BY <1>0, <1>2, <3>1
        <3>3. f[(i - 1) + 1] = F[<<i - 1, f[i - 1]>>] BY <1>2, <3>1
        <3>4. QED BY <1>1, <2>2, <3>1, <3>2, <3>3
    <2>3. QED BY <2>1, <2>2
<1>4. ListsHorner(B, b, f)
    <2>1. f = [i \in 0..n |-> IF i = 0 THEN 0 ELSE B * f[i - 1] + b[n - i + 1]]
        BY <1>2, <1>3
    <2>2. QED BY <2>1 DEF ListsHorner, n
<1> DEFINE g == Horner(B, b)
<1>5. ListsHorner(B, b, g)
    BY <1>4 DEF Horner
<1> HIDE DEF g
<1>6. g[0] = 0
    BY <1>5 DEF ListsHorner
<1>7. ASSUME NEW i \in 0..(Len(b) - 1) PROVE g[i + 1] = B * g[i] + b[Len(b) - i]
    <2>1. /\ i + 1 \in 0..Len(b) /\ i + 1 # 0 /\ (i + 1) - 1 = i
          /\ Len(b) - (i + 1) + 1 = Len(b) - i
        OBVIOUS
    <2>2. g[i + 1] = IF i + 1 = 0 THEN 0 ELSE B * g[(i + 1) - 1] + b[Len(b) - (i + 1) + 1]
        BY <1>5, <2>1 DEF ListsHorner
    <2>3. QED BY <2>1, <2>2
<1>8. QED BY <1>6, <1>7 DEF g

\* It lies below a power of the base, and has the digits it is made of.
LEMMA HornerHasDigits ==
    ASSUME NEW B \in Nat \ {0}, NEW b \in Seq(0..(B - 1))
    PROVE  \A i \in 0..Len(b) :
               /\ Horner(B, b)[i] \in 0..(PowersOf(B)[i] - 1)
               /\ \A k \in 1..i :
                      (Horner(B, b)[i] \div PowersOf(B)[k - 1]) % B = b[Len(b) - i + k]
<1> DEFINE n == Len(b)
           f == Horner(B, b)
           P == PowersOf(B)
           S == {i \in 0..n : /\ f[i] \in 0..(P[i] - 1)
                              /\ \A k \in 1..i : (f[i] \div P[k - 1]) % B = b[n - i + k]}
<1>0. n \in Nat
    OBVIOUS
<1>p. P[0] = 1 /\ \A k \in Nat : P[k] \in Nat \ {0} /\ P[k + 1] = B * P[k]
    BY PowersFacts
<1>f. f[0] = 0 /\ \A i \in 0..(Len(b) - 1) : f[i + 1] = B * f[i] + b[Len(b) - i]
    BY HornerStep
<1> HIDE DEF f, P
<1>1. 0 \in S
    <2>1. f[0] = 0 /\ P[0] = 1 /\ 0 \in 0..n
        BY <1>0, <1>p, <1>f
    <2>2. QED BY <2>1
<1>2. ASSUME NEW i \in 0..(n - 1), i \in S PROVE i + 1 \in S
    <2> DEFINE v == f[i]
               d == b[n - i]
               w == f[i + 1]
    <2>0. i \in Nat /\ i + 1 \in 0..n /\ i + 1 # 0 /\ (i + 1) - 1 = i /\ n - (i + 1) + 1 = n - i
          /\ n - i \in 1..n
        BY <1>0
    <2>1. w = B * v + d
        BY <1>f
    <2>2. d \in 0..(B - 1)
        BY <2>0
    <2>3. /\ v \in 0..(P[i] - 1) /\ P[i] \in Nat \ {0}
          /\ \A k \in 1..i : (v \div P[k - 1]) % B = b[n - i + k]
        BY <1>2, <1>p, <2>0
    <2>4. P[i + 1] = B * P[i]
        BY <1>p, <2>0
    <2>5. w \in 0..(P[i + 1] - 1)
        <3> HIDE DEF v, w, d
        <3>1. v + 1 <= P[i] BY <2>3
        <3>2. B * (v + 1) <= B * P[i]
            <4> DEFINE x == v + 1
                       y == P[i]
            <4>1. x \in Nat /\ y \in Nat /\ x <= y BY <2>3, <3>1
            <4> HIDE DEF x, y
            <4>2. y - x \in Nat /\ B * (y - x) \in Nat BY <4>1
            <4>3. B * y = B * x + B * (y - x) BY <4>1, <4>2
            <4>4. B * x <= B * y BY <4>1, <4>2, <4>3
            <4>5. QED BY <4>4 DEF x, y
        <3>3. B * (v + 1) = B * v + B /\ B * v \in Nat BY <2>3
        <3>4. B * P[i] \in Nat BY <2>3
        <3>5. QED BY <2>1, <2>2, <2>4, <3>2, <3>3, <3>4
    <2>6. w \div B = v /\ w % B = d
        <3> HIDE DEF v, w, d
        <3>1. w \in Int /\ v \in Int BY <2>3, <2>5
        <3>2. QED BY <2>1, <2>2, <3>1, QuotientAndRest
    <2>7. ASSUME NEW k \in 1..(i + 1)
          PROVE  (w \div P[k - 1]) % B = b[n - (i + 1) + k]
        <3>1. CASE k = 1
            <4>1. k - 1 = 0 /\ P[k - 1] = 1 /\ n - (i + 1) + k = n - i
                BY <1>0, <1>p, <3>1
            <4>2. w \div 1 = w
                <5> HIDE DEF w
                <5>1. w \in Int BY <2>5
                <5>2. QED BY <5>1
            <4>3. QED BY <2>6, <4>1, <4>2
        <3>2. CASE k # 1
            <4>1. k - 1 \in 1..i /\ k - 2 \in Nat /\ (k - 1) - 1 = k - 2 /\ (k - 2) + 1 = k - 1
                  /\ n - (i + 1) + k = n - i + (k - 1)
                BY <1>0, <3>2
            <4>2. P[k - 1] = B * P[k - 2] /\ P[k - 2] \in Nat \ {0}
                BY <1>p, <4>1
            <4>3. w \div (B * P[k - 2]) = (w \div B) \div P[k - 2]
                <5> HIDE DEF w
                <5>1. w \in Nat BY <2>5
                <5>2. QED BY <4>2, <5>1, DivideTwice
            <4>4. (v \div P[(k - 1) - 1]) % B = b[n - i + (k - 1)]
                BY <2>3, <4>1
            <4>5. QED BY <2>6, <4>1, <4>2, <4>3, <4>4
        <3>3. QED BY <3>1, <3>2
    <2>8. QED BY <2>0, <2>5, <2>7
<1>3. 0..n \subseteq S
    <2> HIDE DEF S, n
    <2>1. QED BY <1>0, <1>1, <1>2, BoundedInduction
<1>4. QED BY <1>3 DEF f, P

\* A number below a power of the base is made of its digits.
LEMMA HornerOfDigits ==
    ASSUME NEW B \in Nat \ {0}, NEW n \in Nat, NEW v \in 0..(PowersOf(B)[n] - 1),
           NEW b \in Seq(0..(B - 1)), Len(b) = n,
           \A k \in 1..n : b[k] = (v \div PowersOf(B)[k - 1]) % B
    PROVE  Horner(B, b)[n] = v
<1> DEFINE f == Horner(B, b)
           P == PowersOf(B)
           S == {i \in 0..n : f[i] = v \div P[n - i]}
<1>p. P[0] = 1 /\ \A k \in Nat : P[k] \in Nat \ {0} /\ P[k + 1] = B * P[k]
    BY PowersFacts
<1>f. f[0] = 0 /\ \A i \in 0..(n - 1) : f[i + 1] = B * f[i] + b[n - i]
    BY HornerStep
<1>v. v \in Nat /\ v < P[n] /\ \A k \in 1..n : b[k] = (v \div P[k - 1]) % B
    <2>1. P[n] \in Nat \ {0} BY <1>p
    <2>2. QED BY <2>1
<1> HIDE DEF f, P
<1>1. 0 \in S
    <2>1. n - 0 = n /\ 0 \in 0..n OBVIOUS
    <2>2. P[n] \in Nat \ {0} BY <1>p
    <2>3. v = P[n] * 0 + v /\ v \in 0..(P[n] - 1) BY <1>v, <2>2
    <2>4. v \div P[n] = 0 BY <1>v, <2>2, <2>3, QuotientAndRest
    <2>5. QED BY <1>f, <2>1, <2>4
<1>2. ASSUME NEW i \in 0..(n - 1), i \in S PROVE i + 1 \in S
    <2> DEFINE m == n - (i + 1)
               q == v \div P[m]
    <2>0. m \in Nat /\ n - i = m + 1 /\ n - i \in 1..n /\ (n - i) - 1 = m /\ i + 1 \in 0..n
        OBVIOUS
    <2>1. P[m] \in Nat \ {0} /\ P[m + 1] = B * P[m]
        BY <1>p, <2>0
    <2>2. q \in Nat
        <3> DEFINE r == P[m]
        <3>1. r \in Nat \ {0} BY <2>1
        <3> HIDE DEF r
        <3>2. v \div r \in Nat BY <1>v, <3>1
        <3>3. QED BY <3>2 DEF r
    <2>3. v \div P[n - i] = q \div B
        <3> DEFINE r == P[m]
        <3>1. r \in Nat \ {0} BY <2>1
        <3>2. v \div (r * B) = (v \div r) \div B
            <4> HIDE DEF r
            <4>1. QED BY <1>v, <3>1, DivideTwice
        <3>3. B * r = r * B
            <4> HIDE DEF r
            <4>1. QED BY <3>1
        <3>4. QED BY <2>0, <2>1, <3>2, <3>3
    <2>4. f[i] = q \div B
        BY <1>2, <2>3
    <2>5. b[n - i] = q % B
        BY <1>v, <2>0
    <2>6. f[i + 1] = B * (q \div B) + (q % B)
        BY <1>f, <2>4, <2>5
    <2>7. f[i + 1] = q
        <3> HIDE DEF q
        <3>1. q = B * (q \div B) + (q % B) BY <2>2
        <3>2. QED BY <2>6, <3>1
    <2>8. QED BY <2>0, <2>7
<1>3. 0..n \subseteq S
    <2> HIDE DEF S
    <2>1. QED BY <1>1, <1>2, BoundedInduction
<1>4. f[n] = v \div P[n - n]
    BY <1>3
<1>5. QED
    <2>1. n - n = 0 /\ P[0] = 1 /\ v \div 1 = v BY <1>p, <1>v
    <2>2. QED BY <1>4, <2>1 DEF f
=============================================================================
