------------------------ MODULE ConfigurationProofs ------------------------
(***************************************************************************)
(* What holds of Configuration for every size of the table and the file,   *)
(* every set of instances and values and every block a client may write:   *)
(* the table and the stack's database agree, applying a restore makes      *)
(* the created Analog Values exactly the accepted set, and a backup taken  *)
(* at any time fits the file, is accepted and gives back what was there.   *)
(***************************************************************************)
EXTENDS Configuration, WellFoundedInduction, FiniteSetTheorems, SequenceTheorems, TLAPS

-----------------------------------------------------------------------------
(***************************************************************************)
(* Natural numbers.                                                        *)
(***************************************************************************)
\* A set of naturals has a least element, and Min is it.
LEMMA MinFacts ==
    ASSUME NEW S, S \subseteq Nat, S # {}
    PROVE  Min(S) \in S /\ \A y \in S : Min(S) <= y
<1>1. PICK m \in S : \A y \in S : ~(<<y, m>> \in OpToRel(<, Nat))
    BY NatLessThanWellFounded, WFMin
<1>2. \A y \in S : m <= y
    <2>. SUFFICES ASSUME NEW y \in S, y < m PROVE FALSE
        OBVIOUS
    <2>1. <<y, m>> \in OpToRel(<, Nat)
        BY DEF OpToRel
    <2>. QED BY <1>1, <2>1
<1>. QED BY <1>2 DEF Min

\* Induction over the naturals, stated for a set.
LEMMA NatSetInduction ==
    ASSUME NEW S, 0 \in S, \A n \in Nat : n \in S => n + 1 \in S
    PROVE  Nat \subseteq S
<1>. SUFFICES ASSUME Nat \ S # {} PROVE FALSE
    OBVIOUS
<1>. DEFINE m == Min(Nat \ S)
<1>1. m \in Nat \ S /\ \A y \in Nat \ S : m <= y
    BY MinFacts
<1>. HIDE DEF m
<1>2. m # 0 /\ m - 1 \in Nat /\ (m - 1) + 1 = m
    BY <1>1
<1>3. m - 1 \in S
    BY <1>1, <1>2
<1>. QED BY <1>1, <1>2, <1>3

\* Division by a positive number.
LEMMA Division ==
    ASSUME NEW n \in Nat \ {0}, NEW q \in Int, NEW r \in 0..(n - 1)
    PROVE  (q * n + r) \div n = q /\ (q * n + r) % n = r
  BY Z3

\* Every number has a quotient and a remainder.
LEMMA Divided ==
    ASSUME NEW n \in Nat \ {0}, NEW a \in Nat
    PROVE  /\ a = (a \div n) * n + (a % n) /\ a % n \in 0..(n - 1) /\ a \div n \in Nat
<1>. DEFINE q == a \div n
            r == a % n
<1>1. a = q * n + r /\ r \in 0..(n - 1) /\ q \in Int
    BY Z3
<1>. HIDE DEF q, r
<1>2. q >= 0
    BY <1>1, Z3
<1>. QED BY <1>1, <1>2 DEF q, r

\* Dividing by n and then by ten is dividing by ten times n.
LEMMA DivideTwice ==
    ASSUME NEW n \in Nat \ {0}, NEW a \in Nat
    PROVE  (a \div n) \div 10 = a \div (10 * n)
<1>. DEFINE q == a \div n
            r == a % n
            x == q \div 10
            y == q % 10
<1>1. a = q * n + r /\ r \in 0..(n - 1) /\ q \in Nat
    BY Divided
<1>2. q = x * 10 + y /\ y \in 0..9 /\ x \in Nat
    <2>. HIDE DEF q
    <2>. QED BY <1>1
<1>. HIDE DEF q, r, x, y
<1>3. a = x * (10 * n) + (y * n + r) /\ y * n + r \in 0..(10 * n - 1) /\ 10 * n \in Nat \ {0}
    <2>1. a = x * (10 * n) + (y * n + r)
        BY <1>1, <1>2, Z3
    <2>2. y * n \in Nat /\ y * n <= 9 * n
        BY <1>2, Z3
    <2>3. y * n + r <= 10 * n - 1
        BY <1>1, <2>2
    <2>. QED BY <1>1, <2>1, <2>2, <2>3
<1>4. a \div (10 * n) = x
    <2>. DEFINE w == 10 * n
                u == y * n + r
    <2>1. a = x * w + u /\ u \in 0..(w - 1) /\ w \in Nat \ {0}
        BY <1>3
    <2>. HIDE DEF w, u
    <2>2. a \div w = x
        BY <1>2, <2>1, Division
    <2>. QED BY <2>2 DEF w
<1>. QED BY <1>4 DEF q, x

-----------------------------------------------------------------------------
(***************************************************************************)
(* Powers of ten.                                                          *)
(***************************************************************************)
\* One turn of the recursion.
TenStep(g, n) == IF n = 0 THEN 1 ELSE 10 * g[n - 1]

\* There are powers of ten up to any one.
LEMMA TenToExistsUpTo ==
    ASSUME NEW n \in Nat
    PROVE  \E g : g = [k \in 0..n |-> TenStep(g, k)]
<1>. DEFINE S == {i \in Nat : \E g : g = [k \in 0..i |-> TenStep(g, k)]}
<1>1. 0 \in S
    <2>. DEFINE g == [k \in 0..0 |-> 1]
    <2>1. g = [k \in 0..0 |-> TenStep(g, k)]
        BY DEF TenStep
    <2>. HIDE DEF g
    <2>. QED BY <2>1
<1>2. ASSUME NEW i \in Nat, i \in S
      PROVE  i + 1 \in S
    <2>1. PICK g : g = [k \in 0..i |-> TenStep(g, k)]
        BY <1>2
    <2>. DEFINE h == [k \in 0..(i+1) |-> IF k = i + 1 THEN TenStep(g, k) ELSE g[k]]
    <2>2. \A k \in 0..(i+1) : TenStep(h, k) = TenStep(g, k)
        <3>1. \A k \in 0..i : h[k] = g[k]
            OBVIOUS
        <3>2. \A k \in 1..(i+1) : k - 1 \in 0..i
            OBVIOUS
        <3>. HIDE DEF h
        <3>. QED BY <3>1, <3>2 DEF TenStep
    <2>3. \A k \in 0..(i+1) : h[k] = TenStep(g, k)
        BY <2>1
    <2>4. h = [k \in 0..(i+1) |-> h[k]]
        OBVIOUS
    <2>. HIDE DEF h
    <2>5. h = [k \in 0..(i+1) |-> TenStep(h, k)]
        BY <2>2, <2>3, <2>4
    <2>. QED BY <2>5
<1>. HIDE DEF S
<1>3. Nat \subseteq S
    BY <1>1, <1>2, NatSetInduction
<1>. QED BY <1>3 DEF S

\* The powers of ten follow their recursion.
LEMMA TenToDef == TenTo = [n \in Nat |-> TenStep(TenTo, n)]
<1>. DEFINE G(n) == CHOOSE g : g = [k \in 0..n |-> TenStep(g, k)]
            d == [n \in Nat |-> G(n)[n]]
<1>1. \A n \in Nat : G(n) = [k \in 0..n |-> TenStep(G(n), k)]
    BY TenToExistsUpTo
<1>. HIDE DEF G
<1>2. ASSUME NEW n \in Nat
      PROVE  \A k \in Nat : k <= n => G(n)[k] = G(n + 1)[k]
    <2>. DEFINE S == {k \in Nat : k <= n => G(n)[k] = G(n + 1)[k]}
    <2>1. \A k \in 0..n : G(n)[k] = TenStep(G(n), k) /\ G(n + 1)[k] = TenStep(G(n + 1), k)
        <3>1. G(n) = [k \in 0..n |-> TenStep(G(n), k)] /\ G(n + 1) = [k \in 0..(n + 1) |-> TenStep(G(n + 1), k)]
            BY <1>1
        <3>2. 0..n \subseteq 0..(n + 1)
            OBVIOUS
        <3>. QED BY <3>1, <3>2
    <2>2. 0 \in S
        BY <2>1 DEF TenStep
    <2>3. ASSUME NEW k \in Nat, k \in S PROVE k + 1 \in S
        BY <2>1, <2>3 DEF TenStep
    <2>. HIDE DEF S
    <2>4. Nat \subseteq S
        BY <2>2, <2>3, NatSetInduction
    <2>. QED BY <2>4 DEF S
<1>3. \A m \in Nat : d[m] = TenStep(d, m)
    <2>. SUFFICES ASSUME NEW m \in Nat PROVE d[m] = TenStep(d, m)
        OBVIOUS
    <2>1. d[m] = TenStep(G(m), m)
        <3>1. m \in 0..m
            OBVIOUS
        <3>. QED BY <1>1, <3>1
    <2>2. CASE m = 0
        BY <2>1, <2>2 DEF TenStep
    <2>3. CASE m # 0
        <3>1. m - 1 \in Nat /\ (m - 1) + 1 = m /\ m - 1 <= m - 1
            BY <2>3
        <3>2. G(m - 1)[m - 1] = G((m - 1) + 1)[m - 1]
            BY <3>1, <1>2
        <3>3. d[m - 1] = G(m)[m - 1]
            BY <3>1, <3>2
        <3>. QED BY <2>1, <2>3, <3>3 DEF TenStep
    <2>. QED BY <2>2, <2>3
<1>4. d = [m \in Nat |-> d[m]]
    OBVIOUS
<1>. HIDE DEF d
<1>5. d = [m \in Nat |-> TenStep(d, m)]
    BY <1>3, <1>4
<1>. DEFINE Def(f) == f = [m \in Nat |-> TenStep(f, m)]
<1>6. TenTo = CHOOSE f : Def(f)
    BY DEF TenTo, TenStep
<1>7. Def(d)
    BY <1>5
<1>. HIDE DEF Def
<1>8. Def(TenTo)
    BY <1>6, <1>7
<1>. QED BY <1>8 DEF Def

\* They are positive, greater than their exponent, and grow tenfold.
LEMMA TenToFacts ==
    /\ TenTo[0] = 1
    /\ \A n \in Nat : TenTo[n] \in Nat \ {0} /\ TenTo[n] > n /\ TenTo[n + 1] = 10 * TenTo[n]
<1>1. TenTo[0] = 1
    BY TenToDef DEF TenStep
<1>2. \A k \in Nat : TenTo[k + 1] = 10 * TenTo[k]
    <2>. SUFFICES ASSUME NEW k \in Nat PROVE TenTo[k + 1] = 10 * TenTo[k]
        OBVIOUS
    <2>1. k + 1 \in Nat /\ (k + 1) - 1 = k /\ k + 1 # 0
        OBVIOUS
    <2>2. TenTo[k + 1] = TenStep(TenTo, k + 1)
        BY <2>1, TenToDef
    <2>. QED BY <2>1, <2>2 DEF TenStep
<1>. DEFINE S == {k \in Nat : TenTo[k] \in Nat \ {0} /\ TenTo[k] > k}
<1>3. 0 \in S
    BY <1>1
<1>4. ASSUME NEW k \in Nat, k \in S PROVE k + 1 \in S
    BY <1>2, <1>4
<1>. HIDE DEF S
<1>5. Nat \subseteq S
    BY <1>3, <1>4, NatSetInduction
<1>. QED BY <1>1, <1>2, <1>5 DEF S

\* The power of a sum is the product of the powers.
LEMMA TenToSum ==
    ASSUME NEW a \in Nat, NEW b \in Nat
    PROVE  TenTo[a + b] = TenTo[a] * TenTo[b]
<1>. DEFINE S == {k \in Nat : TenTo[a + k] = TenTo[a] * TenTo[k]}
<1>1. 0 \in S
    BY TenToFacts
<1>2. ASSUME NEW k \in Nat, k \in S PROVE k + 1 \in S
    <2>. DEFINE x == TenTo[a]
                y == TenTo[k]
    <2>1. x \in Nat /\ y \in Nat /\ TenTo[a + k] = x * y
        BY <1>2, TenToFacts
    <2>2. a + k \in Nat /\ a + (k + 1) = (a + k) + 1
        OBVIOUS
    <2>3. TenTo[a + (k + 1)] = 10 * TenTo[a + k] /\ TenTo[k + 1] = 10 * y
        BY <2>2, TenToFacts
    <2>. HIDE DEF x, y
    <2>4. 10 * (x * y) = x * (10 * y)
        BY <2>1, Z3
    <2>. QED BY <2>1, <2>3, <2>4 DEF x
<1>. HIDE DEF S
<1>3. Nat \subseteq S
    BY <1>1, <1>2, NatSetInduction
<1>. QED BY <1>3 DEF S

\* A greater exponent makes a greater power.
LEMMA TenToGrows ==
    ASSUME NEW a \in Nat, NEW b \in Nat, a <= b
    PROVE  TenTo[a] <= TenTo[b]
<1>. DEFINE x == TenTo[a]
            y == TenTo[b - a]
<1>1. b - a \in Nat /\ a + (b - a) = b
    OBVIOUS
<1>2. TenTo[b] = x * y /\ x \in Nat /\ y \in Nat \ {0}
    <2>1. TenTo[a + (b - a)] = TenTo[a] * TenTo[b - a]
        BY <1>1, TenToSum
    <2>2. x \in Nat /\ y \in Nat \ {0}
        BY <1>1, TenToFacts
    <2>. QED BY <1>1, <2>1, <2>2
<1>. HIDE DEF x, y
<1>3. x <= x * y
    BY <1>2, Z3
<1>. QED BY <1>2, <1>3 DEF x

-----------------------------------------------------------------------------
(***************************************************************************)
(* Printing a number.                                                      *)
(***************************************************************************)
\* The number of digits is the least exponent whose power is greater.
LEMMA DigitsFacts ==
    ASSUME NEW v \in Nat
    PROVE  /\ NumberOfDigits(v) \in Nat \ {0}
           /\ v < TenTo[NumberOfDigits(v)]
           /\ \A k \in Nat \ {0} : v < TenTo[k] => NumberOfDigits(v) <= k
<1>. DEFINE N == {n \in Nat : n # 0 /\ v < TenTo[n]}
            Fits(n) == v < TenTo[n] /\ (n = 1 \/ TenTo[n - 1] <= v)
            least == Min(N)
<1>1. v + 1 \in N
    <2>1. TenTo[v + 1] > v + 1 /\ TenTo[v + 1] \in Nat
        BY TenToFacts
    <2>. QED BY <2>1
<1>2. least \in N /\ \A n \in N : least <= n
    <2>1. N \subseteq Nat /\ N # {}
        BY <1>1
    <2>. HIDE DEF N
    <2>. QED BY <2>1, MinFacts
<1>. HIDE DEF least
<1>3. least \in 1..(v + 1)
    BY <1>1, <1>2
<1>4. Fits(least)
    <2>1. v < TenTo[least] /\ least \in Nat \ {0}
        BY <1>2
    <2>2. ASSUME least # 1 PROVE TenTo[least - 1] <= v
        <3>1. least - 1 \in Nat /\ least - 1 # 0 /\ ~(least <= least - 1)
            BY <2>1, <2>2
        <3>2. least - 1 \notin N
            BY <1>2, <3>1
        <3>3. TenTo[least - 1] \in Nat
            BY <3>1, TenToFacts
        <3>. QED BY <3>1, <3>2, <3>3
    <2>. QED BY <2>1, <2>2
<1>5. NumberOfDigits(v) = CHOOSE n \in 1..(v + 1) : Fits(n)
    BY DEF NumberOfDigits
<1>. DEFINE d == NumberOfDigits(v)
<1>6. d \in 1..(v + 1) /\ Fits(d)
    <2>. HIDE DEF Fits
    <2>. QED BY <1>3, <1>4, <1>5
<1>. HIDE DEF d
<1>7. ASSUME NEW k \in Nat \ {0}, v < TenTo[k], k < d PROVE FALSE
    <2>1. d # 1 /\ d - 1 \in Nat /\ k <= d - 1
        BY <1>6, <1>7
    <2>2. TenTo[k] <= TenTo[d - 1] /\ TenTo[k] \in Nat /\ TenTo[d - 1] \in Nat
        BY <2>1, TenToGrows, TenToFacts
    <2>. QED BY <1>6, <1>7, <2>1, <2>2
<1>8. d \in Nat \ {0} /\ v < TenTo[d]
    BY <1>6
<1>9. \A k \in Nat \ {0} : v < TenTo[k] => d <= k
    BY <1>7, <1>8
<1>. QED BY <1>8, <1>9 DEF d

\* Rounding to units stays below the next power of ten, or reaches it.
LEMMA NearestFacts ==
    ASSUME NEW v \in Nat, NEW d \in Nat
    PROVE  /\ Nearest(v, d) \in Nat
           /\ \A k \in Nat : v < TenTo[k + d] => Nearest(v, d) <= TenTo[k]
           /\ d = 0 => Nearest(v, d) = v
<1>. DEFINE unit == TenTo[d]
            q == v \div unit
            r == v % unit
<1>1. unit \in Nat \ {0}
    BY TenToFacts
<1>. HIDE DEF unit
<1>2. v = q * unit + r /\ r \in 0..(unit - 1) /\ q \in Nat
    BY <1>1, Divided
<1>3. Nearest(v, d) = IF 2*r > unit \/ (2*r = unit /\ q % 2 = 1) THEN q + 1 ELSE q
    BY DEF Nearest, unit
<1>. HIDE DEF q, r
<1>4. Nearest(v, d) \in {q, q + 1}
    BY <1>3
<1>5. ASSUME NEW k \in Nat, v < TenTo[k + d] PROVE Nearest(v, d) <= TenTo[k]
    <2>. DEFINE t == TenTo[k]
    <2>1. TenTo[k + d] = t * unit /\ t \in Nat
        BY TenToSum, TenToFacts DEF unit
    <2>. HIDE DEF t
    <2>2. q * unit < t * unit
        <3>1. q * unit \in Nat /\ t * unit \in Nat
            BY <1>1, <1>2, <2>1
        <3>. QED BY <1>2, <1>5, <2>1, <3>1
    <2>3. q < t
        BY <1>1, <1>2, <2>1, <2>2, Z3
    <2>4. q + 1 <= t
        BY <1>2, <2>1, <2>3
    <2>. QED BY <1>2, <1>4, <2>1, <2>4 DEF t
<1>6. ASSUME d = 0 PROVE Nearest(v, d) = v
    <2>1. unit = 1
        BY <1>6, TenToFacts DEF unit
    <2>2. r = 0 /\ q = v
        BY <1>2, <2>1
    <2>. QED BY <1>3, <2>1, <2>2
<1>. QED BY <1>2, <1>4, <1>5, <1>6

\* What is printed has at most SignificantDigits digits.
LEMMA MantissaFacts ==
    ASSUME NEW v \in Nat
    PROVE  Dropped(v) \in Nat /\ Mantissa(v) \in Nat /\ Mantissa(v) < TenTo[SignificantDigits]
<1>. DEFINE n == NumberOfDigits(v)
            sd == SignificantDigits
            d == IF n > sd THEN n - sd ELSE 0
<1>0. sd \in Nat \ {0} /\ sd - 1 \in Nat
    BY ImageAssumption
<1>1. n \in Nat \ {0} /\ v < TenTo[n]
    BY DigitsFacts
<1>2. d \in Nat /\ n <= sd + d
    BY <1>0, <1>1
<1>3. v < TenTo[sd + d] /\ TenTo[sd] \in Nat
    <2>1. sd + d \in Nat
        BY <1>0, <1>2
    <2>2. TenTo[n] <= TenTo[sd + d] /\ TenTo[n] \in Nat /\ TenTo[sd + d] \in Nat /\ TenTo[sd] \in Nat
        BY <1>0, <1>1, <1>2, <2>1, TenToGrows, TenToFacts
    <2>. QED BY <1>1, <2>2
<1>4. Dropped(v) = IF Nearest(v, d) = TenTo[sd] THEN d + 1 ELSE d
    BY DEF Dropped
<1>. HIDE DEF n, d
<1>5. Nearest(v, d) \in Nat /\ Nearest(v, d) <= TenTo[sd]
    BY <1>0, <1>2, <1>3, NearestFacts
<1>6. CASE Nearest(v, d) # TenTo[sd]
    BY <1>2, <1>3, <1>4, <1>5, <1>6 DEF Mantissa
<1>7. CASE Nearest(v, d) = TenTo[sd]
    <2>1. Dropped(v) = d + 1 /\ d + 1 \in Nat /\ (sd - 1) + (d + 1) = sd + d
        BY <1>0, <1>2, <1>4, <1>7
    <2>2. Nearest(v, d + 1) \in Nat /\ Nearest(v, d + 1) <= TenTo[sd - 1]
        BY <1>0, <1>3, <2>1, NearestFacts
    <2>3. TenTo[sd - 1] < TenTo[sd]
        <3>1. TenTo[(sd - 1) + 1] = 10 * TenTo[sd - 1] /\ TenTo[sd - 1] \in Nat \ {0}
            BY <1>0, TenToFacts
        <3>2. (sd - 1) + 1 = sd
            BY <1>0
        <3>. QED BY <3>1, <3>2
    <2>4. TenTo[sd - 1] \in Nat
        BY <1>0, TenToFacts
    <2>. QED BY <1>3, <2>1, <2>2, <2>3, <2>4 DEF Mantissa
<1>. QED BY <1>6, <1>7

\* Printing keeps a number of at most SignificantDigits digits as it is, and changes a
\* longer one by at most half a unit of the last digit it keeps.
THEOREM RoundedIsNear ==
    ASSUME NEW v \in Nat
    PROVE  /\ v < TenTo[SignificantDigits] => Rounded(v) = v
           /\ 2 * (v - Rounded(v)) <= TenTo[Dropped(v)]
           /\ 2 * (Rounded(v) - v) <= TenTo[Dropped(v)]
<1>. DEFINE d == Dropped(v)
            unit == TenTo[d]
            q == v \div unit
            r == v % unit
            near == Nearest(v, d)
<1>0. d \in Nat
    BY MantissaFacts
<1>1. unit \in Nat \ {0}
    BY <1>0, TenToFacts
<1>2. near = IF 2*r > unit \/ (2*r = unit /\ q % 2 = 1) THEN q + 1 ELSE q
    BY DEF Nearest
<1>3. Rounded(v) = near * unit
    BY DEF Rounded, Mantissa
<1>. HIDE DEF unit, near
<1>4. v = q * unit + r /\ r \in 0..(unit - 1) /\ q \in Nat
    BY <1>1, Divided
<1>. HIDE DEF d, q, r
<1>5. (near = q /\ 2*r <= unit) \/ (near = q + 1 /\ 2*r >= unit)
    BY <1>1, <1>2, <1>4
<1>6. 2 * (v - near * unit) <= unit /\ 2 * (near * unit - v) <= unit
    <2>. DEFINE w == q * unit
    <2>1. w \in Nat /\ (q + 1) * unit = w + unit
        BY <1>1, <1>4, Z3
    <2>2. v = w + r
        BY <1>4
    <2>3. near * unit = w \/ near * unit = w + unit
        BY <1>5, <2>1
    <2>4. CASE near = q /\ 2*r <= unit
        <3>1. near * unit = w
            BY <2>4
        <3>. HIDE DEF w
        <3>. QED BY <1>1, <1>4, <2>1, <2>2, <2>4, <3>1
    <2>5. CASE near = q + 1 /\ 2*r >= unit
        <3>1. near * unit = w + unit
            BY <2>1, <2>5
        <3>. HIDE DEF w
        <3>. QED BY <1>1, <1>4, <2>1, <2>2, <2>5, <3>1
    <2>. QED BY <1>5, <2>4, <2>5
<1>7. ASSUME v < TenTo[SignificantDigits] PROVE Rounded(v) = v
    <2>1. NumberOfDigits(v) <= SignificantDigits /\ NumberOfDigits(v) \in Nat
        BY <1>7, DigitsFacts, ImageAssumption
    <2>2. Nearest(v, 0) = v /\ TenTo[SignificantDigits] \in Nat
        BY NearestFacts, TenToFacts, ImageAssumption
    <2>3. Dropped(v) = 0
        BY <1>7, <2>1, <2>2, ImageAssumption DEF Dropped
    <2>4. Mantissa(v) = v
        BY <2>2, <2>3 DEF Mantissa
    <2>. QED BY <2>3, <2>4, TenToFacts DEF Rounded
<1>. QED BY <1>3, <1>6, <1>7 DEF unit, d

-----------------------------------------------------------------------------
(***************************************************************************)
(* Analog Values, and what the table and the database say of each other.   *)
(***************************************************************************)
\* An entry that is an Analog Value.
IsAv(av) == av \in AnalogValues

\* The table t holds Analog Values, one for each instance in db.
Agree(t, db) ==
    /\ t = [s \in Slots |-> t[s]]
    /\ \A s \in Slots : t[s] = Free \/ IsAv(t[s])
    /\ \A s \in Slots : t[s] # Free => t[s].instance \in db
    /\ \A i \in db : \E s \in Slots : t[s] # Free /\ t[s].instance = i
    /\ \A s1, s2 \in Slots : (s1 # s2 /\ t[s1] # Free) => t[s1].instance # t[s2].instance

\* An Analog Value is no free slot.
LEMMA AvIsNotFree ==
    ASSUME NEW av, IsAv(av)
    PROVE  av # Free /\ av.instance # -1 /\ av.instance \in Nat /\ av.value \in Nat
<1>1. av.instance \in Instances /\ av.value \in Nat
    BY DEF IsAv, AnalogValues
<1>2. av.instance \in Nat
    BY <1>1, ConfigurationAssumption
<1>3. Free.instance = -1
    BY DEF Free
<1>. QED BY <1>1, <1>2, <1>3

\* A free slot names no object.
LEMMA FreeNamesNone == Free.instance = -1
BY DEF Free

\* Records of an instance and a value are Analog Values.
LEMMA AvFacts ==
    ASSUME NEW i \in Instances, NEW v \in Nat
    PROVE  IsAv([instance |-> i, value |-> v]) /\ [instance |-> i, value |-> v].instance = i
BY DEF IsAv, AnalogValues

\* Writing a value leaves the instance.
LEMMA WriteKeepsInstance ==
    ASSUME NEW av, IsAv(av), NEW v \in Nat
    PROVE  IsAv([av EXCEPT !.value = v]) /\ [av EXCEPT !.value = v].instance = av.instance
<1>. DEFINE i == av.instance
            w == av.value
<1>1. i \in Instances /\ av = [instance |-> i, value |-> w]
    BY DEF IsAv, AnalogValues
<1>. HIDE DEF i, w
<1>2. [av EXCEPT !.value = v] = [instance |-> i, value |-> v]
    BY <1>1
<1>. QED BY <1>1, <1>2, AvFacts

\* The slots FindCreatedAnalogValue and FindFreeAnalogValueSlot return fit.
LEMMA FoundSlots ==
    ASSUME NEW t, NEW i
    PROVE  /\ SlotsOf(t, i) # {} => /\ FindCreatedAnalogValue(t, i) \in Slots
                                    /\ t[FindCreatedAnalogValue(t, i)].instance = i
           /\ FreeSlots(t) # {} => /\ FindFreeAnalogValueSlot(t) \in Slots
                                   /\ t[FindFreeAnalogValueSlot(t)] = Free
<1>1. Slots \subseteq Nat
    BY ImageAssumption DEF Slots
<1>2. ASSUME SlotsOf(t, i) # {}
      PROVE  FindCreatedAnalogValue(t, i) \in SlotsOf(t, i)
    <2>1. SlotsOf(t, i) \subseteq Nat
        BY <1>1 DEF SlotsOf
    <2>. QED BY <1>2, <2>1, MinFacts DEF FindCreatedAnalogValue
<1>3. ASSUME FreeSlots(t) # {}
      PROVE  FindFreeAnalogValueSlot(t) \in FreeSlots(t)
    <2>1. FreeSlots(t) \subseteq Nat
        BY <1>1 DEF FreeSlots
    <2>. QED BY <1>3, <2>1, MinFacts DEF FindFreeAnalogValueSlot
<1>. QED BY <1>2, <1>3 DEF SlotsOf, FreeSlots

\* A slot with an instance is not free.
LEMMA UsedSlot ==
    ASSUME NEW t, NEW db, Agree(t, db), NEW s \in Slots, t[s].instance \in Nat
    PROVE  t[s] # Free /\ IsAv(t[s])
<1>1. t[s] # Free
    BY FreeNamesNone
<1>. QED BY <1>1 DEF Agree

\* Overwriting an entry by one of the same instance keeps the agreement.
LEMMA ReplaceKeepsAgree ==
    ASSUME NEW t, NEW db, Agree(t, db), NEW x \in Slots, NEW e, IsAv(e), t[x].instance = e.instance
    PROVE  Agree([t EXCEPT ![x] = e], db)
<1>. DEFINE u == [t EXCEPT ![x] = e]
<1>1. u = [s \in Slots |-> u[s]] /\ u[x] = e /\ \A s \in Slots : s # x => u[s] = t[s]
    BY DEF Agree
<1>2. e # Free /\ e.instance \in Nat /\ t[x] # Free
    BY AvIsNotFree, UsedSlot
<1>3. \A s \in Slots : (u[s] = Free <=> t[s] = Free) /\ u[s].instance = t[s].instance
    BY <1>1, <1>2
<1>. HIDE DEF u
<1>4. \A s \in Slots : u[s] = Free \/ IsAv(u[s])
    BY <1>1 DEF Agree
<1>5. Agree(u, db)
    BY <1>1, <1>3, <1>4 DEF Agree
<1>. QED BY <1>5 DEF u

\* Taking a free slot for an object the database then gets keeps it.
LEMMA AddKeepsAgree ==
    ASSUME NEW t, NEW db, Agree(t, db), NEW x \in Slots, t[x] = Free,
           NEW e, IsAv(e), e.instance \notin db
    PROVE  Agree([t EXCEPT ![x] = e], db \cup {e.instance})
<1>. DEFINE u == [t EXCEPT ![x] = e]
<1>1. u = [s \in Slots |-> u[s]] /\ u[x] = e /\ \A s \in Slots : s # x => u[s] = t[s]
    BY DEF Agree
<1>2. e # Free /\ e.instance # -1
    BY AvIsNotFree
<1>. HIDE DEF u
<1>3. \A s \in Slots : u[s] = Free \/ IsAv(u[s])
    BY <1>1 DEF Agree
<1>4. \A s \in Slots : u[s] # Free => u[s].instance \in db \cup {e.instance}
    BY <1>1 DEF Agree
<1>5. ASSUME NEW i \in db \cup {e.instance}
      PROVE  \E s \in Slots : u[s] # Free /\ u[s].instance = i
    <2>1. CASE i = e.instance
        BY <1>1, <1>2, <2>1
    <2>2. CASE i \in db
        <3>1. PICK s \in Slots : t[s] # Free /\ t[s].instance = i
            BY <2>2 DEF Agree
        <3>. QED BY <1>1, <3>1
    <2>. QED BY <2>1, <2>2
<1>6. ASSUME NEW s1 \in Slots, NEW s2 \in Slots, s1 # s2, u[s1] # Free
      PROVE  u[s1].instance # u[s2].instance
    <2>1. CASE s1 = x
        <3>1. u[s1] = e /\ u[s2] = t[s2]
            BY <1>1, <1>6, <2>1
        <3>2. t[s2].instance # e.instance
            BY <1>2, FreeNamesNone DEF Agree
        <3>. QED BY <3>1, <3>2
    <2>2. CASE s2 = x
        <3>1. u[s2] = e /\ u[s1] = t[s1]
            BY <1>1, <1>6, <2>2
        <3>2. t[s1].instance \in db
            BY <1>6, <3>1 DEF Agree
        <3>. QED BY <3>1, <3>2
    <2>3. CASE s1 # x /\ s2 # x
        BY <1>1, <1>6, <2>3 DEF Agree
    <2>. QED BY <2>1, <2>2, <2>3
<1>7. Agree(u, db \cup {e.instance})
    BY <1>1, <1>3, <1>4, <1>5, <1>6 DEF Agree
<1>. QED BY <1>7 DEF u

\* Freeing the slot of an object the database then loses keeps it.
LEMMA RemoveKeepsAgree ==
    ASSUME NEW t, NEW db, Agree(t, db), NEW x \in Slots, t[x] # Free
    PROVE  Agree([t EXCEPT ![x] = Free], db \ {t[x].instance})
<1>. DEFINE u == [t EXCEPT ![x] = Free]
<1>1. u = [s \in Slots |-> u[s]] /\ u[x] = Free /\ \A s \in Slots : s # x => u[s] = t[s]
    BY DEF Agree
<1>. HIDE DEF u
<1>2. \A s \in Slots : u[s] = Free \/ IsAv(u[s])
    BY <1>1 DEF Agree
<1>3. \A s \in Slots : u[s] # Free => s # x /\ u[s] = t[s] /\ t[s].instance # t[x].instance
    BY <1>1 DEF Agree
<1>4. \A s \in Slots : u[s] # Free => u[s].instance \in db \ {t[x].instance}
    BY <1>3 DEF Agree
<1>5. ASSUME NEW i \in db \ {t[x].instance}
      PROVE  \E s \in Slots : u[s] # Free /\ u[s].instance = i
    <2>1. PICK s \in Slots : t[s] # Free /\ t[s].instance = i
        BY DEF Agree
    <2>. QED BY <1>1, <2>1
<1>6. ASSUME NEW s1 \in Slots, NEW s2 \in Slots, s1 # s2, u[s1] # Free
      PROVE  u[s1].instance # u[s2].instance
    <2>1. s1 # x /\ u[s1] = t[s1]
        BY <1>1, <1>6
    <2>2. CASE s2 = x
        <3>1. IsAv(t[s1])
            BY <1>6, <2>1 DEF Agree
        <3>2. t[s1].instance # -1
            BY <3>1, AvIsNotFree
        <3>. QED BY <1>1, <2>1, <2>2, <3>2, FreeNamesNone
    <2>3. CASE s2 # x
        BY <1>1, <1>6, <2>1, <2>3 DEF Agree
    <2>. QED BY <2>2, <2>3
<1>7. Agree(u, db \ {t[x].instance})
    BY <1>1, <1>2, <1>4, <1>5, <1>6 DEF Agree
<1>. QED BY <1>7 DEF u

-----------------------------------------------------------------------------
(***************************************************************************)
(* ApplyRestoredConfiguration.                                             *)
(***************************************************************************)
\* The staging array holds Analog Values as far as it was ever filled, and the count
\* of the accepted image stays within that.
StagedOK ==
    /\ staged = [s \in Slots |-> staged[s]]
    /\ \A s \in Slots : IsAv(staged[s]) \/ staged[s] = NoEntry
    /\ stagedCount \in 0..MaxAnalogValues
    /\ \A s \in 1..stagedCount : IsAv(staged[s])

\* The instances whose objects the first loop deletes.
Removed == {table[s].instance : s \in {x \in Slots : table[x] # Free /\ Pruned[x] = Free}}

\* One turn of the second loop, the turns before it being g and the
\* entries whose object the stack refuses r.
ApplyStep(g, k, r) ==
    IF k = 0 THEN [tbl |-> Pruned, db |-> database \ Removed]
    ELSE [tbl |-> PutBack(g[k-1].tbl, g[k-1].db, staged[k], k \in r),
          db |-> IF SlotsOf(g[k-1].tbl, staged[k].instance) = {} /\ FreeSlots(g[k-1].tbl) # {} /\ k \notin r
                 THEN g[k-1].db \cup {staged[k].instance}
                 ELSE g[k-1].db]

\* The loop has a result after every number of turns.
LEMMA ApplyExists ==
    ASSUME stagedCount \in Nat, NEW r
    PROVE  \E g : g = [k \in 0..stagedCount |-> ApplyStep(g, k, r)]
<1>. DEFINE S == {n \in Nat : \E g : g = [k \in 0..n |-> ApplyStep(g, k, r)]}
<1>1. 0 \in S
    <2>. DEFINE g == [k \in 0..0 |-> ApplyStep(<< >>, 0, r)]
    <2>1. g = [k \in 0..0 |-> ApplyStep(g, k, r)]
        BY DEF ApplyStep
    <2>. HIDE DEF g
    <2>. QED BY <2>1
<1>2. ASSUME NEW n \in Nat, n \in S
      PROVE  n + 1 \in S
    <2>1. PICK g : g = [k \in 0..n |-> ApplyStep(g, k, r)]
        BY <1>2
    <2>. DEFINE h == [k \in 0..(n+1) |-> IF k = n + 1 THEN ApplyStep(g, k, r) ELSE g[k]]
    <2>2. \A k \in 0..(n+1) : ApplyStep(h, k, r) = ApplyStep(g, k, r)
        <3>1. \A k \in 0..n : h[k] = g[k]
            OBVIOUS
        <3>2. \A k \in 1..(n+1) : k - 1 \in 0..n
            OBVIOUS
        <3>. HIDE DEF h
        <3>3. ASSUME NEW k \in 0..(n+1) PROVE ApplyStep(h, k, r) = ApplyStep(g, k, r)
            <4>1. CASE k = 0
                BY <4>1 DEF ApplyStep
            <4>2. CASE k \in 1..(n+1)
                <5>1. h[k-1] = g[k-1]
                    BY <3>1, <3>2, <4>2
                <5>. QED BY <5>1, Zenon DEF ApplyStep
            <4>. QED BY <4>1, <4>2
        <3>. QED BY <3>3
    <2>3. \A k \in 0..(n+1) : h[k] = ApplyStep(g, k, r)
        BY <2>1
    <2>4. h = [k \in 0..(n+1) |-> h[k]]
        OBVIOUS
    <2>. HIDE DEF h
    <2>5. h = [k \in 0..(n+1) |-> ApplyStep(h, k, r)]
        BY <2>2, <2>3, <2>4
    <2>. QED BY <2>5
<1>. HIDE DEF S
<1>3. Nat \subseteq S
    BY <1>1, <1>2, NatSetInduction
<1>. QED BY <1>3 DEF S

\* Applying a restore makes the table and the database what the loop ends with.
LEMMA ApplyDef ==
    ASSUME stagedCount \in Nat, NEW r, ApplyRestoredConfiguration(r)
    PROVE  \E g : /\ g = [k \in 0..stagedCount |-> ApplyStep(g, k, r)]
                  /\ table' = g[stagedCount].tbl
                  /\ database' = g[stagedCount].db
<1>. DEFINE after == CHOOSE g : g = [k \in 0..stagedCount |-> ApplyStep(g, k, r)]
<1>1. after = [k \in 0..stagedCount |-> ApplyStep(after, k, r)]
    BY ApplyExists
<1>2. table' = after[stagedCount].tbl /\ database' = after[stagedCount].db
    BY DEF ApplyRestoredConfiguration, ApplyStep, Removed
<1>. QED BY <1>1, <1>2

\* The first loop leaves Analog Values of the image only, and its two arrays agree.
LEMMA PrunedAgrees ==
    ASSUME Agree(table, database), StagedOK
    PROVE  /\ Agree(Pruned, database \ Removed)
           /\ \A s \in Slots : Pruned[s] # Free => InStaged(Pruned[s].instance)
<1>1. /\ Pruned = [s \in Slots |-> Pruned[s]]
      /\ \A s \in Slots : Pruned[s] = IF InStaged(table[s].instance) THEN table[s] ELSE Free
    BY DEF Pruned
<1>2. \A s \in Slots : Pruned[s] = Free \/ (Pruned[s] = table[s] /\ InStaged(table[s].instance))
    BY <1>1
<1>3. \A s \in Slots : Pruned[s] # Free => Pruned[s].instance \in database \ Removed
    <2>. SUFFICES ASSUME NEW s \in Slots, Pruned[s] # Free PROVE Pruned[s].instance \in database \ Removed
        OBVIOUS
    <2>1. Pruned[s] = table[s] /\ table[s] # Free
        BY <1>2
    <2>2. table[s].instance \in database
        BY <2>1 DEF Agree
    <2>3. ASSUME NEW x \in Slots, table[x] # Free, Pruned[x] = Free
          PROVE  table[x].instance # table[s].instance
        BY <2>1, <2>3 DEF Agree
    <2>4. table[s].instance \notin Removed
        BY <2>3 DEF Removed
    <2>. QED BY <2>1, <2>2, <2>4
<1>4. ASSUME NEW i \in database \ Removed
      PROVE  \E s \in Slots : Pruned[s] # Free /\ Pruned[s].instance = i
    <2>1. PICK s \in Slots : table[s] # Free /\ table[s].instance = i
        BY DEF Agree
    <2>2. Pruned[s] # Free
        BY <2>1 DEF Removed
    <2>. QED BY <1>2, <2>1, <2>2
<1>5. ASSUME NEW s1 \in Slots, NEW s2 \in Slots, s1 # s2, Pruned[s1] # Free
      PROVE  Pruned[s1].instance # Pruned[s2].instance
    <2>1. Pruned[s1] = table[s1] /\ table[s1] # Free /\ IsAv(table[s1])
        BY <1>2, <1>5 DEF Agree
    <2>2. CASE Pruned[s2] = Free
        BY <2>1, <2>2, AvIsNotFree, FreeNamesNone
    <2>3. CASE Pruned[s2] = table[s2]
        BY <1>5, <2>1, <2>3 DEF Agree
    <2>. QED BY <1>2, <2>2, <2>3
<1>6. \A s \in Slots : Pruned[s] = Free \/ IsAv(Pruned[s])
    BY <1>2 DEF Agree
<1>7. Agree(Pruned, database \ Removed)
    <2>. HIDE DEF Pruned, Removed
    <2>. QED BY <1>1, <1>3, <1>4, <1>5, <1>6 DEF Agree
<1>. QED BY <1>2, <1>7

\* While the table holds Analog Values of the image only and one of the image is
\* missing, there is a free slot for it: "could not recreate" is never reached.
LEMMA AlwaysRoom ==
    ASSUME StagedOK, NEW t, NEW db, Agree(t, db),
           \A s \in Slots : t[s] # Free => InStaged(t[s].instance),
           NEW k \in 1..stagedCount, SlotsOf(t, staged[k].instance) = {}
    PROVE  FreeSlots(t) # {}
<1>. SUFFICES ASSUME FreeSlots(t) = {} PROVE FALSE
    OBVIOUS
<1>. DEFINE T == (1..stagedCount) \ {k}
            f == [s \in Slots |-> CHOOSE j \in T : staged[j].instance = t[s].instance]
<1>1. stagedCount \in Nat /\ stagedCount <= MaxAnalogValues /\ stagedCount >= 1 /\ MaxAnalogValues \in Nat
    BY ImageAssumption DEF StagedOK
<1>2. IsFiniteSet(Slots) /\ Cardinality(Slots) = MaxAnalogValues
    BY <1>1, FS_Interval DEF Slots
<1>3. IsFiniteSet(T) /\ Cardinality(T) = stagedCount - 1
    <2>1. IsFiniteSet(1..stagedCount) /\ Cardinality(1..stagedCount) = stagedCount
        BY <1>1, FS_Interval
    <2>. QED BY <2>1, FS_RemoveElement
<1>4. Cardinality(T) < Cardinality(Slots)
    BY <1>1, <1>2, <1>3
<1>5. \A s \in Slots : \E j \in T : staged[j].instance = t[s].instance
    <2>. SUFFICES ASSUME NEW s \in Slots PROVE \E j \in T : staged[j].instance = t[s].instance
        OBVIOUS
    <2>1. t[s] # Free
        BY DEF FreeSlots
    <2>2. PICK j \in 1..stagedCount : staged[j].instance = t[s].instance
        BY <2>1 DEF InStaged
    <2>3. j # k
        BY <2>2 DEF SlotsOf
    <2>. QED BY <2>2, <2>3
<1>6. \A s \in Slots : f[s] \in T /\ staged[f[s]].instance = t[s].instance
    BY <1>5
<1>7. f \in [Slots -> T]
    BY <1>6
<1>. HIDE DEF T, f
<1>8. PICK x \in Slots, y \in Slots : x # y /\ f[x] = f[y]
    BY <1>2, <1>3, <1>4, <1>7, FS_PigeonHole
<1>9. t[x].instance = t[y].instance /\ t[x] # Free
    BY <1>6, <1>8 DEF FreeSlots
<1>. QED BY <1>8, <1>9 DEF Agree

\* Instance i was in the table, or one of the first k entries names it and is not refused.
Kept(r, k, i) ==
    \/ SlotsOf(table, i) # {}
    \/ \E j \in (1..k) \ r : staged[j].instance = i

\* No later one of the first k entries names what entry j does.
LastOf(j, k) == \A y \in (j+1)..k : staged[y].instance # staged[j].instance

\* After k turns: the table and the database agree; the objects are those of the image
\* that were there or could be recreated; and each one that an entry read so far names
\* has the value of the last of them.
RightObjects(t, r, k) == \A i \in Nat : SlotsOf(t, i) # {} <=> (InStaged(i) /\ Kept(r, k, i))
RightValues(t, k) ==
    \A j \in 1..k, s \in Slots : (LastOf(j, k) /\ t[s].instance = staged[j].instance) => t[s] = staged[j]
Restored(t, db, r, k) == Agree(t, db) /\ RightObjects(t, r, k) /\ RightValues(t, k)

\* One more entry adds its instance, if the stack does not refuse it, and no other.
LEMMA KeptStep ==
    ASSUME NEW r, NEW k \in Nat, NEW i
    PROVE  Kept(r, k + 1, i) <=> (Kept(r, k, i) \/ (k + 1 \notin r /\ staged[k+1].instance = i))
<1>1. \A j : j \in 1..(k+1) <=> (j \in 1..k \/ j = k + 1)
    OBVIOUS
<1>. QED BY <1>1 DEF Kept

\* An entry that is still the last of its instance after one more was the last before,
\* and the one more names another.
LEMMA LastStep ==
    ASSUME NEW k \in Nat, NEW j \in 1..k, LastOf(j, k + 1)
    PROVE  LastOf(j, k) /\ staged[k+1].instance # staged[j].instance
<1>1. k + 1 \in (j+1)..(k+1) /\ \A y \in (j+1)..k : y \in (j+1)..(k+1)
    OBVIOUS
<1>. QED BY <1>1 DEF LastOf

\* One turn of the second loop.
LEMMA PutBackRestores ==
    ASSUME StagedOK, NEW k \in Nat, k + 1 <= stagedCount,
           NEW t, NEW db, NEW r, Restored(t, db, r, k)
    PROVE  LET e == staged[k+1]
           IN  Restored(PutBack(t, db, e, k + 1 \in r),
                        IF SlotsOf(t, e.instance) = {} /\ FreeSlots(t) # {} /\ k + 1 \notin r
                        THEN db \cup {e.instance} ELSE db,
                        r, k + 1)
<1>. DEFINE e == staged[k+1]
<1>1. k + 1 \in 1..stagedCount /\ k + 1 \in Slots /\ \A j \in 1..k : j \in 1..stagedCount /\ j \in Slots
    BY ImageAssumption DEF StagedOK, Slots
<1>2. IsAv(e) /\ e.instance \in Nat /\ e # Free /\ InStaged(e.instance) /\ Agree(t, db)
    BY <1>1, AvIsNotFree DEF StagedOK, InStaged, Restored
<1>3. RightObjects(t, r, k) /\ RightValues(t, k)
    BY DEF Restored
\* Putting the entry into a slot that is free or its own gives every object its value.
<1>4. ASSUME NEW x \in Slots, NEW u, u = [t EXCEPT ![x] = e],
             \A s \in Slots : s # x => t[s].instance # e.instance
      PROVE  RightValues(u, k + 1)
    <2>0. u[x] = e /\ \A s \in Slots : s # x => u[s] = t[s]
        BY <1>2, <1>4 DEF Agree
    <2>. SUFFICES ASSUME NEW j \in 1..(k+1), NEW s \in Slots, LastOf(j, k + 1), u[s].instance = staged[j].instance
                  PROVE  u[s] = staged[j]
        BY DEF RightValues
    <2>1. CASE j = k + 1
        BY <1>4, <2>0, <2>1
    <2>2. CASE j \in 1..k
        <3>1. LastOf(j, k) /\ e.instance # staged[j].instance
            BY <2>2, LastStep
        <3>2. s # x
            BY <2>0, <3>1
        <3>. QED BY <1>3, <2>0, <2>2, <3>1, <3>2 DEF RightValues
    <2>3. j = k + 1 \/ j \in 1..k
        OBVIOUS
    <2>. QED BY <2>1, <2>2, <2>3
<1>5. CASE SlotsOf(t, e.instance) # {}
    <2>. DEFINE x == FindCreatedAnalogValue(t, e.instance)
                u == [t EXCEPT ![x] = e]
    <2>1. x \in Slots /\ t[x].instance = e.instance
        BY <1>5, FoundSlots
    <2>. HIDE DEF x
    <2>2. Agree(u, db)
        BY <1>2, <2>1, ReplaceKeepsAgree
    <2>3. \A s \in Slots : u[s].instance = t[s].instance
        BY <1>2, <2>1 DEF Agree
    <2>4. RightObjects(u, r, k + 1)
        <3>1. \A i \in Nat : SlotsOf(u, i) = SlotsOf(t, i)
            <4>. HIDE DEF u
            <4>. QED BY <2>3 DEF SlotsOf
        <3>2. \A i \in Nat : Kept(r, k + 1, i) => (Kept(r, k, i) \/ i = e.instance)
            BY KeptStep
        <3>3. \A i \in Nat : Kept(r, k, i) => Kept(r, k + 1, i)
            BY KeptStep
        <3>. HIDE DEF u, e
        <3>. QED BY <1>2, <1>3, <1>5, <3>1, <3>2, <3>3 DEF RightObjects
    <2>5. \A s \in Slots : s # x => t[s].instance # e.instance
        <3>1. t[x] # Free
            BY <1>2, <2>1, UsedSlot
        <3>. QED BY <1>2, <2>1, <3>1 DEF Agree
    <2>6. PutBack(t, db, e, k + 1 \in r) = u
        BY <1>5 DEF PutBack, x
    <2>7. u = [t EXCEPT ![x] = e]
        OBVIOUS
    <2>. HIDE DEF e, u
    <2>8. RightValues(u, k + 1)
        BY <1>4, <2>1, <2>5, <2>7, Zenon
    <2>9. Restored(u, db, r, k + 1)
        BY <2>2, <2>4, <2>8 DEF Restored
    <2>. QED BY <1>5, <2>6, <2>9 DEF e
<1>6. CASE SlotsOf(t, e.instance) = {} /\ k + 1 \notin r
    <2>. DEFINE x == FindFreeAnalogValueSlot(t)
                u == [t EXCEPT ![x] = e]
    <2>1. FreeSlots(t) # {}
        <3>1. \A s \in Slots : t[s] # Free => InStaged(t[s].instance)
            <4>. SUFFICES ASSUME NEW s \in Slots, t[s] # Free PROVE InStaged(t[s].instance)
                OBVIOUS
            <4>1. t[s].instance \in Nat
                BY <1>2, AvIsNotFree DEF Agree
            <4>2. SlotsOf(t, t[s].instance) # {}
                BY DEF SlotsOf
            <4>. QED BY <1>3, <4>1, <4>2 DEF RightObjects
        <3>. QED BY <1>1, <1>2, <1>6, <3>1, AlwaysRoom
    <2>2. x \in Slots /\ t[x] = Free
        BY <2>1, FoundSlots
    <2>. HIDE DEF x
    <2>3. e.instance \notin db
        BY <1>2, <1>6 DEF Agree, SlotsOf
    <2>4. Agree(u, db \cup {e.instance})
        BY <1>2, <2>2, <2>3, AddKeepsAgree
    <2>5. u[x] = e /\ \A s \in Slots : s # x => u[s] = t[s]
        BY <1>2, <2>2 DEF Agree
    <2>6. RightObjects(u, r, k + 1)
        <3>1. \A i \in Nat : SlotsOf(u, i) # {} <=> (SlotsOf(t, i) # {} \/ i = e.instance)
            <4>. SUFFICES ASSUME NEW i \in Nat PROVE SlotsOf(u, i) # {} <=> (SlotsOf(t, i) # {} \/ i = e.instance)
                OBVIOUS
            <4>1. t[x].instance # i
                BY <2>2, FreeNamesNone
            <4>. HIDE DEF u, e
            <4>. QED BY <2>2, <2>5, <4>1 DEF SlotsOf
        <3>2. \A i \in Nat : Kept(r, k + 1, i) <=> (Kept(r, k, i) \/ i = e.instance)
            BY <1>6, KeptStep
        <3>. HIDE DEF u, e
        <3>. QED BY <1>2, <1>3, <3>1, <3>2 DEF RightObjects
    <2>7. \A s \in Slots : s # x => t[s].instance # e.instance
        BY <1>6 DEF SlotsOf
    <2>8. PutBack(t, db, e, k + 1 \in r) = u
        BY <1>6, <2>1, <2>3 DEF PutBack, x
    <2>9. u = [t EXCEPT ![x] = e]
        OBVIOUS
    <2>. HIDE DEF e, u
    <2>10. RightValues(u, k + 1)
        BY <1>4, <2>2, <2>7, <2>9, Zenon
    <2>11. Restored(u, db \cup {e.instance}, r, k + 1)
        BY <2>4, <2>6, <2>10 DEF Restored
    <2>. QED BY <1>6, <2>1, <2>8, <2>11 DEF e
<1>7. CASE SlotsOf(t, e.instance) = {} /\ k + 1 \in r
    <2>1. PutBack(t, db, e, k + 1 \in r) = t
        BY <1>7 DEF PutBack
    <2>2. RightObjects(t, r, k + 1)
        <3>1. \A i \in Nat : Kept(r, k + 1, i) <=> Kept(r, k, i)
            BY <1>7, KeptStep
        <3>. QED BY <1>3, <3>1 DEF RightObjects
    <2>3. RightValues(t, k + 1)
        <3>. SUFFICES ASSUME NEW j \in 1..(k+1), NEW s \in Slots, LastOf(j, k + 1), t[s].instance = staged[j].instance
                      PROVE  t[s] = staged[j]
            BY DEF RightValues
        <3>1. j # k + 1
            BY <1>7 DEF SlotsOf
        <3>2. j \in 1..k
            BY <3>1
        <3>. QED BY <1>3, <3>2, LastStep DEF RightValues
    <2>4. Restored(t, db, r, k + 1)
        BY <1>2, <2>2, <2>3 DEF Restored
    <2>. HIDE DEF e
    <2>. QED BY <1>7, <2>1, <2>4 DEF e
<1>. QED BY <1>5, <1>6, <1>7

\* What applying a restore leaves behind.
LEMMA ApplyRestores ==
    ASSUME Agree(table, database), StagedOK, NEW r, ApplyRestoredConfiguration(r)
    PROVE  Restored(table', database', r, stagedCount)
<1>0. stagedCount \in Nat
    BY ImageAssumption DEF StagedOK
<1>1. PICK g : /\ g = [k \in 0..stagedCount |-> ApplyStep(g, k, r)]
               /\ table' = g[stagedCount].tbl
               /\ database' = g[stagedCount].db
    BY <1>0, ApplyDef
<1>. DEFINE S == {n \in Nat : n <= stagedCount => Restored(g[n].tbl, g[n].db, r, n)}
<1>2. 0 \in S
    <2>1. g[0] = ApplyStep(g, 0, r)
        BY <1>0, <1>1
    <2>2. g[0].tbl = Pruned /\ g[0].db = database \ Removed
        BY <2>1 DEF ApplyStep
    <2>3. RightValues(Pruned, 0)
        BY DEF RightValues
    <2>4. RightObjects(Pruned, r, 0)
        <3>. SUFFICES ASSUME NEW i \in Nat
                      PROVE  SlotsOf(Pruned, i) # {} <=> (InStaged(i) /\ SlotsOf(table, i) # {})
            BY DEF RightObjects, Kept
        <3>1. \A s \in Slots : Pruned[s] = IF InStaged(table[s].instance) THEN table[s] ELSE Free
            BY DEF Pruned
        <3>2. i # -1
            OBVIOUS
        <3>3. \A s \in Slots : Pruned[s].instance = i <=> (InStaged(i) /\ table[s].instance = i)
            BY <3>1, <3>2, FreeNamesNone
        <3>. QED BY <3>3 DEF SlotsOf
    <2>5. Restored(Pruned, database \ Removed, r, 0)
        BY <2>3, <2>4, PrunedAgrees DEF Restored
    <2>. QED BY <2>2, <2>5
<1>3. ASSUME NEW n \in Nat, n \in S
      PROVE  n + 1 \in S
    <2>. SUFFICES ASSUME n + 1 <= stagedCount PROVE Restored(g[n+1].tbl, g[n+1].db, r, n + 1)
        OBVIOUS
    <2>1. Restored(g[n].tbl, g[n].db, r, n)
        BY <1>0, <1>3
    <2>2. n + 1 \in 0..stagedCount /\ n + 1 # 0 /\ (n + 1) - 1 = n
        BY <1>0
    <2>3. g[n+1] = ApplyStep(g, n + 1, r)
        BY <1>1, <2>2
    <2>. DEFINE t == g[n].tbl
                db == g[n].db
                e == staged[n+1]
                t2 == PutBack(t, db, e, n + 1 \in r)
                db2 == IF SlotsOf(t, e.instance) = {} /\ FreeSlots(t) # {} /\ n + 1 \notin r
                       THEN db \cup {e.instance} ELSE db
    <2>4. g[n+1] = [tbl |-> t2, db |-> db2]
        BY <2>2, <2>3, Zenon DEF ApplyStep
    <2>5. Restored(t2, db2, r, n + 1)
        BY <2>1, PutBackRestores
    <2>. HIDE DEF t2, db2
    <2>6. g[n+1].tbl = t2 /\ g[n+1].db = db2
        BY <2>4
    <2>. QED BY <2>5, <2>6
<1>. HIDE DEF S
<1>4. stagedCount \in S
    BY <1>0, <1>2, <1>3, NatSetInduction
<1>5. Restored(g[stagedCount].tbl, g[stagedCount].db, r, stagedCount)
    BY <1>0, <1>4 DEF S
<1>. QED BY <1>1, <1>5

\* A non-empty set of positions of a list has a last one.
LEMMA LastPosition ==
    ASSUME NEW n \in Nat, NEW T, T \subseteq 1..n, T # {}
    PROVE  \E m \in T : \A y \in T : y <= m
<1>. DEFINE back == {n - y : y \in T}
<1>1. back \subseteq Nat /\ back # {}
    <2>1. \A y \in T : n - y \in Nat
        OBVIOUS
    <2>2. PICK y : y \in T
        OBVIOUS
    <2>3. n - y \in back
        BY <2>2
    <2>. QED BY <2>1, <2>3
<1>2. Min(back) \in back /\ \A z \in back : Min(back) <= z
    BY <1>1, MinFacts
<1>3. PICK m \in T : Min(back) = n - m
    BY <1>2
<1>4. \A y \in T : n - m <= n - y
    BY <1>2, <1>3
<1>. QED BY <1>4

\* So the restored table holds exactly the values that prevail, of the objects that were
\* there or could be recreated.
LEMMA RestoredIsPrevailing ==
    ASSUME StagedOK, NEW t, NEW db, NEW r, Restored(t, db, r, stagedCount)
    PROVE  Held(t) = {e \in Prevailing(StagedEntries) : Recreated(e, r)}
<1>. DEFINE es == StagedEntries
            n == stagedCount
<1>0. n \in Nat /\ n <= MaxAnalogValues /\ MaxAnalogValues \in Nat
    BY ImageAssumption DEF StagedOK
<1>1. Len(es) = n /\ \A k \in 1..n : es[k] = staged[k]
    <2>1. staged \in Seq({staged[s] : s \in Slots}) /\ Len(staged) = MaxAnalogValues
        <3>1. staged \in [1..MaxAnalogValues -> {staged[s] : s \in Slots}]
            BY DEF StagedOK, Slots
        <3>. QED BY <1>0, <3>1
    <2>. QED BY <1>0, <2>1 DEF StagedEntries
<1>. HIDE DEF es
<1>2. \A k \in 1..n : k \in Slots
    BY <1>0 DEF Slots
<1>3. RightObjects(t, r, n) /\ RightValues(t, n) /\ Agree(t, db)
    BY DEF Restored
<1>4. \A e : Recreated(e, r) <=> Kept(r, n, e.instance)
    BY DEF Recreated, Kept
<1>5. ASSUME NEW av \in Prevailing(es), Recreated(av, r) PROVE av \in Held(t)
    <2>1. PICK j \in 1..n : av = staged[j] /\ LastOf(j, n)
        <3>1. PICK j \in 1..Len(es) : av = es[j] /\ \A y \in (j+1)..Len(es) : es[y].instance # es[j].instance
            BY DEF Prevailing
        <3>2. \A y \in (j+1)..n : y \in 1..n
            BY <1>0, <1>1
        <3>. QED BY <1>1, <3>1, <3>2 DEF LastOf
    <2>2. IsAv(av)
        BY <2>1 DEF StagedOK
    <2>3. av.instance \in Nat /\ av # Free
        BY <2>2, AvIsNotFree
    <2>4. InStaged(av.instance)
        BY <2>1 DEF InStaged
    <2>5. PICK s \in Slots : t[s].instance = av.instance
        BY <1>3, <1>4, <1>5, <2>3, <2>4 DEF RightObjects, SlotsOf
    <2>6. t[s] = av
        BY <1>3, <2>1, <2>5 DEF RightValues
    <2>. QED BY <2>3, <2>6 DEF Held
<1>6. ASSUME NEW av \in Held(t) PROVE av \in Prevailing(es) /\ Recreated(av, r)
    <2>1. PICK s \in Slots : av = t[s] /\ t[s] # Free
        BY DEF Held
    <2>2. av.instance \in Nat
        BY <1>3, <2>1, AvIsNotFree DEF Agree
    <2>3. SlotsOf(t, av.instance) # {}
        BY <2>1 DEF SlotsOf
    <2>4. InStaged(av.instance) /\ Recreated(av, r)
        BY <1>3, <1>4, <2>2, <2>3 DEF RightObjects
    <2>. DEFINE T == {j \in 1..n : staged[j].instance = av.instance}
    <2>5. T # {} /\ T \subseteq 1..n
        BY <2>4 DEF InStaged
    <2>6. PICK m \in T : \A y \in T : y <= m
        BY <1>0, <2>5, LastPosition
    <2>7. m \in 1..n /\ staged[m].instance = av.instance
        OBVIOUS
    <2>8. \A y \in (m+1)..n : staged[y].instance # staged[m].instance
        BY <1>0, <2>6, <2>7
    <2>9. av = staged[m]
        BY <1>3, <2>1, <2>7, <2>8 DEF RightValues, LastOf
    <2>10. m \in 1..Len(es) /\ es[m] = av /\ \A y \in (m+1)..Len(es) : es[y].instance # es[m].instance
        <3>1. \A y \in (m+1)..n : y \in 1..n
            BY <1>0, <2>7
        <3>. QED BY <1>1, <2>7, <2>8, <2>9, <3>1
    <2>. QED BY <2>4, <2>10 DEF Prevailing
<1>. QED BY <1>5, <1>6 DEF es

-----------------------------------------------------------------------------
(***************************************************************************)
(* The image: what a backup writes and what a restore stages.              *)
(***************************************************************************)
\* A cell of the file.
GoodCell(c) == c \in Cells

\* A text of good cells.
Text(s) ==
    /\ Len(s) \in Nat
    /\ s = [k \in 1..Len(s) |-> s[k]]
    /\ \A k \in 1..Len(s) : GoodCell(s[k])

\* A function on 1..n is a text if its values are good cells.
LEMMA FunctionIsText ==
    ASSUME NEW n \in Nat, NEW s, s = [k \in 1..n |-> s[k]], \A k \in 1..n : GoodCell(s[k])
    PROVE  Text(s) /\ Len(s) = n
<1>1. s \in [1..n -> {s[k] : k \in 1..n}]
    OBVIOUS
<1>2. Len(s) = n
    BY <1>1
<1>. QED BY <1>2 DEF Text

\* A sequence of good cells is a text.
LEMMA SequenceIsText ==
    ASSUME NEW X, \A c \in X : GoodCell(c), NEW s \in Seq(X)
    PROVE  Text(s)
<1>1. Len(s) \in Nat /\ s = [k \in 1..Len(s) |-> s[k]] /\ \A k \in 1..Len(s) : s[k] \in X
    OBVIOUS
<1>. QED BY <1>1 DEF Text

\* The text t is s followed by r.
Joined(s, r, t) ==
    /\ Text(t)
    /\ Len(t) = Len(s) + Len(r)
    /\ \A k \in 1..Len(s) : t[k] = s[k]
    /\ \A k \in 1..Len(r) : t[Len(s) + k] = r[k]

\* A text followed by a text is a text.
LEMMA TextsJoin ==
    ASSUME NEW s, NEW r, Text(s), Text(r)
    PROVE  Joined(s, r, s \o r)
<1>. DEFINE X == {s[k] : k \in 1..Len(s)} \cup {r[k] : k \in 1..Len(r)}
<1>1. s \in Seq(X) /\ r \in Seq(X)
    <2>1. s \in [1..Len(s) -> X] /\ r \in [1..Len(r) -> X] /\ Len(s) \in Nat /\ Len(r) \in Nat
        BY DEF Text
    <2>. QED BY <2>1
<1>2. \A c \in X : GoodCell(c)
    BY DEF Text
<1>. HIDE DEF X
<1>3. s \o r \in Seq(X) /\ Len(s \o r) = Len(s) + Len(r)
    BY <1>1
<1>4. \A k \in 1..Len(s) : (s \o r)[k] = s[k]
    BY <1>1
<1>5. \A k \in 1..Len(r) : (s \o r)[Len(s) + k] = r[k]
    BY <1>1
<1>. QED BY <1>2, <1>3, <1>4, <1>5, SequenceIsText DEF Joined

\* One cell is a text.
LEMMA CellIsText ==
    ASSUME NEW c, GoodCell(c)
    PROVE  Text(<<c>>) /\ Len(<<c>>) = 1 /\ <<c>>[1] = c
BY DEF Text

\* The cells a number, an instance and the ends of lines are written with.
LEMMA CellFacts ==
    /\ GoodCell(ZeroOctet) /\ GoodCell(Header) /\ GoodCell(Newline)
    /\ \A d \in 0..9 : GoodCell(Digit(d)) /\ Kind(Digit(d)) = "digit" /\ Digit(d)[2] = d
    /\ \A e \in Nat \ {0} : GoodCell(Exponent(e)) /\ Kind(Exponent(e)) = "exponent" /\ Exponent(e)[2] = e
    /\ \A i \in Instances : GoodCell(Av(i)) /\ Kind(Av(i)) = "analog-value" /\ Av(i)[2] = i
    /\ Kind(Newline) = "newline" /\ Kind(Header) = "header"
    /\ \A c : GoodCell(c) => c[2] \in Nat
    /\ \A c : GoodCell(c) /\ Kind(c) = "analog-value" => c[2] \in Instances
<1>1. GoodCell(ZeroOctet) /\ GoodCell(Header) /\ GoodCell(Newline)
    BY DEF GoodCell, Cells
<1>2. \A d \in 0..9 : GoodCell(Digit(d)) /\ Kind(Digit(d)) = "digit" /\ Digit(d)[2] = d
    BY DEF GoodCell, Cells, Digit, Kind
<1>3. \A e \in Nat \ {0} : GoodCell(Exponent(e)) /\ Kind(Exponent(e)) = "exponent" /\ Exponent(e)[2] = e
    BY DEF GoodCell, Cells, Exponent, Kind
<1>4. \A i \in Instances : GoodCell(Av(i)) /\ Kind(Av(i)) = "analog-value" /\ Av(i)[2] = i
    BY DEF GoodCell, Cells, Av, Kind
<1>5. Kind(Newline) = "newline" /\ Kind(Header) = "header"
    BY DEF Kind, Newline, Header
<1>6. \A c : GoodCell(c) => c[2] \in Nat
    <2>. SUFFICES ASSUME NEW c \in Cells PROVE c[2] \in Nat
        BY DEF GoodCell
    <2>1. CASE c \in {Header, Newline, ZeroOctet}
        BY <2>1 DEF Header, Newline, ZeroOctet
    <2>2. CASE c \in {"digit"} \X (0..9)
        BY <2>2
    <2>3. CASE c \in {"exponent"} \X (Nat \ {0})
        BY <2>3
    <2>4. CASE c \in {"analog-value"} \X Instances
        <3>1. c[2] \in Instances
            BY <2>4
        <3>. QED BY <3>1, ConfigurationAssumption
    <2>. QED BY <2>1, <2>2, <2>3, <2>4 DEF Cells
<1>7. \A c : GoodCell(c) /\ Kind(c) = "analog-value" => c[2] \in Instances
    BY DEF GoodCell, Cells, Kind, Header, Newline, ZeroOctet
<1>. QED BY <1>1, <1>2, <1>3, <1>4, <1>5, <1>6, <1>7

\* How many digits are printed of v.
DigitsOf(v) == NumberOfDigits(Mantissa(v))

\* A number prints as at most SignificantDigits digits, and perhaps an exponent.
LEMMA PrintedFacts ==
    ASSUME NEW v \in Nat
    PROVE  /\ DigitsOf(v) \in 1..SignificantDigits
           /\ Text(Printed(v))
           /\ Len(Printed(v)) = DigitsOf(v) + (IF Dropped(v) = 0 THEN 0 ELSE 1)
           /\ \A k \in 1..DigitsOf(v) :
                 /\ Printed(v)[k] = Digit((Mantissa(v) \div TenTo[DigitsOf(v) - k]) % 10)
                 /\ (Mantissa(v) \div TenTo[DigitsOf(v) - k]) % 10 \in 0..9
           /\ Dropped(v) # 0 => Printed(v)[DigitsOf(v) + 1] = Exponent(Dropped(v))
<1>. DEFINE m == Mantissa(v)
            n == DigitsOf(v)
            d == Dropped(v)
            digits == [k \in 1..n |-> Digit((m \div TenTo[n - k]) % 10)]
            power == IF d = 0 THEN << >> ELSE <<Exponent(d)>>
<1>1. m \in Nat /\ d \in Nat /\ m < TenTo[SignificantDigits]
    BY MantissaFacts
<1>2. n \in 1..SignificantDigits
    <2>. HIDE DEF m
    <2>1. NumberOfDigits(m) \in Nat \ {0} /\ NumberOfDigits(m) <= SignificantDigits
        BY <1>1, DigitsFacts, ImageAssumption
    <2>2. n = NumberOfDigits(m)
        BY DEF DigitsOf, m
    <2>. QED BY <2>1, <2>2, ImageAssumption
<1>3. Printed(v) = digits \o power
    BY DEF Printed, DigitsOf
<1>. HIDE DEF m, n, d
<1>4. \A k \in 1..n : (m \div TenTo[n - k]) % 10 \in 0..9
    <2>. SUFFICES ASSUME NEW k \in 1..n PROVE (m \div TenTo[n - k]) % 10 \in 0..9
        OBVIOUS
    <2>. DEFINE u == TenTo[n - k]
                q == m \div u
    <2>1. n - k \in Nat
        BY <1>2, ImageAssumption
    <2>2. u \in Nat \ {0}
        BY <2>1, TenToFacts
    <2>. HIDE DEF u
    <2>3. q \in Nat
        BY <1>1, <2>2, Divided
    <2>. HIDE DEF q
    <2>4. q % 10 \in 0..9
        BY <2>3
    <2>. QED BY <2>4 DEF q, u
<1>5. Text(digits) /\ Len(digits) = n
    <2>1. digits = [k \in 1..n |-> digits[k]]
        OBVIOUS
    <2>2. \A k \in 1..n : GoodCell(digits[k])
        BY <1>4, CellFacts
    <2>. HIDE DEF digits
    <2>3. n \in Nat
        BY <1>2, ImageAssumption
    <2>. QED BY <2>1, <2>2, <2>3, FunctionIsText
<1>6. \A k \in 1..n : digits[k] = Digit((m \div TenTo[n - k]) % 10)
    OBVIOUS
<1>7. /\ Text(power)
      /\ Len(power) = IF d = 0 THEN 0 ELSE 1
      /\ d # 0 => power[1] = Exponent(d)
    <2>1. CASE d = 0
        <3>1. Text(<< >>) /\ Len(<< >>) = 0
            BY DEF Text
        <3>. QED BY <2>1, <3>1
    <2>2. CASE d # 0
        <3>. DEFINE c == Exponent(d)
        <3>1. GoodCell(c)
            BY <1>1, <2>2, CellFacts
        <3>2. power = <<c>>
            BY <2>2
        <3>. HIDE DEF c, power
        <3>3. Text(power) /\ Len(power) = 1 /\ power[1] = c
            BY <3>1, <3>2, CellIsText
        <3>. QED BY <2>2, <3>3 DEF c
    <2>. QED BY <2>1, <2>2
<1>. HIDE DEF digits, power
<1>8. /\ Text(digits \o power)
      /\ Len(digits \o power) = n + (IF d = 0 THEN 0 ELSE 1)
      /\ \A k \in 1..n : (digits \o power)[k] = digits[k]
      /\ d # 0 => (digits \o power)[n + 1] = power[1]
    <2>. DEFINE t == digits \o power
    <2>1. d # 0 => 1 \in 1..Len(power)
        BY <1>7
    <2>2. Joined(digits, power, t)
        BY <1>5, <1>7, TextsJoin
    <2>. HIDE DEF t
    <2>3. Text(t) /\ Len(t) = n + (IF d = 0 THEN 0 ELSE 1) /\ \A k \in 1..n : t[k] = digits[k]
        BY <1>5, <1>7, <2>2 DEF Joined
    <2>4. d # 0 => t[n + 1] = power[1]
        BY <1>5, <2>1, <2>2 DEF Joined
    <2>. QED BY <2>3, <2>4 DEF t
<1>9. /\ \A k \in 1..n : Printed(v)[k] = Digit((m \div TenTo[n - k]) % 10)
      /\ d # 0 => Printed(v)[n + 1] = Exponent(d)
    BY <1>3, <1>6, <1>7, <1>8
<1>. QED BY <1>2, <1>3, <1>4, <1>8, <1>9 DEF m, n, d

\* A line of the image: the object, its value and the newline.
LEMMA LineFacts ==
    ASSUME NEW av, IsAv(av)
    PROVE  LET p == Printed(av.value)
               l == Line(av)
           IN  /\ Text(l) /\ Text(p)
               /\ Len(l) = Len(p) + 2 /\ Len(p) >= 1 /\ Len(l) <= SignificantDigits + 3
               /\ l[1] = Av(av.instance)
               /\ \A j \in 1..Len(p) : l[j + 1] = p[j]
               /\ l[Len(p) + 2] = Newline
<1>. DEFINE a == Av(av.instance)
            p == Printed(av.value)
<1>1. av.instance \in Instances /\ av.value \in Nat
    BY DEF IsAv, AnalogValues
<1>2. GoodCell(a) /\ GoodCell(Newline)
    BY <1>1, CellFacts
<1>3. Text(p) /\ Len(p) \in Nat /\ Len(p) >= 1 /\ Len(p) <= SignificantDigits + 1
    <2>. DEFINE n == DigitsOf(av.value)
                x == IF Dropped(av.value) = 0 THEN 0 ELSE 1
    <2>1. n \in 1..SignificantDigits /\ Text(p) /\ Len(p) = n + x
        BY <1>1, PrintedFacts
    <2>2. x \in {0, 1}
        OBVIOUS
    <2>. HIDE DEF n, p, x
    <2>. QED BY <2>1, <2>2, ImageAssumption
<1>4. Line(av) = (<<a>> \o p) \o <<Newline>>
    BY DEF Line
<1>. HIDE DEF a, p
<1>5. Text(<<a>>) /\ Len(<<a>>) = 1 /\ <<a>>[1] = a /\ Text(<<Newline>>) /\ Len(<<Newline>>) = 1 /\ <<Newline>>[1] = Newline
    BY <1>2, CellIsText
<1>. DEFINE h == <<a>>
            z == <<Newline>>
            b == h \o p
            l == b \o z
<1>. HIDE DEF h, z
<1>6. /\ Text(b) /\ Len(b) = Len(p) + 1 /\ b[1] = a
      /\ \A j \in 1..Len(p) : b[1 + j] = p[j]
    <2>1. Text(h) /\ Text(p) /\ Len(h) = 1 /\ h[1] = a /\ 1 \in 1..Len(h)
        BY <1>3, <1>5 DEF h
    <2>2. Joined(h, p, b)
        BY <2>1, TextsJoin
    <2>. HIDE DEF b
    <2>. QED BY <1>3, <2>1, <2>2 DEF Joined
<1>. HIDE DEF b
<1>7. /\ Text(l) /\ Len(l) = Len(p) + 2 /\ l[1] = a
      /\ \A j \in 1..Len(p) : l[j + 1] = p[j]
      /\ l[Len(p) + 2] = Newline
    <2>1. Text(z) /\ Len(z) = 1 /\ z[1] = Newline /\ 1 \in 1..Len(z)
        BY <1>5 DEF z
    <2>0. Joined(b, z, l)
        BY <1>6, <2>1, TextsJoin
    <2>. HIDE DEF l
    <2>2. Text(l) /\ Len(l) = Len(b) + Len(z) /\ (\A k \in 1..Len(b) : l[k] = b[k])
          /\ \A k \in 1..Len(z) : l[Len(b) + k] = z[k]
        BY <2>0 DEF Joined
    <2>3. 1 \in 1..Len(b) /\ \A j \in 1..Len(p) : j + 1 \in 1..Len(b) /\ j + 1 = 1 + j
        BY <1>3, <1>6
    <2>4. Len(l) = Len(p) + 2 /\ Len(b) + 1 = Len(p) + 2
        BY <1>3, <1>6, <2>1, <2>2
    <2>5. l[Len(b) + 1] = Newline
        BY <2>1, <2>2
    <2>. QED BY <1>6, <2>2, <2>3, <2>4, <2>5
<1>8. Line(av) = l
    BY <1>4 DEF b, h, z
<1>. HIDE DEF l
<1>. QED BY <1>3, <1>7, <1>8, ImageAssumption DEF a, p

\* One turn of the loop of Picked, the turns before it being g.
PickStep(g, s, I, i) ==
    IF i = 0 THEN << >>
    ELSE IF i \in I THEN Append(g[i-1], s[i])
                    ELSE g[i-1]

\* The loop has a result after every number of turns.
LEMMA PickExists ==
    ASSUME NEW s, NEW I, Len(s) \in Nat
    PROVE  \E g : g = [i \in 0..Len(s) |-> PickStep(g, s, I, i)]
<1>. DEFINE S == {n \in Nat : \E g : g = [i \in 0..n |-> PickStep(g, s, I, i)]}
<1>1. 0 \in S
    <2>. DEFINE g == [i \in 0..0 |-> << >>]
    <2>1. g = [i \in 0..0 |-> PickStep(g, s, I, i)]
        BY DEF PickStep
    <2>. HIDE DEF g
    <2>. QED BY <2>1
<1>2. ASSUME NEW n \in Nat, n \in S
      PROVE  n + 1 \in S
    <2>1. PICK g : g = [i \in 0..n |-> PickStep(g, s, I, i)]
        BY <1>2
    <2>. DEFINE h == [i \in 0..(n+1) |-> IF i = n + 1 THEN PickStep(g, s, I, i) ELSE g[i]]
    <2>2. \A i \in 0..(n+1) : PickStep(h, s, I, i) = PickStep(g, s, I, i)
        <3>1. \A i \in 0..n : h[i] = g[i]
            OBVIOUS
        <3>2. \A i \in 1..(n+1) : i - 1 \in 0..n
            OBVIOUS
        <3>. HIDE DEF h
        <3>. QED BY <3>1, <3>2 DEF PickStep
    <2>3. \A i \in 0..(n+1) : h[i] = PickStep(g, s, I, i)
        BY <2>1
    <2>4. h = [i \in 0..(n+1) |-> h[i]]
        OBVIOUS
    <2>. HIDE DEF h
    <2>5. h = [i \in 0..(n+1) |-> PickStep(h, s, I, i)]
        BY <2>2, <2>3, <2>4
    <2>. QED BY <2>5
<1>. HIDE DEF S
<1>3. Nat \subseteq S
    BY <1>1, <1>2, NatSetInduction
<1>. QED BY <1>3 DEF S

\* What is picked is what the loop ends with.
LEMMA PickedDef ==
    ASSUME NEW s, NEW I, Len(s) \in Nat
    PROVE  \E g : g = [i \in 0..Len(s) |-> PickStep(g, s, I, i)] /\ Picked(s, I) = g[Len(s)]
<1>. DEFINE g == CHOOSE g : g = [i \in 0..Len(s) |-> PickStep(g, s, I, i)]
<1>1. g = [i \in 0..Len(s) |-> PickStep(g, s, I, i)]
    BY PickExists
<1>2. Picked(s, I) = g[Len(s)]
    BY DEF Picked, PickStep
<1>. QED BY <1>1, <1>2

\* The turns of the loop are g.
PickLoop(g, s, I) == g = [i \in 0..Len(s) |-> PickStep(g, s, I, i)]

\* Nothing is picked behind a up to b.
NoneBetween(I, a, b) == \A i \in (a+1)..b : i \notin I

\* Turns that pick nothing change nothing.
LEMMA PickNone ==
    ASSUME NEW s, NEW I, Len(s) \in Nat, NEW g, PickLoop(g, s, I),
           NEW a \in Nat, NEW b \in Nat, a <= b, b <= Len(s), NoneBetween(I, a, b)
    PROVE  g[b] = g[a]
<1>. DEFINE S == {n \in Nat : a + n <= b => g[a + n] = g[a]}
<1>1. 0 \in S
    OBVIOUS
<1>2. ASSUME NEW n \in Nat, n \in S PROVE n + 1 \in S
    <2>. SUFFICES ASSUME a + (n + 1) <= b PROVE g[a + (n + 1)] = g[a]
        OBVIOUS
    <2>. DEFINE i == a + (n + 1)
    <2>1. i \in 0..Len(s) /\ i # 0 /\ i - 1 = a + n /\ i \in (a+1)..b /\ a + n <= b
        OBVIOUS
    <2>2. g[a + n] = g[a]
        BY <1>2, <2>1
    <2>. HIDE DEF i
    <2>3. g[i] = PickStep(g, s, I, i)
        BY <2>1 DEF PickLoop
    <2>4. g[i] = g[i - 1]
        BY <2>1, <2>3 DEF PickStep, NoneBetween
    <2>5. g[i] = g[a]
        BY <2>1, <2>2, <2>4
    <2>. QED BY <2>5 DEF i
<1>. HIDE DEF S
<1>3. b - a \in S
    BY <1>1, <1>2, NatSetInduction
<1>4. b - a \in Nat /\ a + (b - a) = b
    OBVIOUS
<1>. QED BY <1>3, <1>4 DEF S

\* What is picked are elements of s at positions in I.
LEMMA PickedFacts ==
    ASSUME NEW X, NEW s \in Seq(X), NEW I
    PROVE  Picked(s, I) \in Seq({s[i] : i \in I \cap (1..Len(s))})
<1>. DEFINE Y == {s[i] : i \in I \cap (1..Len(s))}
            g == CHOOSE g : g = [i \in 0..Len(s) |-> PickStep(g, s, I, i)]
<1>0. Len(s) \in Nat
    OBVIOUS
<1>1. g = [i \in 0..Len(s) |-> PickStep(g, s, I, i)]
    BY <1>0, PickExists
<1>2. Picked(s, I) = g[Len(s)]
    BY DEF Picked, PickStep
<1>. HIDE DEF g
<1>. DEFINE S == {n \in Nat : n <= Len(s) => g[n] \in Seq(Y)}
<1>3. 0 \in S
    <2>1. g[0] = << >>
        BY <1>0, <1>1 DEF PickStep
    <2>. HIDE DEF Y
    <2>2. << >> \in Seq(Y)
        OBVIOUS
    <2>. QED BY <2>1, <2>2
<1>4. ASSUME NEW n \in Nat, n \in S
      PROVE  n + 1 \in S
    <2>. SUFFICES ASSUME n + 1 <= Len(s) PROVE g[n+1] \in Seq(Y)
        OBVIOUS
    <2>1. n + 1 \in 0..Len(s) /\ n + 1 # 0 /\ (n + 1) - 1 = n /\ n + 1 \in 1..Len(s) /\ g[n] \in Seq(Y)
        BY <1>0, <1>4
    <2>2. g[n+1] = PickStep(g, s, I, n + 1)
        BY <1>1, <2>1
    <2>3. g[n+1] = IF n + 1 \in I THEN Append(g[n], s[n+1]) ELSE g[n]
        BY <2>1, <2>2 DEF PickStep
    <2>4. n + 1 \in I => s[n+1] \in Y
        BY <2>1
    <2>. HIDE DEF Y
    <2>. QED BY <2>1, <2>3, <2>4
<1>. HIDE DEF S
<1>5. Len(s) \in S
    BY <1>0, <1>3, <1>4, NatSetInduction
<1>6. g[Len(s)] \in Seq(Y)
    BY <1>0, <1>5 DEF S
<1>. HIDE DEF Y
<1>7. Picked(s, I) \in Seq(Y)
    BY <1>2, <1>6
<1>. QED BY <1>7 DEF Y

\* A sequence has a length and elements.
LEMMA SequenceFacts ==
    ASSUME NEW X, NEW s \in Seq(X)
    PROVE  Len(s) \in Nat /\ \A k \in 1..Len(s) : s[k] \in X
OBVIOUS

\* The objects in use are Analog Values.
LEMMA InUseFacts ==
    ASSUME NEW t, NEW db, Agree(t, db)
    PROVE  Len(InUse(t)) \in Nat /\ \A k \in 1..Len(InUse(t)) : IsAv(InUse(t)[k])
<1>. DEFINE I == {s \in Slots : t[s] # Free}
            Y == {t[i] : i \in I \cap (1..Len(t))}
<1>1. t \in Seq({t[s] : s \in Slots})
    <2>1. t \in [1..MaxAnalogValues -> {t[s] : s \in Slots}]
        BY DEF Agree, Slots
    <2>. QED BY <2>1, ImageAssumption
<1>2. Picked(t, I) \in Seq(Y)
    BY <1>1, PickedFacts
<1>3. \A y \in Y : IsAv(y)
    BY DEF Agree
<1>. HIDE DEF Y, I
<1>4. Len(Picked(t, I)) \in Nat /\ \A k \in 1..Len(Picked(t, I)) : Picked(t, I)[k] \in Y
    BY <1>2, SequenceFacts, Zenon
<1>5. InUse(t) = Picked(t, I)
    BY DEF InUse, I
<1>. QED BY <1>3, <1>4, <1>5

\* One turn of BuildConfigurationImage's loop, the turns before it being g.
ImageStep(g, avs, k) == IF k = 0 THEN <<Header>> ELSE g[k-1] \o Line(avs[k])

\* The loop has a result after every number of turns.
LEMMA ImageExists ==
    ASSUME NEW avs, Len(avs) \in Nat
    PROVE  \E g : g = [k \in 0..Len(avs) |-> ImageStep(g, avs, k)]
<1>. DEFINE S == {n \in Nat : \E g : g = [k \in 0..n |-> ImageStep(g, avs, k)]}
<1>1. 0 \in S
    <2>. DEFINE g == [k \in 0..0 |-> <<Header>>]
    <2>1. g = [k \in 0..0 |-> ImageStep(g, avs, k)]
        BY DEF ImageStep
    <2>. HIDE DEF g
    <2>. QED BY <2>1
<1>2. ASSUME NEW n \in Nat, n \in S
      PROVE  n + 1 \in S
    <2>1. PICK g : g = [k \in 0..n |-> ImageStep(g, avs, k)]
        BY <1>2
    <2>. DEFINE h == [k \in 0..(n+1) |-> IF k = n + 1 THEN ImageStep(g, avs, k) ELSE g[k]]
    <2>2. \A k \in 0..(n+1) : ImageStep(h, avs, k) = ImageStep(g, avs, k)
        <3>1. \A k \in 0..n : h[k] = g[k]
            OBVIOUS
        <3>2. \A k \in 1..(n+1) : k - 1 \in 0..n
            OBVIOUS
        <3>. HIDE DEF h
        <3>. QED BY <3>1, <3>2 DEF ImageStep
    <2>3. \A k \in 0..(n+1) : h[k] = ImageStep(g, avs, k)
        BY <2>1
    <2>4. h = [k \in 0..(n+1) |-> h[k]]
        OBVIOUS
    <2>. HIDE DEF h
    <2>5. h = [k \in 0..(n+1) |-> ImageStep(h, avs, k)]
        BY <2>2, <2>3, <2>4
    <2>. QED BY <2>5
<1>. HIDE DEF S
<1>3. Nat \subseteq S
    BY <1>1, <1>2, NatSetInduction
<1>. QED BY <1>3 DEF S

\* The image holds a line for each of the Analog Values avs, the k-th of them from behind
\* position L[k-1] up to position L[k].
Lines(image, avs, L) ==
    /\ Text(image) /\ image[1] = Header
    /\ L[0] = 1 /\ L[Len(avs)] = Len(image)
    /\ \A k \in 0..Len(avs) : L[k] \in 1..Len(image)
    /\ Len(image) <= 1 + Len(avs) * (SignificantDigits + 3)
    /\ \A k \in 1..Len(avs) : L[k] = L[k-1] + Len(Line(avs[k]))
    /\ \A k \in 1..Len(avs) : \A x \in 1..Len(Line(avs[k])) : image[L[k-1] + x] = Line(avs[k])[x]

\* The same after n turns of the loop.
LinesUpTo(g, avs, n) ==
    /\ Text(g[n]) /\ g[n][1] = Header /\ Len(g[n]) >= 1
    /\ Len(g[n]) <= 1 + n * (SignificantDigits + 3)
    /\ \A k \in 0..n : Len(g[k]) \in Nat /\ Len(g[k]) >= 1 /\ Len(g[k]) <= Len(g[n])
    /\ \A k \in 1..n : Len(g[k]) = Len(g[k-1]) + Len(Line(avs[k]))
    /\ \A k \in 1..n : \A x \in 1..Len(Line(avs[k])) : g[n][Len(g[k-1]) + x] = Line(avs[k])[x]

\* One turn appends one line and leaves the ones before it.
LEMMA LineAppended ==
    ASSUME NEW avs, NEW g, NEW n \in Nat, LinesUpTo(g, avs, n),
           \A k \in 1..(n+1) : IsAv(avs[k]), g[n+1] = g[n] \o Line(avs[n+1])
    PROVE  LinesUpTo(g, avs, n + 1)
<1>. DEFINE s == g[n]
            l == Line(avs[n+1])
            r == g[n+1]
            c == SignificantDigits + 3
<1>1. Text(l) /\ Len(l) \in Nat /\ Len(l) <= c /\ c \in Nat
    <2>0. IsAv(avs[n+1])
        OBVIOUS
    <2>1. Text(l) /\ Len(l) <= c
        BY <2>0, LineFacts
    <2>. HIDE DEF l
    <2>. QED BY <2>1, ImageAssumption DEF Text
<1>2. Text(s) /\ Len(s) \in Nat /\ s[1] = Header /\ Len(s) >= 1 /\ Len(s) <= 1 + n * c
    BY DEF LinesUpTo, Text
<1>3. r = s \o l
    OBVIOUS
<1>. HIDE DEF s, l, r
<1>4. /\ Text(r) /\ Len(r) = Len(s) + Len(l)
      /\ \A k \in 1..Len(s) : r[k] = s[k]
      /\ \A k \in 1..Len(l) : r[Len(s) + k] = l[k]
    BY <1>1, <1>2, <1>3, TextsJoin DEF Joined
<1>5. r[1] = Header /\ Len(r) >= 1 /\ Len(r) \in Nat
    BY <1>1, <1>2, <1>4
<1>6. Len(r) <= 1 + (n + 1) * c
    <2>. HIDE DEF c
    <2>1. n * c \in Nat /\ (n + 1) * c = n * c + c
        BY <1>1, Z3
    <2>. QED BY <1>1, <1>2, <1>4, <2>1
<1>7. ASSUME NEW k \in 0..(n + 1) PROVE Len(g[k]) \in Nat /\ Len(g[k]) >= 1 /\ Len(g[k]) <= Len(r)
    <2>1. CASE k = n + 1
        <3>1. g[k] = r
            BY <2>1 DEF r
        <3>. QED BY <1>5, <3>1
    <2>2. CASE k \in 0..n
        <3>1. Len(g[k]) \in Nat /\ Len(g[k]) >= 1 /\ Len(g[k]) <= Len(s)
            BY <2>2 DEF LinesUpTo, s
        <3>. QED BY <3>1, <1>1, <1>2, <1>4
    <2>. QED BY <2>1, <2>2
<1>8. ASSUME NEW k \in 1..(n + 1) PROVE Len(g[k]) = Len(g[k-1]) + Len(Line(avs[k]))
    <2>1. CASE k = n + 1
        <3>1. k - 1 = n
            BY <2>1
        <3>2. g[k] = r /\ g[k-1] = s /\ Line(avs[k]) = l
            BY <2>1, <3>1 DEF r, s, l
        <3>. QED BY <1>4, <3>2, Zenon
    <2>2. CASE k \in 1..n
        BY <2>2 DEF LinesUpTo
    <2>3. k = n + 1 \/ k \in 1..n
        OBVIOUS
    <2>. QED BY <2>1, <2>2, <2>3, Zenon
<1>9. ASSUME NEW k \in 1..(n + 1), NEW x \in 1..Len(Line(avs[k]))
      PROVE  r[Len(g[k-1]) + x] = Line(avs[k])[x]
    <2>1. CASE k = n + 1
        <3>1. k - 1 = n
            BY <2>1
        <3>2. g[k-1] = s /\ Line(avs[k]) = l
            BY <2>1, <3>1 DEF s, l
        <3>. QED BY <1>4, <3>2
    <2>2. CASE k \in 1..n
        <3>1. s[Len(g[k-1]) + x] = Line(avs[k])[x]
            BY <2>2 DEF LinesUpTo, s
        <3>2. /\ Len(g[k]) = Len(g[k-1]) + Len(Line(avs[k])) /\ Len(g[k]) <= Len(s)
              /\ Len(g[k]) \in Nat /\ Len(g[k-1]) \in Nat
            <4>1. k - 1 \in 0..n /\ k \in 0..n
                BY <2>2
            <4>. QED BY <2>2, <4>1 DEF LinesUpTo, s
        <3>. DEFINE len == Len(Line(avs[k]))
                    y == Len(g[k-1])
        <3>3. x \in 1..len /\ y \in Nat /\ y + len <= Len(s) /\ len \in Nat
            <4>1. len \in Nat
                <5>1. Text(Line(avs[k]))
                    BY LineFacts
                <5>. QED BY <5>1 DEF Text
            <4>2. Len(g[k]) = y + len /\ y \in Nat /\ Len(g[k]) <= Len(s)
                BY <3>2
            <4>3. x \in 1..len
                OBVIOUS
            <4>. HIDE DEF len, y
            <4>4. y + len <= Len(s)
                BY <4>2
            <4>. QED BY <4>1, <4>2, <4>3, <4>4
        <3>. HIDE DEF len, y
        <3>4. y + x \in 1..Len(s)
            BY <1>2, <3>3
        <3>5. Len(g[k-1]) + x \in 1..Len(s)
            BY <3>4 DEF y
        <3>. QED BY <1>4, <3>1, <3>5
    <2>. QED BY <2>1, <2>2
<1>. QED BY <1>4, <1>5, <1>6, <1>7, <1>8, <1>9 DEF LinesUpTo, r

\* So the image of Analog Values is made of their lines.
LEMMA ImageLines ==
    ASSUME NEW avs, Len(avs) \in Nat, \A k \in 1..Len(avs) : IsAv(avs[k])
    PROVE  \E L : Lines(Image(avs), avs, L)
<1>. DEFINE g == CHOOSE g : g = [k \in 0..Len(avs) |-> ImageStep(g, avs, k)]
<1>1. g = [k \in 0..Len(avs) |-> ImageStep(g, avs, k)]
    BY ImageExists
<1>2. Image(avs) = g[Len(avs)]
    BY DEF Image, ImageStep
<1>. HIDE DEF g
<1>. DEFINE S == {n \in Nat : n <= Len(avs) => LinesUpTo(g, avs, n)}
<1>3. 0 \in S
    <2>1. g[0] = <<Header>>
        BY <1>1 DEF ImageStep
    <2>2. GoodCell(Header)
        BY CellFacts
    <2>. DEFINE h == <<Header>>
    <2>3. Text(h) /\ Len(h) = 1 /\ h[1] = Header
        BY <2>2, CellIsText
    <2>. HIDE DEF h
    <2>4. LinesUpTo(g, avs, 0)
        <3>1. g[0] = h
            BY <2>1 DEF h
        <3>2. 1 + 0 * (SignificantDigits + 3) = 1
            BY ImageAssumption
        <3>3. 0..0 = {0} /\ 1..0 = {}
            OBVIOUS
        <3>4. Text(g[0]) /\ g[0][1] = Header /\ Len(g[0]) = 1
            BY <2>3, <3>1, Zenon
        <3>5. \A k \in 0..0 : Len(g[k]) \in Nat /\ Len(g[k]) >= 1 /\ Len(g[k]) <= Len(g[0])
            <4>1. Len(g[0]) \in Nat /\ Len(g[0]) >= 1 /\ Len(g[0]) <= Len(g[0])
                BY <3>4
            <4>. QED BY <3>3, <4>1, Zenon
        <3>6. Len(g[0]) >= 1 /\ Len(g[0]) <= 1 + 0 * (SignificantDigits + 3)
            BY <3>2, <3>4
        <3>. QED BY <3>3, <3>4, <3>5, <3>6, Zenon DEF LinesUpTo
    <2>. QED BY <2>4
<1>4. ASSUME NEW n \in Nat, n \in S
      PROVE  n + 1 \in S
    <2>. SUFFICES ASSUME n + 1 <= Len(avs) PROVE LinesUpTo(g, avs, n + 1)
        OBVIOUS
    <2>1. /\ n + 1 \in 0..Len(avs) /\ n + 1 # 0 /\ (n + 1) - 1 = n /\ n + 1 \in 1..Len(avs)
          /\ LinesUpTo(g, avs, n)
        BY <1>4
    <2>2. g[n+1] = g[n] \o Line(avs[n+1])
        BY <1>1, <2>1 DEF ImageStep
    <2>3. \A k \in 1..(n+1) : IsAv(avs[k])
        BY <2>1
    <2>. QED BY <2>1, <2>2, <2>3, LineAppended
<1>. HIDE DEF S
<1>5. Len(avs) \in S
    BY <1>3, <1>4, NatSetInduction
<1>6. LinesUpTo(g, avs, Len(avs))
    BY <1>5 DEF S
<1>. DEFINE L == [k \in 0..Len(avs) |-> Len(g[k])]
<1>7. \A k \in 0..Len(avs) : L[k] = Len(g[k])
    OBVIOUS
<1>8. \A k \in 1..Len(avs) : k \in 0..Len(avs) /\ k - 1 \in 0..Len(avs)
    OBVIOUS
<1>9. L[0] = 1
    <2>1. g[0] = <<Header>>
        BY <1>1 DEF ImageStep
    <2>2. Len(<<Header>>) = 1
        BY CellFacts, CellIsText
    <2>3. 0 \in 0..Len(avs)
        OBVIOUS
    <2>. HIDE DEF L
    <2>. QED BY <1>7, <2>1, <2>2, <2>3
<1>. HIDE DEF L
<1>10. Lines(Image(avs), avs, L)
    <2>. DEFINE image == Image(avs)
                n == Len(avs)
    <2>0. image = g[n] /\ n \in 0..n
        BY <1>2
    <2>1. Text(image) /\ image[1] = Header /\ Len(image) <= 1 + n * (SignificantDigits + 3)
        BY <1>6, <2>0 DEF LinesUpTo
    <2>2. \A k \in 0..n : L[k] \in 1..Len(image)
        <3>1. \A k \in 0..n : Len(g[k]) \in 1..Len(g[n])
            BY <1>6, <2>0 DEF LinesUpTo, Text
        <3>. QED BY <1>7, <2>0, <3>1
    <2>3. L[n] = Len(image)
        BY <1>7, <2>0
    <2>4. \A k \in 1..n : L[k] = L[k-1] + Len(Line(avs[k]))
        BY <1>6, <1>7, <1>8 DEF LinesUpTo
    <2>5. \A k \in 1..n : \A x \in 1..Len(Line(avs[k])) : image[L[k-1] + x] = Line(avs[k])[x]
        BY <1>6, <1>7, <1>8, <2>0 DEF LinesUpTo
    <2>. HIDE DEF image, n
    <2>6. Lines(image, avs, L)
        BY <1>9, <2>1, <2>2, <2>3, <2>4, <2>5 DEF Lines, n
    <2>. QED BY <2>6 DEF image
<1>. QED BY <1>10

\* The lines of a text start inside it.
LEMMA StartsInText ==
    ASSUME NEW image, Text(image)
    PROVE  /\ Len(LineStarts(image)) \in Nat
           /\ \A k \in 1..Len(LineStarts(image)) : LineStarts(image)[k] \in 1..Len(image)
<1>. DEFINE idx == [i \in 1..Len(image) |-> i]
            I == {i \in 2..Len(image) : /\ Kind(image[i]) # "newline"
                                        /\ i = 2 \/ Kind(image[i-1]) = "newline"}
            Y == {idx[i] : i \in I \cap (1..Len(idx))}
<1>1. Len(image) \in Nat
    BY DEF Text
<1>2. idx \in Seq(1..Len(image)) /\ Len(idx) = Len(image)
    <2>1. idx \in [1..Len(image) -> 1..Len(image)]
        OBVIOUS
    <2>. QED BY <1>1, <2>1
<1>3. \A y \in Y : y \in 1..Len(image)
    <2>. HIDE DEF I
    <2>. QED BY <1>1, <1>2
<1>4. LineStarts(image) = Picked(idx, I)
    BY DEF LineStarts
<1>. HIDE DEF I, idx
<1>5. Picked(idx, I) \in Seq(Y)
    BY <1>2, PickedFacts
<1>. HIDE DEF Y
<1>6. Len(Picked(idx, I)) \in Nat /\ \A k \in 1..Len(Picked(idx, I)) : Picked(idx, I)[k] \in Y
    BY <1>5, SequenceFacts, Zenon
<1>. QED BY <1>3, <1>4, <1>6

\* One turn of strtod's loop over the cells of a number, the turns before it being g.
NumberStep(g, cells, k) ==
    IF k = 0 THEN 0
    ELSE IF Kind(cells[k]) = "digit" THEN 10 * g[k-1] + cells[k][2]
                                     ELSE g[k-1] * TenTo[cells[k][2]]

\* The loop has a result after every number of turns.
LEMMA NumberExists ==
    ASSUME NEW cells, Len(cells) \in Nat
    PROVE  \E g : g = [k \in 0..Len(cells) |-> NumberStep(g, cells, k)]
<1>. DEFINE S == {n \in Nat : \E g : g = [k \in 0..n |-> NumberStep(g, cells, k)]}
<1>1. 0 \in S
    <2>. DEFINE g == [k \in 0..0 |-> 0]
    <2>1. g = [k \in 0..0 |-> NumberStep(g, cells, k)]
        BY DEF NumberStep
    <2>. HIDE DEF g
    <2>. QED BY <2>1
<1>2. ASSUME NEW n \in Nat, n \in S
      PROVE  n + 1 \in S
    <2>1. PICK g : g = [k \in 0..n |-> NumberStep(g, cells, k)]
        BY <1>2
    <2>. DEFINE h == [k \in 0..(n+1) |-> IF k = n + 1 THEN NumberStep(g, cells, k) ELSE g[k]]
    <2>2. \A k \in 0..(n+1) : NumberStep(h, cells, k) = NumberStep(g, cells, k)
        <3>1. \A k \in 0..n : h[k] = g[k]
            OBVIOUS
        <3>2. \A k \in 1..(n+1) : k - 1 \in 0..n
            OBVIOUS
        <3>. HIDE DEF h
        <3>. QED BY <3>1, <3>2 DEF NumberStep
    <2>3. \A k \in 0..(n+1) : h[k] = NumberStep(g, cells, k)
        BY <2>1
    <2>4. h = [k \in 0..(n+1) |-> h[k]]
        OBVIOUS
    <2>. HIDE DEF h
    <2>5. h = [k \in 0..(n+1) |-> NumberStep(h, cells, k)]
        BY <2>2, <2>3, <2>4
    <2>. QED BY <2>5
<1>. HIDE DEF S
<1>3. Nat \subseteq S
    BY <1>1, <1>2, NatSetInduction
<1>. QED BY <1>3 DEF S

\* A number is what the loop ends with.
LEMMA NumberDef ==
    ASSUME NEW cells, Len(cells) \in Nat
    PROVE  \E g : g = [k \in 0..Len(cells) |-> NumberStep(g, cells, k)] /\ Number(cells) = g[Len(cells)]
<1>. DEFINE g == CHOOSE g : g = [k \in 0..Len(cells) |-> NumberStep(g, cells, k)]
<1>1. g = [k \in 0..Len(cells) |-> NumberStep(g, cells, k)]
    BY NumberExists
<1>2. Number(cells) = g[Len(cells)]
    BY DEF Number, NumberStep
<1>. QED BY <1>1, <1>2

\* Every text reads as a natural number.
LEMMA NumberOfText ==
    ASSUME NEW cells, Text(cells)
    PROVE  Number(cells) \in Nat
<1>0. Len(cells) \in Nat
    BY DEF Text
<1>1. PICK g : g = [k \in 0..Len(cells) |-> NumberStep(g, cells, k)] /\ Number(cells) = g[Len(cells)]
    BY <1>0, NumberDef
<1>. DEFINE S == {n \in Nat : n <= Len(cells) => g[n] \in Nat}
<1>2. 0 \in S
    BY <1>0, <1>1 DEF NumberStep
<1>3. ASSUME NEW n \in Nat, n \in S PROVE n + 1 \in S
    <2>. SUFFICES ASSUME n + 1 <= Len(cells) PROVE g[n+1] \in Nat
        OBVIOUS
    <2>1. n + 1 \in 0..Len(cells) /\ n + 1 # 0 /\ (n + 1) - 1 = n /\ n + 1 \in 1..Len(cells) /\ g[n] \in Nat
        BY <1>0, <1>3
    <2>. DEFINE x == g[n]
                c == cells[n+1][2]
    <2>2. c \in Nat
        BY <2>1, CellFacts DEF Text
    <2>3. TenTo[c] \in Nat
        BY <2>2, TenToFacts
    <2>. DEFINE y == TenTo[c]
    <2>4. g[n+1] = 10 * x + c \/ g[n+1] = x * y
        BY <1>1, <2>1 DEF NumberStep
    <2>5. x \in Nat
        BY <2>1
    <2>. HIDE DEF x, c, y
    <2>6. 10 * x + c \in Nat
        BY <2>2, <2>5
    <2>7. x * y \in Nat
        BY <2>3, <2>5 DEF y
    <2>. QED BY <2>4, <2>6, <2>7
<1>. HIDE DEF S
<1>4. Len(cells) \in S
    BY <1>0, <1>2, <1>3, NatSetInduction
<1>. QED BY <1>0, <1>1, <1>4 DEF S

\* The parts of a line's parse are where they should be.
LEMMA EndsFacts ==
    ASSUME NEW image, Text(image), NEW i \in 1..Len(image)
    PROVE  /\ LineEnd(image, i) \in Nat /\ LineEnd(image, i) <= Len(image)
           /\ NumberEnd(image, i) \in Int /\ NumberEnd(image, i) <= LineEnd(image, i)
<1>. DEFINE E == {j \in i..Len(image) : Kind(image[j]) = "newline"} \cup {Len(image) + 1}
            e == LineEnd(image, i)
<1>0. Len(image) \in Nat /\ i \in Nat /\ i >= 1
    BY DEF Text
<1>1. E \subseteq Nat /\ E # {} /\ Len(image) + 1 \in E /\ \A j \in E : j >= 1
    BY <1>0
<1>. HIDE DEF E
<1>2. Min(E) \in Nat /\ Min(E) >= 1 /\ Min(E) <= Len(image) + 1
    <2>1. Min(E) \in E /\ Min(E) <= Len(image) + 1
        BY <1>1, MinFacts
    <2>. QED BY <1>1, <2>1
<1>3. e = Min(E) - 1
    BY DEF LineEnd, E
<1>. HIDE DEF e
<1>4. e \in Nat /\ e <= Len(image)
    BY <1>0, <1>1, <1>2, <1>3
<1>. DEFINE D == {j \in (i+1)..e : Kind(image[j]) # "digit"} \cup {e + 1}
            d == Min(D) - 1
<1>5. D \subseteq Nat /\ D # {} /\ e + 1 \in D
    BY <1>0, <1>4
<1>. HIDE DEF D
<1>6. Min(D) \in Nat /\ Min(D) <= e + 1
    BY <1>5, MinFacts
<1>7. d \in Int /\ d <= e
    BY <1>4, <1>6
<1>8. NumberEnd(image, i) = IF d > i /\ d < e /\ Kind(image[d + 1]) = "exponent" THEN d + 1 ELSE d
    BY DEF NumberEnd, D, e
<1>. HIDE DEF d
<1>9. NumberEnd(image, i) \in Int /\ NumberEnd(image, i) <= e
    BY <1>4, <1>7, <1>8
<1>. QED BY <1>4, <1>9 DEF e

\* A piece of a text is a text.
LEMMA PieceIsText ==
    ASSUME NEW image, Text(image), NEW i \in 1..Len(image), NEW j \in Nat, i <= j, j <= Len(image)
    PROVE  LET cells == SubSeq(image, i + 1, j)
           IN  Text(cells) /\ Len(cells) = j - i /\ \A k \in 1..(j - i) : cells[k] = image[i + k]
<1>. DEFINE X == {image[k] : k \in 1..Len(image)}
            cells == SubSeq(image, i + 1, j)
<1>0. Len(image) \in Nat /\ i \in Nat /\ i >= 1
    BY DEF Text
<1>1. image \in Seq(X)
    <2>1. image \in [1..Len(image) -> X]
        BY DEF Text
    <2>. QED BY <1>0, <2>1
<1>2. \A c \in X : GoodCell(c)
    BY DEF Text
<1>. HIDE DEF X
<1>3. cells \in Seq(X) /\ Len(cells) = j - i
    BY <1>0, <1>1
<1>4. \A k \in 1..(j - i) : cells[k] = image[i + k]
    BY <1>0, <1>1
<1>. QED BY <1>2, <1>3, <1>4, SequenceIsText

\* The value of a readable line is a natural number.
LEMMA NumberRead ==
    ASSUME NEW image, Text(image), NEW i \in 1..Len(image), ReadableLine(image, i)
    PROVE  Number(SubSeq(image, i + 1, NumberEnd(image, i))) \in Nat
<1>. DEFINE last == NumberEnd(image, i)
            cells == SubSeq(image, i + 1, last)
<1>1. last > i
    BY DEF ReadableLine
<1>2. last \in Int /\ last <= Len(image)
    <2>1. LineEnd(image, i) \in Nat /\ LineEnd(image, i) <= Len(image) /\ last \in Int /\ last <= LineEnd(image, i)
        BY EndsFacts
    <2>. HIDE DEF last
    <2>. QED BY <2>1 DEF Text
<1>. HIDE DEF last
<1>3. Text(cells)
    BY <1>1, <1>2, PieceIsText
<1>. QED BY <1>3, NumberOfText DEF last

\* The parser reads no more lines than the staging array holds, each an Analog Value.
LEMMA LinesFacts ==
    ASSUME NEW image, Text(image)
    PROVE  /\ LinesRead(image) \in 0..MaxAnalogValues
           /\ \A k \in 1..LinesRead(image) : IsAv(Entry(image, LineStarts(image)[k]))
<1>. DEFINE starts == LineStarts(image)
            Stops(k) == k >= MaxAnalogValues \/ ~ReadableLine(image, starts[k+1])
            K == {k \in 0..(Len(starts) - 1) : Stops(k)} \cup {Len(starts)}
<1>1. Len(starts) \in Nat /\ MaxAnalogValues \in Nat
    BY StartsInText, ImageAssumption
<1>2. LinesRead(image) = Min(K)
    BY DEF LinesRead
<1>. HIDE DEF starts
<1>3. K \subseteq Nat /\ K # {} /\ Len(starts) \in K
    <2>. HIDE DEF Stops
    <2>. QED BY <1>1
<1>4. Min(K) \in Nat /\ \A y \in K : Min(K) <= y
    <2>. HIDE DEF K
    <2>. QED BY <1>3, MinFacts
<1>5. Min(K) <= Len(starts)
    BY <1>3, <1>4
<1>6. \A k \in 0..(Len(starts) - 1) : k < Min(K) => ~Stops(k)
    <2>. SUFFICES ASSUME NEW k \in 0..(Len(starts) - 1), Stops(k), k < Min(K) PROVE FALSE
        OBVIOUS
    <2>1. k \in K
        <3>. HIDE DEF Stops
        <3>. QED OBVIOUS
    <2>. HIDE DEF K, Stops
    <2>. QED BY <1>1, <1>4, <2>1
<1>7. Min(K) <= MaxAnalogValues
    <2>. SUFFICES ASSUME Min(K) > MaxAnalogValues PROVE FALSE
        <3>. HIDE DEF K
        <3>. QED BY <1>1, <1>4
    <2>1. MaxAnalogValues \in 0..(Len(starts) - 1) /\ MaxAnalogValues < Min(K)
        <3>. HIDE DEF K
        <3>. QED BY <1>1, <1>4, <1>5
    <2>2. Stops(MaxAnalogValues)
        BY <1>1
    <2>. HIDE DEF K, Stops
    <2>. QED BY <1>6, <2>1, <2>2
<1>8. ASSUME NEW k \in 1..Min(K) PROVE IsAv(Entry(image, starts[k]))
    <2>1. k - 1 \in 0..(Len(starts) - 1) /\ k - 1 < Min(K) /\ (k - 1) + 1 = k /\ k \in 1..Len(starts)
        <3>. HIDE DEF K
        <3>. QED BY <1>1, <1>4, <1>5
    <2>2. ReadableLine(image, starts[k])
        <3>1. ~Stops(k - 1)
            <4>. HIDE DEF K, Stops
            <4>. QED BY <1>6, <2>1
        <3>. QED BY <2>1, <3>1
    <2>3. Kind(image[starts[k]]) = "analog-value"
        BY <2>2 DEF ReadableLine
    <2>4. starts[k] \in 1..Len(image)
        BY <2>1, StartsInText DEF starts
    <2>5. image[starts[k]][2] \in Instances
        BY <2>3, <2>4, CellFacts DEF Text
    <2>6. Number(SubSeq(image, starts[k] + 1, NumberEnd(image, starts[k]))) \in Nat
        BY <2>2, <2>4, NumberRead
    <2>. QED BY <2>5, <2>6, AvFacts DEF Entry
<1>. HIDE DEF K
<1>. QED BY <1>1, <1>2, <1>4, <1>7, <1>8 DEF starts

\* Parsing, accepted or not, leaves Analog Values in the staging array, and the lines
\* it read in front.
LEMMA StagedByFacts ==
    ASSUME NEW image, Text(image), StagedOK, NEW after, after = StagedBy(image, staged)
    PROVE  /\ after = [s \in Slots |-> after[s]]
           /\ \A s \in Slots : IsAv(after[s]) \/ after[s] = NoEntry
           /\ \A s \in 1..stagedCount : IsAv(after[s])
           /\ HasHeader(image) => \A s \in 1..LinesRead(image) : IsAv(after[s])
<1>0. /\ 1..LinesRead(image) \subseteq Slots /\ 1..stagedCount \subseteq Slots
      /\ \A s \in Slots : s <= LinesRead(image) => s \in 1..LinesRead(image)
    BY LinesFacts, ImageAssumption DEF Slots, StagedOK
<1>1. CASE ~HasHeader(image)
    BY <1>1 DEF StagedBy, StagedOK
<1>2. CASE HasHeader(image)
    <2>1. after = [k \in Slots |-> IF k <= LinesRead(image) THEN Entries(image)[k] ELSE staged[k]]
        BY <1>2 DEF StagedBy, Slots
    <2>2. ASSUME NEW s \in 1..LinesRead(image) PROVE IsAv(after[s])
        <3>1. s \in Slots /\ s <= LinesRead(image)
            BY <1>0, LinesFacts, ImageAssumption
        <3>2. Entries(image)[s] = Entry(image, LineStarts(image)[s])
            BY DEF Entries
        <3>3. after[s] = Entries(image)[s]
            BY <2>1, <3>1
        <3>. QED BY <3>2, <3>3, LinesFacts
    <2>3. ASSUME NEW s \in Slots, s \notin 1..LinesRead(image) PROVE after[s] = staged[s]
        BY <1>0, <2>1, <2>3
    <2>4. after = [s \in Slots |-> after[s]]
        BY <2>1
    <2>. QED BY <1>0, <2>2, <2>3, <2>4 DEF StagedOK
<1>. QED BY <1>1, <1>2

\* A piece of a good staging array, from its front, is a sequence of Analog Values.
LEMMA FrontOfStaging ==
    ASSUME NEW after, NEW n \in Nat, \A k \in 1..n : IsAv(after[k])
    PROVE  /\ SubSeq(after, 1, n) \in Seq(AnalogValues) /\ Len(SubSeq(after, 1, n)) = n
           /\ \A k \in 1..n : SubSeq(after, 1, n)[k] = after[k]
<1>1. \A k \in 1..n : after[k] \in AnalogValues
    BY DEF IsAv
<1>2. /\ SubSeq(after, 1, n) \in Seq(AnalogValues)
      /\ Len(SubSeq(after, 1, n)) = IF 1 <= n THEN n - 1 + 1 ELSE 0
      /\ \A k \in 1..(n - 1 + 1) : SubSeq(after, 1, n)[k] = after[1 + k - 1]
    BY <1>1, SubSeqProperties
<1>3. n - 1 + 1 = n /\ (n = 0 \/ 1 <= n) /\ \A k \in 1..n : 1 + k - 1 = k
    OBVIOUS
<1>. QED BY <1>2, <1>3

\* What stands in front of the staging array after an image with a header is what the
\* image holds.
LEMMA StagedAreEntries ==
    ASSUME NEW image, Text(image), StagedOK, HasHeader(image)
    PROVE  SubSeq(StagedBy(image, staged), 1, LinesRead(image)) = Entries(image)
<1>. DEFINE after == StagedBy(image, staged)
            n == LinesRead(image)
<1>0. n \in Nat /\ n <= MaxAnalogValues /\ MaxAnalogValues \in Nat
    BY LinesFacts, ImageAssumption
<1>1. \A k \in 1..n : IsAv(after[k])
    BY StagedByFacts
<1>2. \A k \in 1..n : after[k] = Entries(image)[k]
    <2>1. after = [k \in 1..MaxAnalogValues |-> IF k <= n THEN Entries(image)[k] ELSE staged[k]]
        BY DEF StagedBy
    <2>. HIDE DEF after, n
    <2>. QED BY <1>0, <2>1
<1>3. Entries(image) \in Seq(AnalogValues) /\ Len(Entries(image)) = n
    <2>1. \A k \in 1..n : Entry(image, LineStarts(image)[k]) \in AnalogValues
        BY LinesFacts DEF IsAv
    <2>2. Entries(image) \in [1..n -> AnalogValues]
        BY <2>1 DEF Entries
    <2>. HIDE DEF n
    <2>. QED BY <1>0, <2>2
<1>. HIDE DEF after, n
<1>4. /\ SubSeq(after, 1, n) \in Seq(AnalogValues) /\ Len(SubSeq(after, 1, n)) = n
      /\ \A k \in 1..n : SubSeq(after, 1, n)[k] = after[k]
    BY <1>0, <1>1, FrontOfStaging
<1>5. SubSeq(after, 1, n) = Entries(image)
    BY <1>2, <1>3, <1>4, SeqEqual
<1>. QED BY <1>5 DEF after, n

-----------------------------------------------------------------------------
(***************************************************************************)
(* A backup read back.  The digits of a number read as the number, the     *)
(* lines of an image start where BuildConfigurationImage put them, and     *)
(* each of them parses as the object it was written for.                   *)
(***************************************************************************)
\* What is printed reads as the number rounded to the digits that were kept.
LEMMA PrintedReads ==
    ASSUME NEW v \in Nat
    PROVE  Number(Printed(v)) = Rounded(v)
<1>. DEFINE cells == Printed(v)
            m == Mantissa(v)
            n == DigitsOf(v)
            d == Dropped(v)
<1>1. m \in Nat /\ d \in Nat
    BY MantissaFacts
<1>2. /\ n \in 1..SignificantDigits
      /\ Text(cells) /\ Len(cells) = n + (IF d = 0 THEN 0 ELSE 1)
      /\ \A k \in 1..n : cells[k] = Digit((m \div TenTo[n - k]) % 10) /\ (m \div TenTo[n - k]) % 10 \in 0..9
      /\ d # 0 => cells[n + 1] = Exponent(d)
    BY PrintedFacts
<1>3. m < TenTo[n]
    BY <1>1, DigitsFacts DEF DigitsOf
<1>4. Rounded(v) = m * TenTo[d]
    BY DEF Rounded
<1>. HIDE DEF cells, m, n, d
<1>5. n \in Nat /\ n >= 1 /\ Len(cells) \in Nat /\ n <= Len(cells)
    BY <1>2, ImageAssumption
<1>6. PICK g : g = [k \in 0..Len(cells) |-> NumberStep(g, cells, k)] /\ Number(cells) = g[Len(cells)]
    BY <1>5, NumberDef
<1>. DEFINE S == {k \in Nat : k <= n => g[k] = m \div TenTo[n - k]}
<1>7. 0 \in S
    <2>. DEFINE t == TenTo[n]
    <2>1. t \in Nat \ {0}
        BY <1>5, TenToFacts
    <2>2. m < t
        BY <1>3
    <2>. HIDE DEF t
    <2>3. m \div t = 0
        <3>1. m = 0 * t + m /\ m \in 0..(t - 1)
            BY <1>1, <2>1, <2>2
        <3>2. (0 * t + m) \div t = 0
            BY <2>1, <3>1, Division
        <3>. QED BY <3>1, <3>2
    <2>4. g[0] = 0
        BY <1>5, <1>6 DEF NumberStep
    <2>5. n - 0 = n
        BY <1>5
    <2>. QED BY <2>3, <2>4, <2>5 DEF t
<1>8. ASSUME NEW k \in Nat, k \in S PROVE k + 1 \in S
    <2>. SUFFICES ASSUME k + 1 <= n PROVE g[k+1] = m \div TenTo[n - (k + 1)]
        OBVIOUS
    <2>. DEFINE e == n - (k + 1)
                t == TenTo[e]
                q == m \div t
    <2>1. e \in Nat /\ n - k = e + 1 /\ k + 1 \in 1..n /\ k + 1 \in 0..Len(cells) /\ (k + 1) - 1 = k
        BY <1>5
    <2>2. t \in Nat \ {0} /\ TenTo[n - k] = 10 * t
        BY <2>1, TenToFacts
    <2>3. g[k] = m \div (10 * t)
        BY <1>5, <1>8, <2>2
    <2>4. cells[k+1] = Digit(q % 10) /\ q % 10 \in 0..9
        BY <1>2, <2>1
    <2>5. g[k+1] = NumberStep(g, cells, k + 1)
        BY <1>6, <2>1
    <2>. HIDE DEF e, t
    <2>6. q \in Nat /\ q \div 10 = m \div (10 * t)
        BY <1>1, <2>2, Divided, DivideTwice
    <2>. HIDE DEF q
    <2>7. Kind(cells[k+1]) = "digit" /\ cells[k+1][2] = q % 10
        BY <2>4, CellFacts
    <2>8. g[k+1] = 10 * g[k] + (q % 10)
        BY <2>1, <2>5, <2>7 DEF NumberStep
    <2>9. g[k+1] = 10 * (q \div 10) + (q % 10)
        BY <2>3, <2>6, <2>8
    <2>10. q = 10 * (q \div 10) + (q % 10)
        BY <2>6
    <2>. QED BY <2>9, <2>10 DEF q, t, e
<1>. HIDE DEF S
<1>9. g[n] = m
    <2>1. n \in S
        BY <1>5, <1>7, <1>8, NatSetInduction
    <2>2. g[n] = m \div TenTo[n - n] /\ n - n = 0
        BY <1>5, <2>1 DEF S
    <2>3. TenTo[0] = 1 /\ m \div 1 = m
        BY <1>1, TenToFacts
    <2>. QED BY <2>2, <2>3
<1>10. CASE d = 0
    <2>1. Len(cells) = n
        BY <1>2, <1>5, <1>10
    <2>2. Rounded(v) = m
        BY <1>1, <1>4, <1>10, TenToFacts
    <2>. QED BY <1>6, <1>9, <2>1, <2>2 DEF cells
<1>11. CASE d # 0
    <2>1. Len(cells) = n + 1 /\ n + 1 \in 0..Len(cells) /\ n + 1 # 0 /\ (n + 1) - 1 = n
        BY <1>2, <1>5, <1>11
    <2>2. Kind(cells[n+1]) = "exponent" /\ cells[n+1][2] = d
        BY <1>1, <1>2, <1>11, CellFacts
    <2>3. g[n+1] = NumberStep(g, cells, n + 1)
        BY <1>6, <2>1
    <2>4. g[n+1] = g[n] * TenTo[d]
        BY <2>1, <2>2, <2>3 DEF NumberStep
    <2>. QED BY <1>4, <1>6, <1>9, <2>1, <2>4 DEF cells
<1>. QED BY <1>10, <1>11

\* After n turns the loop over the table has picked what is in use of its first n slots.
InUseUpTo(g, t, n) ==
    /\ g[n] \in Seq({t[s] : s \in Slots}) /\ Len(g[n]) <= n
    /\ \A x \in 1..Len(g[n]) : \E i \in 1..n : t[i] # Free /\ g[n][x] = t[i]
    /\ \A i \in 1..n : t[i] # Free => \E x \in 1..Len(g[n]) : g[n][x] = t[i]
    /\ \A x, y \in 1..Len(g[n]) : x # y => g[n][x].instance # g[n][y].instance

\* One more turn.
LEMMA InUsePicksOne ==
    ASSUME NEW t, NEW db, Agree(t, db), NEW g, NEW n \in Nat, n + 1 \in Slots, InUseUpTo(g, t, n),
           g[n+1] = IF t[n+1] # Free THEN Append(g[n], t[n+1]) ELSE g[n]
    PROVE  InUseUpTo(g, t, n + 1)
<1>. DEFINE X == {t[s] : s \in Slots}
            e == t[n+1]
            q == g[n]
            u == g[n+1]
<1>0. e \in X /\ n + 1 \in 1..(n + 1) /\ (\A i \in 1..n : i \in 1..(n + 1) /\ i # n + 1)
      /\ \A i \in 1..(n + 1) : i = n + 1 \/ i \in 1..n
    OBVIOUS
<1>1. /\ q \in Seq(X) /\ Len(q) \in Nat /\ Len(q) <= n
      /\ \A x \in 1..Len(q) : \E i \in 1..n : t[i] # Free /\ q[x] = t[i]
      /\ \A i \in 1..n : t[i] # Free => \E x \in 1..Len(q) : q[x] = t[i]
      /\ \A x, y \in 1..Len(q) : x # y => q[x].instance # q[y].instance
    <2>1. q \in Seq(X) => Len(q) \in Nat
        BY SequenceFacts
    <2>. QED BY <2>1 DEF InUseUpTo
<1>2. u = IF e # Free THEN Append(q, e) ELSE q
    OBVIOUS
<1>3. \A i \in 1..n : i \in Slots
    BY ImageAssumption DEF Slots
<1>. HIDE DEF X, q, u
<1>4. CASE e = Free
    <2>1. u = q
        BY <1>2, <1>4
    <2>2. u \in Seq(X) /\ Len(u) <= n + 1
        BY <1>1, <2>1
    <2>3. \A x \in 1..Len(u) : \E i \in 1..(n + 1) : t[i] # Free /\ u[x] = t[i]
        BY <1>0, <1>1, <2>1
    <2>4. \A i \in 1..(n + 1) : t[i] # Free => \E x \in 1..Len(u) : u[x] = t[i]
        BY <1>0, <1>1, <1>4, <2>1
    <2>5. \A x, y \in 1..Len(u) : x # y => u[x].instance # u[y].instance
        BY <1>1, <2>1
    <2>. QED BY <2>2, <2>3, <2>4, <2>5 DEF InUseUpTo, u, X
<1>5. CASE e # Free
    <2>. DEFINE l == Len(q)
    <2>0. u = Append(q, e) /\ l \in Nat
        BY <1>1, <1>2, <1>5
    <2>1. u \in Seq(X) /\ Len(u) = l + 1 /\ u[l + 1] = e /\ \A x \in 1..l : u[x] = q[x]
        BY <1>0, <1>1, <2>0
    <2>2. Len(u) <= n + 1 /\ l + 1 \in 1..(l + 1) /\ (\A x \in 1..l : x \in 1..(l + 1))
          /\ \A x \in 1..(l + 1) : x = l + 1 \/ x \in 1..l
        BY <1>1, <2>1
    <2>. HIDE DEF l
    <2>3. ASSUME NEW x \in 1..(l + 1) PROVE \E i \in 1..(n + 1) : t[i] # Free /\ u[x] = t[i]
        <3>1. CASE x = l + 1
            BY <1>0, <1>5, <2>1, <3>1
        <3>2. CASE x \in 1..l
            <4>1. PICK i \in 1..n : t[i] # Free /\ q[x] = t[i]
                BY <1>1, <3>2 DEF l
            <4>. QED BY <1>0, <2>1, <3>2, <4>1
        <3>. QED BY <2>2, <3>1, <3>2
    <2>4. ASSUME NEW i \in 1..(n + 1), t[i] # Free PROVE \E x \in 1..(l + 1) : u[x] = t[i]
        <3>1. CASE i = n + 1
            BY <2>1, <2>2, <3>1
        <3>2. CASE i \in 1..n
            <4>1. PICK x \in 1..l : q[x] = t[i]
                BY <1>1, <2>4, <3>2 DEF l
            <4>. QED BY <2>1, <2>2, <4>1
        <3>. QED BY <1>0, <3>1, <3>2
    <2>5. ASSUME NEW x \in 1..l PROVE q[x].instance # e.instance
        <3>1. PICK i \in 1..n : t[i] # Free /\ q[x] = t[i]
            BY <1>1 DEF l
        <3>2. i \in Slots /\ i # n + 1
            BY <1>0, <1>3
        <3>. QED BY <3>1, <3>2 DEF Agree
    <2>6. ASSUME NEW x \in 1..(l + 1), NEW y \in 1..(l + 1), x # y PROVE u[x].instance # u[y].instance
        <3>1. CASE x \in 1..l /\ y \in 1..l
            <4>1. u[x] = q[x] /\ u[y] = q[y]
                BY <2>1, <3>1
            <4>2. q[x].instance # q[y].instance
                BY <1>1, <2>6, <3>1 DEF l
            <4>. QED BY <4>1, <4>2
        <3>2. CASE x = l + 1 /\ y \in 1..l
            BY <2>1, <2>5, <3>2
        <3>3. CASE x \in 1..l /\ y = l + 1
            BY <2>1, <2>5, <3>3
        <3>. QED BY <2>2, <2>6, <3>1, <3>2, <3>3
    <2>7. Len(u) = l + 1 /\ u \in Seq(X) /\ Len(u) <= n + 1
        BY <2>1, <2>2
    <2>. QED BY <2>3, <2>4, <2>6, <2>7 DEF InUseUpTo, u, X
<1>. QED BY <1>4, <1>5

\* The objects in use are the table's, each once, and no more than it has slots.
LEMMA InUseIsHeld ==
    ASSUME NEW t, NEW db, Agree(t, db)
    PROVE  LET avs == InUse(t)
           IN  /\ Len(avs) \in 0..MaxAnalogValues
               /\ {avs[k] : k \in 1..Len(avs)} = Held(t)
               /\ \A x, y \in 1..Len(avs) : x # y => avs[x].instance # avs[y].instance
<1>. DEFINE I == {s \in Slots : t[s] # Free}
            N == MaxAnalogValues
<1>0. N \in Nat /\ Slots = 1..N
    BY ImageAssumption DEF Slots
<1>1. Len(t) = N
    <2>1. t \in [1..N -> {t[s] : s \in Slots}]
        BY <1>0 DEF Agree
    <2>. QED BY <1>0, <2>1
<1>2. PICK g : g = [i \in 0..N |-> PickStep(g, t, I, i)] /\ Picked(t, I) = g[N]
    <2>1. Len(t) \in Nat
        BY <1>0, <1>1
    <2>. HIDE DEF I
    <2>. QED BY <1>1, <2>1, PickedDef
<1>3. InUse(t) = g[N]
    BY <1>2 DEF InUse
<1>. DEFINE S == {n \in Nat : n <= N => InUseUpTo(g, t, n)}
<1>4. 0 \in S
    <2>1. g[0] = << >>
        BY <1>0, <1>2 DEF PickStep
    <2>. DEFINE X == {t[s] : s \in Slots}
    <2>. HIDE DEF X
    <2>2. << >> \in Seq(X) /\ Len(<< >>) = 0
        OBVIOUS
    <2>3. 1..0 = {}
        OBVIOUS
    <2>4. InUseUpTo(g, t, 0)
        BY <2>1, <2>2, <2>3 DEF InUseUpTo, X
    <2>. QED BY <2>4
<1>5. ASSUME NEW n \in Nat, n \in S PROVE n + 1 \in S
    <2>. SUFFICES ASSUME n + 1 <= N PROVE InUseUpTo(g, t, n + 1)
        OBVIOUS
    <2>1. n + 1 \in 0..N /\ n + 1 # 0 /\ (n + 1) - 1 = n /\ n + 1 \in Slots /\ InUseUpTo(g, t, n)
        BY <1>0, <1>5
    <2>2. g[n+1] = PickStep(g, t, I, n + 1)
        BY <1>2, <2>1
    <2>3. n + 1 \in I <=> t[n+1] # Free
        BY <2>1
    <2>. HIDE DEF I
    <2>4. g[n+1] = IF t[n+1] # Free THEN Append(g[n], t[n+1]) ELSE g[n]
        BY <2>1, <2>2, <2>3 DEF PickStep
    <2>. QED BY <2>1, <2>4, InUsePicksOne
<1>. HIDE DEF S
<1>6. InUseUpTo(g, t, N)
    <2>1. N \in S
        BY <1>0, <1>4, <1>5, NatSetInduction
    <2>. QED BY <1>0, <2>1 DEF S
<1>. DEFINE avs == InUse(t)
<1>. HIDE DEF avs
<1>7. avs = g[N]
    BY <1>3 DEF avs
<1>8. Len(avs) \in 0..N
    <2>. DEFINE X == {t[s] : s \in Slots}
    <2>1. avs \in Seq(X) /\ Len(avs) <= N
        BY <1>6, <1>7 DEF InUseUpTo
    <2>. HIDE DEF X
    <2>2. Len(avs) \in Nat
        BY <2>1
    <2>. QED BY <1>0, <2>1, <2>2
<1>9. \A x, y \in 1..Len(avs) : x # y => avs[x].instance # avs[y].instance
    BY <1>6, <1>7 DEF InUseUpTo
<1>10. \A av : av \in {avs[k] : k \in 1..Len(avs)} <=> av \in Held(t)
    <2>1. ASSUME NEW k \in 1..Len(avs) PROVE avs[k] \in Held(t)
        BY <1>0, <1>6, <1>7 DEF InUseUpTo, Held
    <2>2. ASSUME NEW av \in Held(t) PROVE \E k \in 1..Len(avs) : avs[k] = av
        <3>1. PICK i \in Slots : t[i] # Free /\ av = t[i]
            BY DEF Held
        <3>. QED BY <1>0, <1>6, <1>7, <3>1 DEF InUseUpTo
    <2>. QED BY <2>1, <2>2
<1>. QED BY <1>8, <1>9, <1>10 DEF avs

\* A line stands at position i of the image, for the Analog Value av.
LineAt(image, i, av) ==
    LET p == Len(Printed(av.value))
    IN  /\ Text(image) /\ i \in 2..Len(image) /\ i + p + 1 \in 1..Len(image)
        /\ image[i] = Av(av.instance)
        /\ \A j \in 1..p : image[i + j] = Printed(av.value)[j]
        /\ image[i + p + 1] = Newline

\* The cells of a number are digits up to an exponent, which is the last of them.
LEMMA PrintedKinds ==
    ASSUME NEW v \in Nat
    PROVE  LET p == Len(Printed(v))
           IN  /\ p \in Nat /\ p >= 1
               /\ \A j \in 1..(p - 1) : Kind(Printed(v)[j]) = "digit"
               /\ \/ Kind(Printed(v)[p]) = "digit"
                  \/ Kind(Printed(v)[p]) = "exponent" /\ p >= 2
<1>. DEFINE cells == Printed(v)
            n == DigitsOf(v)
            d == Dropped(v)
<1>1. d \in Nat
    BY MantissaFacts
<1>2. /\ n \in 1..SignificantDigits /\ Len(cells) = n + (IF d = 0 THEN 0 ELSE 1)
      /\ \A k \in 1..n : Kind(cells[k]) = "digit"
      /\ d # 0 => Kind(cells[n + 1]) = "exponent"
    BY <1>1, PrintedFacts, CellFacts
<1>. HIDE DEF cells, n, d
<1>3. n \in Nat /\ n >= 1
    BY <1>2, ImageAssumption
<1>4. CASE d = 0
    <2>1. Len(cells) = n /\ n \in 1..n /\ \A j \in 1..(n - 1) : j \in 1..n
        BY <1>2, <1>3, <1>4
    <2>. QED BY <1>2, <1>3, <2>1 DEF cells
<1>5. CASE d # 0
    <2>1. Len(cells) = n + 1 /\ (n + 1) - 1 = n
        BY <1>2, <1>3, <1>5
    <2>. QED BY <1>2, <1>3, <1>5, <2>1 DEF cells
<1>. QED BY <1>4, <1>5

\* The least element of a set of naturals, once known, is its Min.
LEMMA MinIs ==
    ASSUME NEW S, S \subseteq Nat, NEW m \in S, \A y \in S : m <= y
    PROVE  Min(S) = m
<1>1. Min(S) \in S /\ \A y \in S : Min(S) <= y
    BY MinFacts
<1>2. Min(S) \in Nat /\ m \in Nat /\ Min(S) <= m /\ m <= Min(S)
    BY <1>1
<1>. QED BY <1>2

\* The parser finds the end of the line and of its number where they are.
LEMMA LineEnds ==
    ASSUME NEW image, NEW i, NEW av, IsAv(av), LineAt(image, i, av)
    PROVE  LET e == i + Len(Printed(av.value))
           IN  LineEnd(image, i) = e /\ NumberEnd(image, i) = e
<1>. DEFINE w == Printed(av.value)
            p == Len(w)
            e == i + p
<1>0. /\ p \in Nat /\ p >= 1
      /\ \A j \in 1..(p - 1) : Kind(w[j]) = "digit"
      /\ Kind(w[p]) = "digit" \/ (Kind(w[p]) = "exponent" /\ p >= 2)
    BY PrintedKinds, AvIsNotFree
<1>1. /\ Len(image) \in Nat /\ i \in 2..Len(image) /\ e + 1 \in 1..Len(image)
      /\ Kind(image[i]) = "analog-value"
      /\ \A j \in 1..p : image[i + j] = w[j]
      /\ Kind(image[e + 1]) = "newline"
    BY CellFacts DEF LineAt, Text, IsAv, AnalogValues
<1>. HIDE DEF w
<1>2. i \in Nat /\ e \in Nat /\ e + 1 \in i..Len(image) /\ p \in 1..p
    BY <1>0, <1>1
<1>. HIDE DEF p
<1>3. \A j \in 1..p : Kind(image[i + j]) \in {"digit", "exponent"}
    <2>. SUFFICES ASSUME NEW j \in 1..p PROVE Kind(w[j]) \in {"digit", "exponent"}
        BY <1>1
    <2>1. j = p \/ j \in 1..(p - 1)
        BY <1>0
    <2>. QED BY <1>0, <2>1
<1>4. \A x \in (i + 1)..e : x - i \in 1..p /\ i + (x - i) = x
    BY <1>0, <1>2
<1>. DEFINE E == {j \in i..Len(image) : Kind(image[j]) = "newline"} \cup {Len(image) + 1}
<1>5. LineEnd(image, i) = Min(E) - 1
    BY DEF LineEnd
<1>6. E \subseteq Nat /\ e + 1 \in E
    BY <1>1, <1>2
<1>7. \A y \in E : e + 1 <= y
    <2>. SUFFICES ASSUME NEW y \in E, y <= e PROVE FALSE
        BY <1>2, <1>6
    <2>1. y \in i..Len(image) /\ Kind(image[y]) = "newline"
        BY <1>1, <1>2
    <2>2. CASE y = i
        BY <1>1, <2>1, <2>2
    <2>3. CASE y \in (i + 1)..e
        <3>1. Kind(image[i + (y - i)]) \in {"digit", "exponent"}
            BY <1>3, <1>4, <2>3
        <3>2. Kind(image[y]) \in {"digit", "exponent"}
            BY <1>4, <2>3, <3>1
        <3>. QED BY <2>1, <3>2
    <2>. QED BY <1>1, <1>2, <2>1, <2>2, <2>3
<1>. HIDE DEF E
<1>8. LineEnd(image, i) = e
    <2>1. Min(E) = e + 1
        BY <1>6, <1>7, MinIs
    <2>. QED BY <1>2, <1>5, <2>1
<1>. DEFINE D == {j \in (i+1)..e : Kind(image[j]) # "digit"} \cup {e + 1}
            d == Min(D) - 1
<1>9. NumberEnd(image, i) = IF d > i /\ d < e /\ Kind(image[d + 1]) = "exponent" THEN d + 1 ELSE d
    BY <1>8 DEF NumberEnd
<1>10. D \subseteq Nat /\ e + 1 \in D
    BY <1>2
<1>11. \A x \in (i + 1)..(e - 1) : Kind(image[x]) = "digit"
    <2>. SUFFICES ASSUME NEW x \in (i + 1)..(e - 1) PROVE Kind(image[x]) = "digit"
        OBVIOUS
    <2>1. x - i \in 1..(p - 1) /\ x - i \in 1..p /\ i + (x - i) = x
        BY <1>0, <1>2
    <2>2. image[i + (x - i)] = w[x - i] /\ Kind(w[x - i]) = "digit"
        BY <1>0, <1>1, <2>1
    <2>. QED BY <2>1, <2>2
<1>12. image[e] = w[p] /\ e \in (i + 1)..e
    BY <1>0, <1>1, <1>2
<1>13. CASE Kind(w[p]) = "digit"
    <2>1. \A y \in D : e + 1 <= y
        <3>. SUFFICES ASSUME NEW y \in (i + 1)..e PROVE Kind(image[y]) = "digit"
            BY <1>2
        <3>1. y = e \/ y \in (i + 1)..(e - 1)
            BY <1>2
        <3>. QED BY <1>11, <1>12, <1>13, <3>1
    <2>. HIDE DEF D
    <2>2. Min(D) = e + 1
        BY <1>10, <2>1, MinIs
    <2>3. d = e
        BY <1>2, <2>2
    <2>. HIDE DEF d
    <2>4. NumberEnd(image, i) = e
        BY <1>2, <1>9, <2>3
    <2>. QED BY <1>8, <2>4 DEF p, w
<1>14. CASE Kind(w[p]) = "exponent" /\ p >= 2
    <2>1. e \in D
        BY <1>12, <1>14
    <2>2. \A y \in D : e <= y
        <3>. SUFFICES ASSUME NEW y \in (i + 1)..e, Kind(image[y]) # "digit" PROVE e <= y
            BY <1>2
        <3>1. y \notin (i + 1)..(e - 1)
            BY <1>11
        <3>. QED BY <1>2, <3>1
    <2>. HIDE DEF D
    <2>3. Min(D) = e
        BY <1>10, <2>1, <2>2, MinIs
    <2>4. d = e - 1 /\ d + 1 = e /\ d > i /\ d < e
        BY <1>0, <1>2, <1>14, <2>3
    <2>. HIDE DEF d
    <2>5. Kind(image[d + 1]) = "exponent"
        BY <1>12, <1>14, <2>4
    <2>6. NumberEnd(image, i) = e
        BY <1>9, <2>4, <2>5
    <2>. QED BY <1>8, <2>6 DEF p, w
<1>. QED BY <1>0, <1>13, <1>14

\* A line reads as the Analog Value it was written for, rounded.
LEMMA LineReads ==
    ASSUME NEW image, NEW i, NEW av, IsAv(av), LineAt(image, i, av)
    PROVE  /\ ReadableLine(image, i)
           /\ Entry(image, i) = [instance |-> av.instance, value |-> Rounded(av.value)]
<1>. DEFINE w == Printed(av.value)
            p == Len(w)
            e == i + p
            cells == SubSeq(image, i + 1, e)
<1>0. av.instance \in Instances /\ av.value \in Nat
    BY DEF IsAv, AnalogValues
<1>1. p \in Nat /\ p >= 1 /\ Text(w)
    BY <1>0, PrintedKinds, PrintedFacts
<1>2. LineEnd(image, i) = e /\ NumberEnd(image, i) = e
    BY LineEnds
<1>3. /\ Text(image) /\ Len(image) \in Nat /\ i \in 2..Len(image) /\ e + 1 \in 1..Len(image)
      /\ image[i] = Av(av.instance)
      /\ \A j \in 1..p : image[i + j] = w[j]
    BY DEF LineAt, Text
<1>. HIDE DEF w
<1>4. i \in 1..Len(image) /\ e \in Nat /\ i < e /\ e <= Len(image) /\ e - i = p /\ i \in Nat
    BY <1>1, <1>3
<1>5. Kind(image[i]) = "analog-value" /\ image[i][2] = av.instance
    BY <1>0, <1>3, CellFacts
<1>. HIDE DEF p, e
<1>6. ReadableLine(image, i)
    BY <1>2, <1>4, <1>5 DEF ReadableLine
<1>7. Text(cells) /\ Len(cells) = p /\ \A k \in 1..p : cells[k] = image[i + k]
    <2>1. LET c == SubSeq(image, i + 1, e)
          IN  Text(c) /\ Len(c) = e - i /\ \A k \in 1..(e - i) : c[k] = image[i + k]
        BY <1>3, <1>4, PieceIsText
    <2>. QED BY <1>4, <2>1
<1>. HIDE DEF cells
<1>8. cells = w
    <2>1. cells = [k \in 1..p |-> cells[k]] /\ w = [k \in 1..p |-> w[k]]
        BY <1>1, <1>7 DEF Text, p
    <2>2. \A k \in 1..p : cells[k] = w[k]
        BY <1>3, <1>7
    <2>. QED BY <2>1, <2>2
<1>9. Number(cells) = Rounded(av.value)
    BY <1>0, <1>8, PrintedReads DEF w
<1>. QED BY <1>2, <1>5, <1>6, <1>9 DEF Entry, cells

\* Each line of an image stands where BuildConfigurationImage put it.
LEMMA LinesStand ==
    ASSUME NEW image, NEW avs, NEW L, Lines(image, avs, L), Len(avs) \in Nat,
           NEW k \in 1..Len(avs), IsAv(avs[k])
    PROVE  /\ LineAt(image, L[k-1] + 1, avs[k])
           /\ L[k] = L[k-1] + Len(Printed(avs[k].value)) + 2
<1>. DEFINE l == Line(avs[k])
            w == Printed(avs[k].value)
            p == Len(w)
            a == L[k-1]
<1>1. /\ Len(l) = p + 2 /\ l[1] = Av(avs[k].instance)
      /\ \A j \in 1..p : l[j + 1] = w[j]
      /\ l[p + 2] = Newline
    BY LineFacts
<1>2. p \in Nat /\ p >= 1
    <2>1. avs[k].value \in Nat
        BY AvIsNotFree
    <2>. QED BY <2>1, PrintedKinds
<1>3. Text(image) /\ Len(image) \in Nat
    BY DEF Lines, Text
<1>4. a \in 1..Len(image) /\ L[k] \in 1..Len(image) /\ L[k] = a + Len(l)
    <2>1. k \in 0..Len(avs) /\ k - 1 \in 0..Len(avs)
        OBVIOUS
    <2>. QED BY <2>1 DEF Lines
<1>5. \A x \in 1..Len(l) : image[a + x] = l[x]
    BY DEF Lines
<1>. HIDE DEF l, w, p, a
<1>0. Len(l) = p + 2 /\ p \in Nat /\ p >= 1
    BY <1>1, <1>2
<1>6. L[k] = a + p + 2 /\ a \in Nat /\ a >= 1 /\ a + p + 2 <= Len(image)
    BY <1>0, <1>3, <1>4
<1>7. image[a + 1] = Av(avs[k].instance)
    <2>1. 1 \in 1..Len(l)
        BY <1>0
    <2>. QED BY <1>1, <1>5, <2>1
<1>8. ASSUME NEW j \in 1..p PROVE image[(a + 1) + j] = w[j]
    <2>1. j + 1 \in 1..Len(l) /\ a + (j + 1) = (a + 1) + j
        BY <1>0, <1>6
    <2>. QED BY <1>1, <1>5, <2>1
<1>9. image[(a + 1) + p + 1] = Newline
    <2>1. p + 2 \in 1..Len(l) /\ a + (p + 2) = (a + 1) + p + 1
        BY <1>0, <1>6
    <2>. QED BY <1>1, <1>5, <2>1
<1>10. a + 1 \in 2..Len(image) /\ (a + 1) + p + 1 \in 1..Len(image)
    BY <1>2, <1>3, <1>6
<1>11. LineAt(image, a + 1, avs[k])
    BY <1>3, <1>7, <1>8, <1>9, <1>10 DEF LineAt, p, w
<1>. QED BY <1>6, <1>11 DEF a, p, w

\* What LineStarts picks, and where.
StartSet(image) ==
    {i \in 2..Len(image) : /\ Kind(image[i]) # "newline"
                           /\ i = 2 \/ Kind(image[i-1]) = "newline"}

\* Within a line only its first cell starts a line.
LEMMA StartsOfLine ==
    ASSUME NEW image, NEW i, NEW av, IsAv(av), LineAt(image, i, av),
           i = 2 \/ Kind(image[i-1]) = "newline"
    PROVE  /\ i \in StartSet(image)
           /\ \A x \in (i + 1)..(i + Len(Printed(av.value)) + 1) : x \notin StartSet(image)
<1>. DEFINE w == Printed(av.value)
            p == Len(w)
<1>0. av.instance \in Instances /\ av.value \in Nat
    BY DEF IsAv, AnalogValues
<1>1. p \in Nat /\ p >= 1 /\ \A j \in 1..p : Kind(w[j]) # "newline"
    <2>1. /\ p \in Nat /\ p >= 1 /\ \A j \in 1..(p - 1) : Kind(w[j]) = "digit"
          /\ Kind(w[p]) = "digit" \/ Kind(w[p]) = "exponent"
        BY <1>0, PrintedKinds
    <2>. HIDE DEF p, w
    <2>2. \A j \in 1..p : j = p \/ j \in 1..(p - 1)
        BY <2>1
    <2>. QED BY <2>1, <2>2
<1>2. /\ Len(image) \in Nat /\ i \in 2..Len(image) /\ i + p + 1 \in 1..Len(image)
      /\ Kind(image[i]) = "analog-value"
      /\ \A j \in 1..p : image[i + j] = w[j]
      /\ Kind(image[i + p + 1]) = "newline"
    BY <1>0, CellFacts DEF LineAt, Text
<1>. HIDE DEF w
<1>3. i \in StartSet(image)
    BY <1>2 DEF StartSet
<1>4. ASSUME NEW x \in (i + 1)..(i + p + 1), x \in StartSet(image) PROVE FALSE
    <2>. HIDE DEF p
    <2>0. i \in Nat /\ i >= 2 /\ x \in Nat
        BY <1>1, <1>2
    <2>1. Kind(image[x]) # "newline" /\ Kind(image[x - 1]) = "newline"
        BY <1>4, <2>0 DEF StartSet
    <2>2. x # i + p + 1
        BY <1>2, <2>1
    <2>3. CASE x = i + 1
        <3>1. x - 1 = i
            BY <2>0, <2>3
        <3>. QED BY <1>2, <2>1, <3>1
    <2>4. CASE x # i + 1
        <3>1. x - 1 - i \in 1..p /\ i + (x - 1 - i) = x - 1
            BY <1>1, <2>0, <2>2, <2>4
        <3>2. image[i + (x - 1 - i)] = w[x - 1 - i] /\ Kind(w[x - 1 - i]) # "newline"
            BY <1>1, <1>2, <3>1
        <3>. QED BY <2>1, <3>1, <3>2
    <2>. QED BY <2>3, <2>4
<1>5. \A x \in (i + 1)..(i + p + 1) : x \notin StartSet(image)
    BY <1>4
<1>. HIDE DEF p
<1>. QED BY <1>3, <1>5, Zenon DEF p, w

\* The parser finds the lines of an image, and no others.
LEMMA StartsOfImage ==
    ASSUME NEW image, NEW avs, NEW L, Lines(image, avs, L), Len(avs) \in Nat,
           \A k \in 1..Len(avs) : IsAv(avs[k])
    PROVE  /\ Len(LineStarts(image)) = Len(avs)
           /\ \A k \in 1..Len(avs) : LineStarts(image)[k] = L[k-1] + 1
<1>. DEFINE N == Len(image)
            idx == [i \in 1..N |-> i]
            I == StartSet(image)
            After(s, k) == /\ s \in Seq(Nat) /\ Len(s) = k
                           /\ \A j \in 1..k : s[j] = L[j-1] + 1
<1>0. Text(image) /\ N \in Nat /\ L[0] = 1 /\ L[Len(avs)] = N /\ \A k \in 0..Len(avs) : L[k] \in 1..N
    BY DEF Lines, Text
<1>1. Len(idx) = N /\ \A i \in 1..N : idx[i] = i
    <2>1. idx \in [1..N -> 1..N]
        OBVIOUS
    <2>. QED BY <1>0, <2>1
<1>2. LineStarts(image) = Picked(idx, I)
    BY DEF LineStarts, StartSet
<1>. HIDE DEF N, idx, I
<1>3. PICK g : g = [i \in 0..N |-> PickStep(g, idx, I, i)] /\ Picked(idx, I) = g[N]
    <2>1. Len(idx) \in Nat
        BY <1>0, <1>1
    <2>. QED BY <1>1, <2>1, PickedDef
<1>. DEFINE S == {k \in Nat : k <= Len(avs) => After(g[L[k]], k)}
<1>4. 0 \in S
    <2>1. 1 \in 0..N /\ 0 \in 0..N /\ 1 - 1 = 0 /\ 1 # 0 /\ 1 \notin I
        <3>1. 0 \in 0..Len(avs)
            OBVIOUS
        <3>2. 1 \in 1..N
            BY <1>0, <3>1
        <3>3. 1 \notin I
            BY DEF I, StartSet
        <3>. QED BY <1>0, <3>2, <3>3
    <2>2. g[1] = PickStep(g, idx, I, 1) /\ g[0] = PickStep(g, idx, I, 0)
        BY <1>3, <2>1
    <2>3. g[1] = << >>
        BY <2>1, <2>2 DEF PickStep
    <2>4. After(<< >>, 0)
        OBVIOUS
    <2>. HIDE DEF After
    <2>. QED BY <1>0, <2>3, <2>4
<1>5. ASSUME NEW k \in Nat, k \in S PROVE k + 1 \in S
    <2>. SUFFICES ASSUME k + 1 <= Len(avs) PROVE After(g[L[k+1]], k + 1)
        OBVIOUS
    <2>. DEFINE a == L[k]
                b == L[k+1]
                av == avs[k+1]
                p == Len(Printed(av.value))
    <2>1. k + 1 \in 1..Len(avs) /\ (k + 1) - 1 = k /\ k \in 0..Len(avs) /\ k + 1 \in 0..Len(avs) /\ k <= Len(avs)
        OBVIOUS
    <2>2. IsAv(av) /\ After(g[a], k)
        BY <1>5, <2>1
    <2>3. LineAt(image, a + 1, av) /\ b = a + p + 2 /\ p \in Nat /\ p >= 1
        <3>1. av.value \in Nat
            BY <2>2, AvIsNotFree
        <3>2. p \in Nat /\ p >= 1
            BY <3>1, PrintedKinds
        <3>3. LineAt(image, L[(k + 1) - 1] + 1, avs[k+1]) /\ L[k+1] = L[(k + 1) - 1] + p + 2
            BY <2>1, LinesStand
        <3>. QED BY <2>1, <3>2, <3>3
    <2>4. a \in 1..N /\ b \in 1..N
        BY <1>0, <2>1
    <2>5. a + 1 = 2 \/ Kind(image[(a + 1) - 1]) = "newline"
        <3>1. CASE k = 0
            BY <1>0, <3>1
        <3>2. CASE k # 0
            <4>1. k \in 1..Len(avs)
                BY <2>1, <3>2
            <4>. DEFINE c == L[k-1]
                        w == Len(Printed(avs[k].value))
            <4>2. LineAt(image, c + 1, avs[k]) /\ a = c + w + 2 /\ IsAv(avs[k])
                BY <4>1, LinesStand
            <4>3. k - 1 \in 0..Len(avs)
                BY <4>1
            <4>4. c \in Nat
                BY <1>0, <4>3
            <4>5. w \in Nat
                <5>1. avs[k].value \in Nat
                    BY <4>2, AvIsNotFree
                <5>. QED BY <5>1, PrintedKinds
            <4>6. image[(c + 1) + w + 1] = Newline
                BY <4>2 DEF LineAt
            <4>. HIDE DEF c, w
            <4>7. (c + 1) + w + 1 = (a + 1) - 1
                BY <4>2, <4>4, <4>5
            <4>. QED BY <4>6, <4>7, CellFacts
        <3>. QED BY <3>1, <3>2
    <2>6. a + 1 \in I /\ \A x \in ((a + 1) + 1)..((a + 1) + p + 1) : x \notin I
        BY <2>2, <2>3, <2>5, StartsOfLine DEF I
    <2>. HIDE DEF a, b, p
    <2>7. /\ a + 1 \in 0..N /\ a + 1 # 0 /\ (a + 1) - 1 = a /\ a + 1 \in 1..N
          /\ a + 1 <= b /\ b <= N /\ (a + 1) + p + 1 = b /\ a \in Nat /\ b \in Nat /\ a + 1 \in Nat
        BY <1>0, <2>3, <2>4
    <2>8. g[a+1] = Append(g[a], a + 1)
        <3>1. g[a+1] = PickStep(g, idx, I, a + 1)
            BY <1>3, <2>7
        <3>2. idx[a+1] = a + 1
            BY <1>1, <2>7
        <3>. QED BY <2>6, <2>7, <3>1, <3>2 DEF PickStep
    <2>9. g[b] = g[a+1]
        <3>1. \A x \in ((a + 1) + 1)..b : x \notin I
            BY <2>6, <2>7
        <3>2. /\ Len(idx) \in Nat /\ b <= Len(idx)
              /\ PickLoop(g, idx, I)
            BY <1>0, <1>1, <1>3, <2>7 DEF PickLoop
        <3>. DEFINE c == a + 1
        <3>3. c \in Nat /\ c <= b /\ NoneBetween(I, c, b)
            BY <2>7, <3>1 DEF NoneBetween
        <3>. HIDE DEF c
        <3>4. b \in Nat
            BY <2>7
        <3>5. g[b] = g[c]
            BY <3>2, <3>3, <3>4, PickNone
        <3>. QED BY <3>5 DEF c
    <2>10. g[b] \in Seq(Nat) /\ Len(g[b]) = k + 1 /\ g[b][k + 1] = a + 1 /\ \A j \in 1..k : g[b][j] = g[a][j]
        BY <2>2, <2>7, <2>8, <2>9
    <2>11. ASSUME NEW j \in 1..(k + 1) PROVE g[b][j] = L[j-1] + 1
        <3>1. CASE j = k + 1
            <4>1. j - 1 = k
                BY <3>1
            <4>. QED BY <2>10, <3>1, <4>1 DEF a
        <3>2. CASE j \in 1..k
            BY <2>2, <2>10, <3>2
        <3>. QED BY <3>1, <3>2
    <2>. QED BY <2>10, <2>11 DEF b
<1>. HIDE DEF S
<1>6. After(g[N], Len(avs))
    <2>1. Len(avs) \in S
        BY <1>4, <1>5, NatSetInduction
    <2>2. After(g[L[Len(avs)]], Len(avs))
        BY <2>1 DEF S
    <2>. QED BY <1>0, <2>2
<1>. QED BY <1>2, <1>3, <1>6

\* The parser accepts an image of this device and reads every one of its objects.
LEMMA ImageReads ==
    ASSUME NEW image, NEW avs, NEW L, Lines(image, avs, L), Len(avs) \in 0..MaxAnalogValues,
           \A k \in 1..Len(avs) : IsAv(avs[k])
    PROVE  /\ Accepted(image)
           /\ Entries(image) = [k \in 1..Len(avs) |->
                                  [instance |-> avs[k].instance, value |-> Rounded(avs[k].value)]]
<1>. DEFINE n == Len(avs)
            starts == LineStarts(image)
            Stops(k) == k >= MaxAnalogValues \/ ~ReadableLine(image, starts[k+1])
            K == {k \in 0..(Len(starts) - 1) : Stops(k)} \cup {Len(starts)}
<1>0. n \in Nat /\ n <= MaxAnalogValues /\ MaxAnalogValues \in Nat
    BY ImageAssumption
<1>1. Len(starts) = n /\ \A k \in 1..n : starts[k] = L[k-1] + 1
    BY <1>0, StartsOfImage
<1>2. LinesRead(image) = Min(K)
    BY DEF LinesRead
<1>. HIDE DEF starts
<1>3. ASSUME NEW k \in 1..n
      PROVE  /\ ReadableLine(image, starts[k])
             /\ Entry(image, starts[k]) = [instance |-> avs[k].instance, value |-> Rounded(avs[k].value)]
    <2>1. IsAv(avs[k])
        OBVIOUS
    <2>2. LineAt(image, L[k-1] + 1, avs[k])
        BY <1>0, <2>1, LinesStand
    <2>3. starts[k] = L[k-1] + 1
        BY <1>1
    <2>. QED BY <2>1, <2>2, <2>3, LineReads
<1>4. K = {n}
    <2>1. ASSUME NEW k \in 0..(n - 1) PROVE ~Stops(k)
        <3>1. k + 1 \in 1..n /\ ~(k >= MaxAnalogValues)
            BY <1>0
        <3>. QED BY <1>3, <3>1
    <2>. HIDE DEF Stops
    <2>. QED BY <1>1, <2>1
<1>. HIDE DEF K
<1>5. LinesRead(image) = n
    <2>1. K \subseteq Nat /\ n \in K /\ \A y \in K : n <= y
        BY <1>0, <1>4
    <2>. HIDE DEF n
    <2>2. Min(K) = n
        BY <2>1, MinIs
    <2>. QED BY <1>2, <2>2
<1>6. HasHeader(image)
    <2>1. Text(image) /\ image[1] = Header /\ Len(image) \in Nat /\ Len(image) >= 1
        <3>1. 0 \in 0..Len(avs)
            BY <1>0
        <3>. QED BY <3>1 DEF Lines, Text
    <2>2. image # << >>
        BY <2>1
    <2>. QED BY <2>1, <2>2 DEF HasHeader
<1>7. Accepted(image)
    BY <1>1, <1>5, <1>6 DEF Accepted, starts
<1>8. Entries(image) = [k \in 1..n |-> Entry(image, starts[k])]
    BY <1>5 DEF Entries, starts
<1>9. Entries(image) = [k \in 1..n |-> [instance |-> avs[k].instance, value |-> Rounded(avs[k].value)]]
    BY <1>3, <1>8
<1>. QED BY <1>7, <1>9

\* With every instance named once, every entry prevails.
LEMMA AllPrevail ==
    ASSUME NEW n \in Nat, NEW es, es = [k \in 1..n |-> es[k]],
           \A x, y \in 1..n : x # y => es[x].instance # es[y].instance
    PROVE  Prevailing(es) = {es[k] : k \in 1..n}
<1>1. Len(es) = n
    <2>1. es \in [1..n -> {es[k] : k \in 1..n}]
        OBVIOUS
    <2>. QED BY <2>1
<1>2. \A x \in 1..n : \A y \in (x+1)..n : es[y].instance # es[x].instance
    <2>1. \A x \in 1..n : \A y \in (x+1)..n : y \in 1..n /\ y # x
        OBVIOUS
    <2>. QED BY <2>1
<1>. QED BY <1>1, <1>2 DEF Prevailing

\* A backup of a table that agrees with the database fits the file, is accepted and
\* gives back what the table holds, rounded.
LEMMA BackupGivesBack ==
    ASSUME NEW t, NEW db, Agree(t, db)
    PROVE  LET image == Image(InUse(t))
           IN  /\ Len(image) < FileMaxSize
               /\ Accepted(image)
               /\ Prevailing(Entries(image)) =
                     {[instance |-> av.instance, value |-> Rounded(av.value)] : av \in Held(t)}
<1>. DEFINE avs == InUse(t)
            image == Image(avs)
            n == Len(avs)
            Back(av) == [instance |-> av.instance, value |-> Rounded(av.value)]
            es == [k \in 1..n |-> Back(avs[k])]
<1>1. /\ n \in 0..MaxAnalogValues
      /\ {avs[k] : k \in 1..n} = Held(t)
      /\ \A x, y \in 1..n : x # y => avs[x].instance # avs[y].instance
    BY InUseIsHeld
<1>2. n \in Nat /\ \A k \in 1..n : IsAv(avs[k])
    BY InUseFacts
<1>. HIDE DEF avs
<1>3. PICK L : Lines(image, avs, L)
    BY <1>2, ImageLines
<1>4. Accepted(image) /\ Entries(image) = es
    BY <1>1, <1>2, <1>3, ImageReads
<1>5. Len(image) < FileMaxSize
    <2>. DEFINE c == SignificantDigits + 3
    <2>1. Len(image) <= 1 + n * c /\ Len(image) \in Nat
        BY <1>3 DEF Lines, Text
    <2>2. c \in Nat /\ MaxAnalogValues \in Nat /\ n <= MaxAnalogValues
        BY <1>1, ImageAssumption
    <2>3. FileMaxSize > 1 + MaxAnalogValues * c /\ FileMaxSize \in Nat
        BY RoomAssumption, ConfigurationAssumption
    <2>. HIDE DEF c, image, n
    <2>4. n * c <= MaxAnalogValues * c /\ n * c \in Nat /\ MaxAnalogValues * c \in Nat
        BY <1>2, <2>2, Z3
    <2>. QED BY <2>1, <2>3, <2>4
<1>6. Prevailing(es) = {es[k] : k \in 1..n}
    <2>1. es = [k \in 1..n |-> es[k]]
        OBVIOUS
    <2>2. \A x, y \in 1..n : x # y => es[x].instance # es[y].instance
        BY <1>1
    <2>. HIDE DEF es, n
    <2>. QED BY <1>2, <2>1, <2>2, AllPrevail
<1>7. {es[k] : k \in 1..n} = {Back(av) : av \in Held(t)}
    <2>1. \A k \in 1..n : es[k] = Back(avs[k])
        OBVIOUS
    <2>. HIDE DEF es, n, Back
    <2>. QED BY <1>1, <2>1
<1>. QED BY <1>4, <1>5, <1>6, <1>7 DEF avs

-----------------------------------------------------------------------------
(***************************************************************************)
(* The inductive invariant.  The agreement of table and database needs the *)
(* staging array to name objects, because ApplyRestoredConfiguration puts  *)
(* it into the table; that needs the file to, because the staging array is *)
(* parsed from it; and that needs the table to, because a backup prints it.*)
(***************************************************************************)
\* The file's cells are good, and its length is within it.
FileOK ==
    /\ fileLength \in 0..FileMaxSize
    /\ fileData = [k \in 1..FileMaxSize |-> fileData[k]]
    /\ \A k \in 1..FileMaxSize : GoodCell(fileData[k])

IInv == Agree(table, database) /\ StagedOK /\ FileOK

\* The content of a good file is a text.
LEMMA ContentIsText == ASSUME FileOK PROVE Text(Content)
<1>1. FileMaxSize \in Nat /\ fileLength \in Nat /\ fileLength <= FileMaxSize
    BY ConfigurationAssumption DEF FileOK
<1>. DEFINE X == {fileData[k] : k \in 1..FileMaxSize}
<1>2. fileData \in Seq(X) /\ Len(fileData) = FileMaxSize
    <2>1. fileData \in [1..FileMaxSize -> X]
        BY DEF FileOK
    <2>. QED BY <1>1, <2>1
<1>3. \A c \in X : GoodCell(c)
    BY DEF FileOK
<1>. HIDE DEF X
<1>4. Content \in Seq(X)
    BY <1>1, <1>2 DEF Content
<1>. QED BY <1>3, <1>4, SequenceIsText

\* What clients write and what expands the file are good cells.
LEMMA WrittenCells == GoodCell(ZeroOctet) /\ \A c \in Cells : GoodCell(c)
BY CellFacts DEF GoodCell

\* The file is not of size zero.
LEMMA FileHasRoom == FileMaxSize \in Nat /\ FileMaxSize >= 1
<1>. DEFINE c == SignificantDigits + 3
<1>1. c \in Nat /\ MaxAnalogValues \in Nat
    BY ImageAssumption
<1>. HIDE DEF c
<1>2. MaxAnalogValues * c \in Nat
    BY <1>1
<1>. QED BY <1>2, RoomAssumption, ConfigurationAssumption DEF c

\* The device starts with an empty table and an empty file.
LEMMA InitIInv == Init => IInv
<1>. SUFFICES ASSUME Init PROVE IInv
    OBVIOUS
<1>1. table = [s \in Slots |-> Free] /\ database = {} /\ staged = [s \in Slots |-> NoEntry] /\ stagedCount = 0
      /\ fileData = [k \in 1..FileMaxSize |-> ZeroOctet] /\ fileLength = 0
    BY DEF Init
<1>2. Agree(table, database)
    BY <1>1 DEF Agree
<1>3. StagedOK
    BY <1>1, ImageAssumption DEF StagedOK
<1>4. FileOK
    BY <1>1, WrittenCells, ConfigurationAssumption DEF FileOK
<1>. QED BY <1>2, <1>3, <1>4 DEF IInv

\* The file and the staging array do not change: only the table has to be looked at.
LEMMA OnlyTable ==
    ASSUME IInv, UNCHANGED <<file, staged, stagedCount>>, Agree(table', database')
    PROVE  IInv'
BY DEF IInv, StagedOK, FileOK, file, Agree, Slots, IsAv, GoodCell, Free

\* Only the file changes.
LEMMA OnlyFile ==
    ASSUME IInv, UNCHANGED <<configuration, staged, stagedCount>>, FileOK'
    PROVE  IInv'
BY DEF IInv, StagedOK, configuration, Agree, Slots, IsAv, Free

\* Only the staging array changes.
LEMMA OnlyStaging ==
    ASSUME IInv, UNCHANGED <<configuration, file>>, StagedOK'
    PROVE  IInv'
BY DEF IInv, FileOK, configuration, file, Agree, Slots, IsAv, Free, GoodCell

\* CreateObject, DeleteObject and SetPropertyReal.
LEMMA ObjectsKeepIInv ==
    ASSUME IInv, NEW i \in Instances,
           CreateObject(i) \/ DeleteObject(i) \/ \E v \in Values : SetPropertyReal(i, v)
    PROVE  IInv'
<1>0. Agree(table, database) /\ i \in Nat
    BY ConfigurationAssumption DEF IInv
<1>1. CASE CreateObject(i)
    <2>. DEFINE x == FindFreeAnalogValueSlot(table)
                e == [instance |-> i, value |-> 0]
    <2>1. table' = [table EXCEPT ![x] = e] /\ database' = database \cup {i} /\ i \notin database
        BY <1>1 DEF CreateObject
    <2>2. x \in Slots /\ table[x] = Free
        BY <1>1, FoundSlots DEF CreateObject
    <2>3. IsAv(e) /\ e.instance = i
        BY AvFacts
    <2>. HIDE DEF x, e
    <2>4. Agree([table EXCEPT ![x] = e], database \cup {e.instance})
        BY <1>0, <2>1, <2>2, <2>3, AddKeepsAgree
    <2>5. Agree(table', database')
        BY <2>1, <2>3, <2>4
    <2>6. UNCHANGED <<file, staged, stagedCount>>
        BY <1>1 DEF CreateObject, staging
    <2>. QED BY <2>5, <2>6, OnlyTable
<1>. DEFINE x == FindCreatedAnalogValue(table, i)
<1>2. ASSUME SlotsOf(table, i) # {}
      PROVE  x \in Slots /\ table[x].instance = i /\ table[x] # Free /\ IsAv(table[x])
    <2>1. x \in Slots /\ table[x].instance = i
        BY <1>2, FoundSlots
    <2>. HIDE DEF x
    <2>. QED BY <1>0, <2>1, UsedSlot
<1>3. CASE DeleteObject(i)
    <2>1. table' = [table EXCEPT ![x] = Free] /\ database' = database \ {i} /\ SlotsOf(table, i) # {}
        BY <1>3 DEF DeleteObject
    <2>. HIDE DEF x
    <2>2. Agree([table EXCEPT ![x] = Free], database \ {table[x].instance})
        BY <1>0, <1>2, <2>1, RemoveKeepsAgree
    <2>3. Agree(table', database')
        BY <1>2, <2>1, <2>2
    <2>4. UNCHANGED <<file, staged, stagedCount>>
        BY <1>3 DEF DeleteObject, staging
    <2>. QED BY <2>3, <2>4, OnlyTable
<1>4. CASE \E v \in Values : SetPropertyReal(i, v)
    <2>1. PICK v \in Values : SetPropertyReal(i, v)
        BY <1>4
    <2>. DEFINE e == [table[x] EXCEPT !.value = v]
    <2>2. table' = [table EXCEPT ![x].value = v] /\ database' = database /\ SlotsOf(table, i) # {}
        BY <2>1 DEF SetPropertyReal
    <2>3. x \in Slots /\ IsAv(table[x]) /\ table[x].instance = i
        BY <1>2, <2>2
    <2>. HIDE DEF x
    <2>4. table' = [table EXCEPT ![x] = e]
        BY <2>2
    <2>5. IsAv(e) /\ e.instance = table[x].instance
        BY <2>3, WriteKeepsInstance, ConfigurationAssumption
    <2>. HIDE DEF e
    <2>6. Agree([table EXCEPT ![x] = e], database)
        BY <1>0, <2>3, <2>5, ReplaceKeepsAgree
    <2>7. Agree(table', database')
        BY <2>2, <2>4, <2>6
    <2>8. UNCHANGED <<file, staged, stagedCount>>
        BY <2>1 DEF SetPropertyReal, staging
    <2>. QED BY <2>7, <2>8, OnlyTable
<1>. QED BY <1>1, <1>3, <1>4

\* What a number is as a uint32_t.
LEMMA WordFacts ==
    ASSUME NEW data \in Chunks
    PROVE  /\ Len(data) \in Nat /\ Word \in Nat \ {0}
           /\ \A a \in Int : a % Word \in Nat /\ a % Word < Word
           /\ \A a \in 0..(Word - 1) : a % Word = a
<1>1. Len(data) \in Nat /\ Word \in Nat \ {0}
    BY ConfigurationAssumption, WordAssumption
<1>2. \A a \in Int : a % Word \in Nat /\ a % Word < Word
    BY <1>1, Z3
<1>3. \A a \in 0..(Word - 1) : a % Word = a
    BY <1>1, Z3
<1>. QED BY <1>1, <1>2, <1>3

\* WriteFile, SetIvoryFileSize, PrepareBackup and PrepareRestore.
LEMMA FileKeepsIInv ==
    ASSUME IInv,
           \/ \E offset \in Offsets, data \in Chunks : WriteFile(offset, data)
           \/ \E n \in Sizes : SetIvoryFileSize(n)
           \/ PrepareBackup \/ PrepareRestore
    PROVE  IInv'
<1>0. /\ FileMaxSize \in Nat /\ FileMaxSize >= 1 /\ fileLength \in Nat /\ fileLength <= FileMaxSize
      /\ \A k \in 1..FileMaxSize : GoodCell(fileData[k])
    BY FileHasRoom DEF IInv, FileOK
<1>1. ASSUME NEW offset \in Offsets, NEW data \in Chunks, WriteFile(offset, data) PROVE IInv'
    <2>. DEFINE start == IF offset = -1 THEN fileLength ELSE offset % Word
                end == (start + Len(data)) % Word
    <2>1. start \in Nat /\ end \in Nat /\ data \in Seq(Cells)
        <3>1. start \in Nat /\ Len(data) \in Nat /\ data \in Seq(Cells)
            BY <1>0, WordFacts, ConfigurationAssumption
        <3>. HIDE DEF start
        <3>2. start + Len(data) \in Int
            BY <3>1
        <3>. QED BY <3>1, <3>2, WordFacts
    <2>2. /\ end <= FileMaxSize
          /\ fileData' = [k \in 1..FileMaxSize |->
                            IF k \in (start + 1)..(start + Len(data)) THEN data[k - start] ELSE fileData[k]]
          /\ fileLength' = IF end > fileLength THEN end ELSE fileLength
        BY <1>1 DEF WriteFile
    <2>3. UNCHANGED <<configuration, staged, stagedCount>>
        BY <1>1 DEF WriteFile, staging
    <2>. HIDE DEF start, end
    <2>4. Len(data) \in Nat /\ \A m \in 1..Len(data) : GoodCell(data[m])
        BY <2>1, WrittenCells, SequenceFacts
    <2>5. fileLength' \in 0..FileMaxSize
        BY <1>0, <2>1, <2>2, <2>4
    <2>6. fileData' = [k \in 1..FileMaxSize |-> fileData'[k]]
        BY <2>2
    <2>7. ASSUME NEW k \in 1..FileMaxSize PROVE GoodCell(fileData'[k])
        <3>1. CASE k \in (start + 1)..(start + Len(data))
            <4>1. k - start \in 1..Len(data)
                BY <2>1, <2>4, <3>1
            <4>. QED BY <2>2, <2>4, <3>1, <4>1
        <3>2. CASE k \notin (start + 1)..(start + Len(data))
            BY <1>0, <2>2, <3>2
        <3>. QED BY <3>1, <3>2
    <2>8. FileOK'
        BY <2>5, <2>6, <2>7 DEF FileOK, GoodCell
    <2>. QED BY <2>3, <2>8, OnlyFile
<1>2. ASSUME NEW n \in Sizes, SetIvoryFileSize(n) PROVE IInv'
    <2>1. /\ n \in 0..FileMaxSize /\ fileLength' = n
          /\ fileData' = [k \in 1..FileMaxSize |-> IF k \in (fileLength + 1)..n THEN ZeroOctet ELSE fileData[k]]
        BY <1>0, <1>2, ConfigurationAssumption DEF SetIvoryFileSize
    <2>2. UNCHANGED <<configuration, staged, stagedCount>>
        BY <1>2 DEF SetIvoryFileSize, staging
    <2>3. \A k \in 1..FileMaxSize : GoodCell(fileData'[k])
        BY <1>0, <2>1, WrittenCells
    <2>4. fileData' = [k \in 1..FileMaxSize |-> fileData'[k]]
        BY <2>1
    <2>5. FileOK'
        BY <2>1, <2>3, <2>4 DEF FileOK, GoodCell
    <2>. QED BY <2>2, <2>5, OnlyFile
<1>3. CASE PrepareBackup
    <2>. DEFINE image == Image(InUse(table))
                nul == Min({Len(image) + 1, FileMaxSize})
    <2>1. Text(image)
        BY InUseFacts, ImageLines DEF IInv, Lines
    <2>2. /\ fileData' = [k \in 1..FileMaxSize |-> IF k < nul THEN image[k]
                                                   ELSE IF k = nul THEN ZeroOctet ELSE fileData[k]]
          /\ fileLength' = Min({Len(image), FileMaxSize})
        BY <1>3 DEF PrepareBackup
    <2>3. UNCHANGED <<configuration, staged, stagedCount>>
        BY <1>3 DEF PrepareBackup, staging
    <2>. HIDE DEF image
    <2>4. Len(image) \in Nat /\ \A k \in 1..Len(image) : GoodCell(image[k])
        BY <2>1 DEF Text
    <2>5. nul \in Nat /\ nul <= Len(image) + 1
        <3>1. {Len(image) + 1, FileMaxSize} \subseteq Nat
            BY <1>0, <2>4
        <3>. QED BY <3>1, MinFacts
    <2>6. fileLength' \in 0..FileMaxSize
        <3>1. {Len(image), FileMaxSize} \subseteq Nat
            BY <1>0, <2>4
        <3>2. fileLength' \in Nat /\ fileLength' <= FileMaxSize
            BY <2>2, <3>1, MinFacts
        <3>. QED BY <1>0, <3>2
    <2>. HIDE DEF nul
    <2>7. ASSUME NEW k \in 1..FileMaxSize PROVE GoodCell(fileData'[k])
        <3>1. CASE k < nul
            <4>1. k \in 1..Len(image)
                BY <2>4, <2>5, <3>1
            <4>. QED BY <2>2, <2>4, <3>1, <4>1
        <3>2. CASE ~(k < nul)
            BY <1>0, <2>2, <3>2, WrittenCells
        <3>. QED BY <3>1, <3>2
    <2>8. fileData' = [k \in 1..FileMaxSize |-> fileData'[k]]
        BY <2>2
    <2>9. FileOK'
        BY <2>6, <2>7, <2>8 DEF FileOK, GoodCell
    <2>. QED BY <2>3, <2>9, OnlyFile
<1>4. CASE PrepareRestore
    <2>1. FileOK' /\ UNCHANGED <<configuration, staged, stagedCount>>
        BY <1>0, <1>4 DEF PrepareRestore, IInv, FileOK, staging, GoodCell
    <2>. QED BY <2>1, OnlyFile
<1>. QED BY <1>1, <1>2, <1>3, <1>4

\* CompleteBackup, CompleteRestore and the main loop.
LEMMA SessionKeepsIInv ==
    ASSUME IInv,
           \/ CompleteBackup \/ CompleteRestoreAborted
           \/ CompleteRestoreAccepted \/ CompleteRestoreRejected
           \/ \E r \in SUBSET (1..stagedCount) : ApplyRestoredConfiguration(r)
    PROVE  IInv'
<1>1. CASE CompleteBackup \/ CompleteRestoreAborted
    <2>1. UNCHANGED <<configuration, file, staged, stagedCount>>
        BY <1>1 DEF CompleteBackup, CompleteRestoreAborted, staging
    <2>2. FileOK'
        BY <2>1 DEF IInv, FileOK, file, GoodCell
    <2>. QED BY <2>1, <2>2, OnlyFile
<1>2. CASE CompleteRestoreAccepted \/ CompleteRestoreRejected
    <2>1. /\ staged' = StagedBy(Content, staged)
          /\ (stagedCount' = LinesRead(Content) /\ HasHeader(Content)) \/ stagedCount' = stagedCount
          /\ UNCHANGED <<configuration, file>>
        BY <1>2 DEF CompleteRestoreAccepted, CompleteRestoreRejected, Accepted
    <2>2. Text(Content) /\ StagedOK
        BY ContentIsText DEF IInv
    <2>3. /\ staged' = [s \in Slots |-> staged'[s]]
          /\ \A s \in Slots : IsAv(staged'[s]) \/ staged'[s] = NoEntry
          /\ \A s \in 1..stagedCount : IsAv(staged'[s])
          /\ HasHeader(Content) => \A s \in 1..LinesRead(Content) : IsAv(staged'[s])
        BY <2>1, <2>2, StagedByFacts
    <2>4. stagedCount' \in 0..MaxAnalogValues
        BY <2>1, <2>2, LinesFacts DEF StagedOK
    <2>5. \A s \in 1..stagedCount' : IsAv(staged'[s])
        BY <2>1, <2>3
    <2>6. StagedOK'
        BY <2>3, <2>4, <2>5 DEF StagedOK, Slots, IsAv
    <2>. QED BY <2>1, <2>6, OnlyStaging
<1>3. ASSUME NEW r \in SUBSET (1..stagedCount), ApplyRestoredConfiguration(r) PROVE IInv'
    <2>1. Agree(table', database')
        BY <1>3, ApplyRestores DEF IInv, Restored
    <2>2. UNCHANGED <<file, staged, stagedCount>>
        BY <1>3 DEF ApplyRestoredConfiguration
    <2>. QED BY <2>1, <2>2, OnlyTable
<1>. QED BY <1>1, <1>2, <1>3

\* Every step keeps the invariant.
LEMMA NextIInv == IInv /\ [Next]_vars => IInv'
<1>. SUFFICES ASSUME IInv, [Next]_vars PROVE IInv'
    OBVIOUS
<1>1. CASE UNCHANGED vars
    <2>1. UNCHANGED <<configuration, file, staged, stagedCount>>
        BY <1>1 DEF vars, staging
    <2>2. FileOK'
        BY <2>1 DEF IInv, FileOK, file, GoodCell
    <2>. QED BY <2>1, <2>2, OnlyFile
<1>2. CASE Next
    <2>1. CASE Step
        BY <2>1, ObjectsKeepIInv, FileKeepsIInv, SessionKeepsIInv DEF Step
    <2>. QED BY <1>1, <1>2, <2>1 DEF Next, Undefined
<1>. QED BY <1>1, <1>2

\* So it holds throughout.
LEMMA SpecIInv == Spec => []IInv
BY InitIInv, NextIInv, PTL DEF Spec

-----------------------------------------------------------------------------
(***************************************************************************)
(* The theorems.                                                           *)
(***************************************************************************)

\* The table and the stack's database name the same Analog Values, each once,
\* through every creation, deletion, backup and restore.
THEOREM TableAndDatabaseAgree == Spec => []TableMatchesDatabase
<1>1. IInv => TableMatchesDatabase
    <2>. SUFFICES ASSUME Agree(table, database) PROVE TableMatchesDatabase
        BY DEF IInv
    <2>1. \A i : i \in database <=> \E s \in Slots : table[s] # Free /\ table[s].instance = i
        BY DEF Agree
    <2>2. database = {av.instance : av \in Held(table)}
        BY <2>1 DEF Held
    <2>. QED BY <2>2 DEF Agree, TableMatchesDatabase
<1>. QED BY <1>1, SpecIInv, PTL

\* What waits to be applied is what was accepted last, unless an image rejected since
\* has been read in part.
AwaitedIsStaged == \A accepted \in awaited : StagedEntries = accepted

LEMMA NextAwaited == IInv /\ AwaitedIsStaged /\ [Next]_vars => AwaitedIsStaged'
<1>. SUFFICES ASSUME IInv, AwaitedIsStaged, [Next]_vars PROVE AwaitedIsStaged'
    OBVIOUS
<1>. USE DEF AwaitedIsStaged
<1>1. CASE UNCHANGED staging
    BY <1>1 DEF staging, StagedEntries
<1>2. CASE CompleteRestoreAccepted
    <2>1. /\ HasHeader(Content) /\ awaited' = {Entries(Content)}
          /\ staged' = StagedBy(Content, staged) /\ stagedCount' = LinesRead(Content)
        BY <1>2 DEF CompleteRestoreAccepted, Accepted
    <2>2. SubSeq(StagedBy(Content, staged), 1, LinesRead(Content)) = Entries(Content)
        BY <2>1, ContentIsText, StagedAreEntries DEF IInv
    <2>3. StagedEntries' = Entries(Content)
        BY <2>1, <2>2 DEF StagedEntries
    <2>. QED BY <2>1, <2>3
<1>3. CASE CompleteRestoreRejected
    <2>1. CASE HasHeader(Content) /\ LinesRead(Content) > 0
        BY <1>3, <2>1 DEF CompleteRestoreRejected
    <2>2. CASE ~(HasHeader(Content) /\ LinesRead(Content) > 0)
        <3>1. awaited' = awaited /\ stagedCount' = stagedCount /\ staged' = StagedBy(Content, staged)
            BY <1>3, <2>2 DEF CompleteRestoreRejected
        <3>2. StagedBy(Content, staged) = staged
            <4>1. CASE ~HasHeader(Content)
                BY <4>1 DEF StagedBy
            <4>2. CASE HasHeader(Content)
                <5>1. LinesRead(Content) \in Nat
                    BY ContentIsText, LinesFacts, ImageAssumption DEF IInv
                <5>2. LinesRead(Content) = 0
                    BY <2>2, <4>2, <5>1
                <5>3. StagedBy(Content, staged) =
                        [k \in Slots |-> IF k <= LinesRead(Content) THEN Entries(Content)[k] ELSE staged[k]]
                    BY <4>2 DEF StagedBy, Slots
                <5>4. \A k \in Slots : ~(k <= LinesRead(Content))
                    BY <5>2, ImageAssumption DEF Slots
                <5>5. staged = [k \in Slots |-> staged[k]]
                    BY DEF IInv, StagedOK
                <5>. QED BY <5>3, <5>4, <5>5
            <4>. QED BY <4>1, <4>2
        <3>. QED BY <3>1, <3>2 DEF StagedEntries
    <2>. QED BY <2>1, <2>2
<1>4. ASSUME NEW r \in SUBSET (1..stagedCount), ApplyRestoredConfiguration(r) PROVE AwaitedIsStaged'
    BY <1>4 DEF ApplyRestoredConfiguration
<1>5. ASSUME NEW i \in Instances, CreateObject(i) \/ DeleteObject(i) \/ \E v \in Values : SetPropertyReal(i, v)
      PROVE  UNCHANGED staging
    BY <1>5 DEF CreateObject, DeleteObject, SetPropertyReal
<1>6. ASSUME NEW offset \in Offsets, NEW data \in Chunks, WriteFile(offset, data) PROVE UNCHANGED staging
    BY <1>6 DEF WriteFile
<1>7. ASSUME \/ \E n \in Sizes : SetIvoryFileSize(n)
             \/ PrepareBackup \/ CompleteBackup \/ PrepareRestore \/ CompleteRestoreAborted
             \/ UNCHANGED vars
      PROVE  UNCHANGED staging
    BY <1>7 DEF SetIvoryFileSize, PrepareBackup, CompleteBackup, PrepareRestore, CompleteRestoreAborted, vars
<1>. QED BY <1>1, <1>2, <1>3, <1>4, <1>5, <1>6, <1>7 DEF Next, Step, Undefined

LEMMA SpecAwaited == Spec => [](IInv /\ AwaitedIsStaged)
<1>1. Init => AwaitedIsStaged
    BY DEF Init, AwaitedIsStaged
<1>. QED BY <1>1, NextAwaited, SpecIInv, PTL DEF Spec

\* Applying a restore makes the created Analog Values exactly what was accepted, less what
\* the stack refuses to add, whatever happened since and however full the table is; if
\* lines of a rejected image were staged in the meantime, exactly what is staged.
THEOREM RestoresExactly == Spec => RestoreIsExact
<1>. DEFINE Exact == \A refused \in SUBSET (1..stagedCount) :
                       ApplyRestoredConfiguration(refused) =>
                         /\ Held(table') = {e \in Prevailing(StagedEntries) : Recreated(e, refused)}
                         /\ \A accepted \in awaited : StagedEntries = accepted
<1>1. ASSUME IInv, NEW r \in SUBSET (1..stagedCount), ApplyRestoredConfiguration(r)
      PROVE  Held(table') = {e \in Prevailing(StagedEntries) : Recreated(e, r)}
    <2>1. Restored(table', database', r, stagedCount) /\ StagedOK
        BY <1>1, ApplyRestores DEF IInv
    <2>. QED BY <2>1, RestoredIsPrevailing
<1>2. (IInv /\ AwaitedIsStaged) /\ [Next]_vars => [Exact]_vars
    BY <1>1 DEF AwaitedIsStaged
<1>. QED BY <1>2, SpecAwaited, PTL DEF Spec, RestoreIsExact

\* A write that is not refused lands within the file if it appends or starts from 0 up,
\* and never otherwise: the sum that is tested wraps only for negative starts.
THEOREM WritesLandInFile == Spec => WrittenWithinFile
<1>. DEFINE Within == \A offset \in Offsets, data \in Chunks :
                        WriteFile(offset, data) => (intact' <=> offset >= -1)
<1>1. ASSUME IInv, NEW offset \in Offsets, NEW data \in Chunks, WriteFile(offset, data)
      PROVE  intact' <=> offset >= -1
    <2>. DEFINE start == IF offset = -1 THEN fileLength ELSE offset % Word
    <2>1. /\ FileMaxSize \in Nat /\ fileLength \in Nat /\ fileLength <= FileMaxSize /\ offset \in Int
          /\ Word \in Nat \ {0} /\ Len(data) \in Nat
        BY <1>1, WordFacts, ConfigurationAssumption DEF IInv, FileOK
    <2>2. /\ FileMaxSize + Len(data) < Word /\ offset + Len(data) < Word
          /\ offset < 0 => FileMaxSize < offset + Word
        BY WordAssumption
    <2>3. /\ (start + Len(data)) % Word <= FileMaxSize
          /\ intact' = (start + Len(data) <= FileMaxSize)
        BY <1>1 DEF WriteFile
    <2>4. CASE offset >= -1
        <3>1. start \in Nat /\ start + Len(data) < Word
            <4>1. CASE offset = -1
                BY <2>1, <2>2, <4>1
            <4>2. CASE offset # -1
                <5>1. offset \in 0..(Word - 1)
                    BY <2>1, <2>2, <2>4, <4>2
                <5>2. start = offset
                    BY <4>2, <5>1, WordFacts
                <5>. QED BY <2>1, <2>2, <5>1, <5>2
            <4>. QED BY <4>1, <4>2
        <3>. HIDE DEF start
        <3>2. (start + Len(data)) % Word = start + Len(data)
            <4>1. start + Len(data) \in 0..(Word - 1)
                BY <2>1, <3>1
            <4>. QED BY <4>1, WordFacts
        <3>. QED BY <2>3, <2>4, <3>2
    <2>5. CASE offset < -1
        <3>1. start = offset + Word
            <4>1. offset + Word \in 0..(Word - 1)
                BY <2>1, <2>2, <2>5
            <4>. DEFINE q == -1
            <4>2. q \in Int /\ q * Word + (offset + Word) = offset
                BY <2>1
            <4>. HIDE DEF q
            <4>3. (q * Word + (offset + Word)) % Word = offset + Word
                BY <2>1, <4>1, <4>2, Division
            <4>4. offset # -1
                BY <2>1, <2>5
            <4>. QED BY <4>2, <4>3, <4>4
        <3>. HIDE DEF start
        <3>2. start \in Nat /\ start > FileMaxSize
            BY <2>1, <2>2, <2>5, <3>1
        <3>3. ~(start + Len(data) <= FileMaxSize) /\ ~(offset >= -1)
            BY <2>1, <2>5, <3>2
        <3>. QED BY <2>3, <3>3, Zenon
    <2>. QED BY <2>1, <2>4, <2>5
<1>2. IInv /\ [Next]_vars => [Within]_vars
    BY <1>1
<1>. HIDE DEF Within
<1>3. Spec => [][Within]_vars
    BY <1>2, SpecIInv, PTL DEF Spec
<1>. QED BY <1>3 DEF WrittenWithinFile, Within

\* The flags and the session have their types.
Flags ==
    /\ dateCurrent \in BOOLEAN /\ intact \in BOOLEAN
    /\ session \in {"None", "Backup", "Restore"}
    /\ pending \in BOOLEAN

\* Every step keeps them.
LEMMA NextFlags == IInv /\ Flags /\ [Next]_vars => Flags'
<1>. SUFFICES ASSUME IInv, Flags, [Next]_vars PROVE Flags'
    OBVIOUS
<1>. USE DEF Flags
<1>1. CASE UNCHANGED <<dateCurrent, intact, session, pending>>
    BY <1>1
<1>2. ASSUME NEW i \in Instances, CreateObject(i) \/ DeleteObject(i) \/ \E v \in Values : SetPropertyReal(i, v)
      PROVE  Flags'
    BY <1>1, <1>2 DEF CreateObject, DeleteObject, SetPropertyReal, file, staging
<1>3. ASSUME NEW offset \in Offsets, NEW data \in Chunks, WriteFile(offset, data) PROVE Flags'
    <2>. DEFINE start == IF offset = -1 THEN fileLength ELSE offset % Word
    <2>1. start \in Int /\ Len(data) \in Int /\ FileMaxSize \in Int
        BY WordFacts, ConfigurationAssumption DEF IInv, FileOK
    <2>2. intact' = (start + Len(data) <= FileMaxSize)
        BY <1>3 DEF WriteFile
    <2>. HIDE DEF start
    <2>3. intact' \in BOOLEAN
        BY <2>1, <2>2
    <2>. QED BY <1>3, <2>3 DEF WriteFile, staging
<1>4. ASSUME NEW n \in Sizes, SetIvoryFileSize(n) PROVE Flags'
    BY <1>4 DEF SetIvoryFileSize, staging
<1>5. CASE PrepareBackup
    BY <1>5 DEF PrepareBackup, staging
<1>6. CASE PrepareRestore
    BY <1>6 DEF PrepareRestore, staging
<1>7. CASE CompleteBackup \/ CompleteRestoreAborted
    BY <1>7 DEF CompleteBackup, CompleteRestoreAborted, file, staging
<1>8. CASE CompleteRestoreAccepted \/ CompleteRestoreRejected
    BY <1>8 DEF CompleteRestoreAccepted, CompleteRestoreRejected, file
<1>9. ASSUME NEW r \in SUBSET (1..stagedCount), ApplyRestoredConfiguration(r) PROVE Flags'
    BY <1>9 DEF ApplyRestoredConfiguration, file
<1>10. CASE UNCHANGED vars
    BY <1>1, <1>10 DEF vars, file, staging
<1>. QED BY <1>2, <1>3, <1>4, <1>5, <1>6, <1>7, <1>8, <1>9, <1>10 DEF Next, Step, Undefined

\* The invariant gives every variable its type.
LEMMA IInvIsTyped == IInv /\ AwaitedIsStaged /\ Flags => TypeOK
<1>. SUFFICES ASSUME IInv, AwaitedIsStaged, Flags PROVE TypeOK
    OBVIOUS
<1>1. table \in [Slots -> AnalogValues \cup {Free}]
    BY DEF IInv, Agree, IsAv
<1>2. database \subseteq Instances
    <2>. SUFFICES ASSUME NEW i \in database PROVE i \in Instances
        OBVIOUS
    <2>1. PICK s \in Slots : table[s] # Free /\ table[s].instance = i
        BY DEF IInv, Agree
    <2>2. table[s] \in AnalogValues
        BY <2>1 DEF IInv, Agree, IsAv
    <2>. QED BY <2>1, <2>2 DEF AnalogValues
<1>3. fileData \in [1..FileMaxSize -> Cells] /\ fileLength \in 0..FileMaxSize
    BY DEF IInv, FileOK, GoodCell
<1>4. staged \in [Slots -> AnalogValues \cup {NoEntry}] /\ stagedCount \in 0..MaxAnalogValues
    BY DEF IInv, StagedOK, IsAv
<1>5. awaited \subseteq Seq(AnalogValues)
    <2>1. stagedCount \in Nat /\ \A k \in 1..stagedCount : IsAv(staged[k])
        BY ImageAssumption DEF IInv, StagedOK
    <2>2. StagedEntries \in Seq(AnalogValues)
        BY <2>1, FrontOfStaging DEF StagedEntries
    <2>. QED BY <2>2 DEF AwaitedIsStaged
<1>. QED BY <1>1, <1>2, <1>3, <1>4, <1>5, Zenon DEF Flags, TypeOK

\* Through every creation, deletion, write and restore, a backup taken now fits the
\* file, is accepted by a restore and gives back every object with its value rounded
\* to SignificantDigits digits; the file's length stays within its size.
THEOREM BackupsRestore == Spec => []BackupRestoresRounded
<1>1. IInv /\ AwaitedIsStaged /\ Flags => BackupRestoresRounded
    <2>. SUFFICES ASSUME IInv, AwaitedIsStaged, Flags PROVE BackupRestoresRounded
        OBVIOUS
    <2>1. TypeOK
        BY IInvIsTyped
    <2>2. Agree(table, database)
        BY DEF IInv
    <2>3. LET image == Image(InUse(table))
          IN  /\ Len(image) < FileMaxSize
              /\ Accepted(image)
              /\ Prevailing(Entries(image)) =
                    {[instance |-> av.instance, value |-> Rounded(av.value)] : av \in Held(table)}
        BY <2>2, BackupGivesBack, Zenon
    <2>. QED BY <2>1, <2>3, Zenon DEF BackupRestoresRounded
<1>2. Init => Flags
    BY Zenon DEF Init, Flags
<1>. QED BY <1>1, <1>2, NextFlags, SpecAwaited, PTL DEF Spec

\* A file whose date is too old is an empty one.
THEOREM OldDateOnlyIfEmptied == Spec => []OldDateMeansEmptied
<1>1. Init => OldDateMeansEmptied
    BY DEF Init, OldDateMeansEmptied
<1>2. ASSUME OldDateMeansEmptied, [Next]_vars PROVE OldDateMeansEmptied'
    <2>. USE <1>2 DEF OldDateMeansEmptied
    <2>1. CASE UNCHANGED file
        BY <2>1 DEF file
    <2>2. ASSUME NEW offset \in Offsets, NEW data \in Chunks, WriteFile(offset, data) PROVE OldDateMeansEmptied'
        BY <2>2 DEF WriteFile
    <2>3. ASSUME NEW n \in Sizes, SetIvoryFileSize(n) PROVE OldDateMeansEmptied'
        BY <2>3 DEF SetIvoryFileSize
    <2>4. CASE PrepareBackup
        BY <2>4 DEF PrepareBackup
    <2>5. CASE PrepareRestore
        BY <2>5 DEF PrepareRestore
    <2>6. ASSUME NEW i \in Instances, CreateObject(i) \/ DeleteObject(i) \/ \E v \in Values : SetPropertyReal(i, v)
          PROVE  UNCHANGED file
        BY <2>6 DEF CreateObject, DeleteObject, SetPropertyReal
    <2>7. ASSUME \/ CompleteBackup \/ CompleteRestoreAborted
                 \/ CompleteRestoreAccepted \/ CompleteRestoreRejected
                 \/ \E r \in SUBSET (1..stagedCount) : ApplyRestoredConfiguration(r)
                 \/ UNCHANGED vars
          PROVE  UNCHANGED file
        BY <2>7 DEF CompleteBackup, CompleteRestoreAborted, CompleteRestoreAccepted, CompleteRestoreRejected,
                    ApplyRestoredConfiguration, vars
    <2>. QED BY <2>1, <2>2, <2>3, <2>4, <2>5, <2>6, <2>7 DEF Next, Step, Undefined
<1>. QED BY <1>1, <1>2, PTL DEF Spec
=============================================================================
