-------------------------- MODULE KhashResizeProofs ------------------------
(***************************************************************************)
(* What the proofs about Khash rest on, for any sockets, tuples and hash   *)
(* function and for tables of any size: powers of two and kroundup32, that *)
(* the quadratic probe of khash.h looks at every bucket of a table, what   *)
(* the probes of kh_get() and kh_put() find, the inductive invariant, and  *)
(* that kh_del() and the steps of kh_resize() keep it.                     *)
(***************************************************************************)
EXTENDS Khash, TLAPS, FiniteSetTheorems

-----------------------------------------------------------------------------
(* Sets of elements as maps.                                               *)

\* A set of elements as a map; AsMap is that of Elements.
MapOf(es) == [t \in {Tup[e.key] : e \in es} |-> CHOOSE e \in es : Tup[e.key] = t]

\* No two elements of a set have the same tuple.
Apart(es) == \A e, f \in es : Tup[e.key] = Tup[f.key] => e = f

\* Such a set has each of its elements in its map.
LEMMA MapOfElement ==
    ASSUME NEW es, Apart(es), NEW e \in es
    PROVE  Tup[e.key] \in DOMAIN MapOf(es) /\ MapOf(es)[Tup[e.key]] = e
  <1>1. Tup[e.key] \in {Tup[d.key] : d \in es}
    BY Zenon
  <1>2. MapOf(es)[Tup[e.key]] = CHOOSE d \in es : Tup[d.key] = Tup[e.key]
    BY Zenon, <1>1 DEF MapOf
  <1>3. (CHOOSE d \in es : Tup[d.key] = Tup[e.key]) \in es
    BY Zenon
  <1>4. Tup[(CHOOSE d \in es : Tup[d.key] = Tup[e.key]).key] = Tup[e.key]
    BY Zenon
  <1>5. (CHOOSE d \in es : Tup[d.key] = Tup[e.key]) = e
    BY Zenon, <1>3, <1>4 DEF Apart
  <1>6. DOMAIN MapOf(es) = {Tup[d.key] : d \in es}
    BY Zenon DEF MapOf
  <1> QED
    BY ZenonT(60), <1>1, <1>2, <1>5, <1>6

\* g is a map on D with the elements es, each at its tuple.
IsMapOf(g, D, es) ==
    /\ Apart(es) /\ g = [t \in D |-> g[t]]
    /\ \A e \in es : Tup[e.key] \in D /\ g[Tup[e.key]] = e
    /\ \A t \in D : \E e \in es : Tup[e.key] = t

\* Such a map is MapOf().
LEMMA MapOfIs ==
    ASSUME NEW g, NEW D, NEW es, IsMapOf(g, D, es)
    PROVE  MapOf(es) = g
  <1>1. DOMAIN MapOf(es) = {Tup[e.key] : e \in es}
    BY Zenon DEF MapOf
  <1>2. {Tup[e.key] : e \in es} = D
    BY Zenon DEF IsMapOf
  <1>3. ASSUME NEW t \in D PROVE MapOf(es)[t] = g[t]
    <2>1. PICK e \in es : Tup[e.key] = t
      BY Zenon DEF IsMapOf
    <2>2. MapOf(es)[Tup[e.key]] = e
      BY Zenon, MapOfElement DEF IsMapOf
    <2> QED
      BY Zenon, <2>1, <2>2 DEF IsMapOf
  <1>4. MapOf(es) = [t \in D |-> MapOf(es)[t]]
    <2>1. MapOf(es) = [t \in DOMAIN MapOf(es) |-> MapOf(es)[t]]
      BY DEF MapOf
    <2> QED
      BY ONLY Zenon, <1>1, <1>2, <2>1
  <1>5. g = [t \in D |-> g[t]]
    BY Zenon DEF IsMapOf
  <1>6. [t \in D |-> MapOf(es)[t]] = [t \in D |-> g[t]]
    BY ONLY Zenon, <1>3
  <1> QED
    BY ONLY Zenon, <1>4, <1>5, <1>6

\* The map without the elements of a tuple.
LEMMA MapOfDel ==
    ASSUME NEW es, Apart(es), NEW t
    PROVE  MapOf({e \in es : Tup[e.key] # t}) = [u \in (DOMAIN MapOf(es)) \ {t} |-> MapOf(es)[u]]
  <1> DEFINE fs == {e \in es : Tup[e.key] # t}
             D == (DOMAIN MapOf(es)) \ {t}
             g == [u \in D |-> MapOf(es)[u]]
  <1>1. Apart(fs)
    BY Zenon DEF Apart
  <1>2. g = [u \in D |-> g[u]]
    BY Zenon
  <1>3. ASSUME NEW e \in fs PROVE Tup[e.key] \in D /\ g[Tup[e.key]] = e
    <2>1. e \in es /\ Tup[e.key] # t
      BY Zenon
    <2>2. Tup[e.key] \in DOMAIN MapOf(es) /\ MapOf(es)[Tup[e.key]] = e
      BY Zenon, <2>1, MapOfElement
    <2> QED
      BY Zenon, <2>1, <2>2
  <1>4. ASSUME NEW u \in D PROVE \E e \in fs : Tup[e.key] = u
    <2>1. u \in {Tup[e.key] : e \in es} /\ u # t
      <3>1. DOMAIN MapOf(es) = {Tup[e.key] : e \in es}
        BY Zenon DEF MapOf
      <3> QED
        BY Zenon, <3>1
    <2>2. PICK e \in es : Tup[e.key] = u
      BY Zenon, <2>1
    <2> QED
      BY Zenon, <2>1, <2>2
  <1> HIDE DEF fs, D, g
  <1>5. IsMapOf(g, D, fs)
    BY Zenon, <1>1, <1>2, <1>3, <1>4 DEF IsMapOf
  <1>6. MapOf(fs) = g
    BY Zenon, <1>5, MapOfIs
  <1> QED
    BY Zenon, <1>6 DEF fs, D, g

\* The map with another element for a tuple.
LEMMA MapOfPut ==
    ASSUME NEW es, Apart(es), NEW new_e, NEW t, Tup[new_e.key] = t
    PROVE  MapOf({e \in es : Tup[e.key] # t} \cup {new_e}) =
             [u \in (DOMAIN MapOf(es)) \cup {t} |-> IF u # t THEN MapOf(es)[u] ELSE new_e]
  <1> DEFINE fs == {e \in es : Tup[e.key] # t} \cup {new_e}
             D == (DOMAIN MapOf(es)) \cup {t}
             g == [u \in D |-> IF u # t THEN MapOf(es)[u] ELSE new_e]
  <1>1. Apart(fs)
    BY Zenon DEF Apart
  <1>2. g = [u \in D |-> g[u]]
    BY Zenon
  <1>3. ASSUME NEW e \in fs PROVE Tup[e.key] \in D /\ g[Tup[e.key]] = e
    <2>1. CASE e = new_e
      <3>1. t \in D /\ g[t] = new_e
        BY Zenon
      <3> QED
        BY Zenon, <2>1, <3>1
    <2>2. CASE e # new_e
      <3>1. e \in es /\ Tup[e.key] # t
        BY Zenon, <2>2
      <3>2. Tup[e.key] \in DOMAIN MapOf(es) /\ MapOf(es)[Tup[e.key]] = e
        BY Zenon, <3>1, MapOfElement
      <3> QED
        BY Zenon, <3>1, <3>2
    <2> QED
      BY Zenon, <2>1, <2>2
  <1>4. ASSUME NEW u \in D PROVE \E e \in fs : Tup[e.key] = u
    <2>1. CASE u = t
      BY Zenon, <2>1
    <2>2. CASE u # t
      <3>1. DOMAIN MapOf(es) = {Tup[e.key] : e \in es}
        BY Zenon DEF MapOf
      <3>2. u \in {Tup[e.key] : e \in es}
        BY Zenon, <2>2, <3>1
      <3>3. PICK e \in es : Tup[e.key] = u
        BY Zenon, <3>2
      <3> QED
        BY Zenon, <2>2, <3>3
    <2> QED
      BY Zenon, <2>1, <2>2
  <1> HIDE DEF fs, D, g
  <1>5. IsMapOf(g, D, fs)
    BY Zenon, <1>1, <1>2, <1>3, <1>4 DEF IsMapOf
  <1>6. MapOf(fs) = g
    BY Zenon, <1>5, MapOfIs
  <1> QED
    BY Zenon, <1>6 DEF fs, D, g

-----------------------------------------------------------------------------
(* Numbers.                                                                *)

\* A set of natural numbers has a least one: Min() of the models is what it says.
LEMMA MinNat ==
    ASSUME NEW T \in SUBSET Nat, T # {}
    PROVE  Min(T) \in T /\ \A n \in T : Min(T) <= n
  <1> DEFINE R == OpToRel(<, Nat)
  <1>1. R = {ss \in Nat \X Nat : ss[1] < ss[2]}
    BY Zenon DEF OpToRel
  <1>2. IsWellFoundedOn(R, Nat)
    BY NatLessThanWellFounded, Zenon
  <1> HIDE DEF R
  <1>3. PICK m \in T : \A n \in T : ~(<<n, m>> \in R)
    BY Zenon, <1>2, WFMin
  <1>4. \A n \in T : ~(n < m)
    BY Zenon, <1>1, <1>3
  <1>5. \A n \in T : m <= n
    BY <1>4
  <1> QED
    BY Zenon, <1>5 DEF Min

\* So has a bounded one a greatest.
LEMMA MaxBelow ==
    ASSUME NEW n \in Nat, NEW T \in SUBSET (0 .. n - 1), T # {}
    PROVE  Max(T) \in T
  <1> DEFINE U == {k \in Nat : \A x \in T : x <= k}
             u == Min(U)
  <1>1. U \in SUBSET Nat /\ n \in U
    OBVIOUS
  <1> HIDE DEF U
  <1>2. u \in U /\ \A k \in U : u <= k
    BY Zenon, <1>1, MinNat
  <1> HIDE DEF u
  <1>3. u \in Nat /\ \A x \in T : x <= u
    BY Zenon, <1>2 DEF U
  <1>4. u \in T
    <2> SUFFICES ASSUME u \notin T PROVE FALSE
      BY Zenon
    <2>1. \A x \in T : x <= u - 1 /\ x \in Nat
      BY <1>3
    <2>2. PICK x \in T : x \in Nat /\ x <= u - 1
      BY Zenon, <2>1
    <2>3. u - 1 \in Nat
      BY <1>3, <2>2
    <2>4. u - 1 \in U
      BY Zenon, <2>1, <2>3 DEF U
    <2> QED
      BY <1>2, <1>3, <2>4
  <1>5. \A x \in T : u >= x
    BY Zenon, <1>3
  <1> QED
    BY Zenon, <1>4, <1>5 DEF Max

\* Divisors by their quotients.
LEMMA Divides ==
    ASSUME NEW m \in Nat, NEW d \in Nat, d > 0
    PROVE  (m % d = 0) <=> \E q \in Nat : m = d * q
  <1>1. m = d * (m \div d) + (m % d)
    OBVIOUS
  <1>2. m \div d \in Nat
    OBVIOUS
  <1>3. ASSUME m % d = 0 PROVE m = d * (m \div d)
    BY <1>1, <1>2, <1>3
  <1>4. ASSUME NEW q \in Nat, m = d * q PROVE m % d = 0
    BY <1>4
  <1> QED
    BY Zenon, <1>2, <1>3, <1>4

\* The product of odd numbers is odd.
LEMMA OddProduct ==
    ASSUME NEW x \in Nat, NEW y \in Nat, x % 2 = 1, y % 2 = 1
    PROVE  (x * y) % 2 = 1
  <1>1. PICK a \in Nat : x = 2 * a + 1
    <2>1. x = 2 * (x \div 2) + 1 /\ x \div 2 \in Nat
      OBVIOUS
    <2> QED
      BY Zenon, <2>1
  <1>2. PICK b \in Nat : y = 2 * b + 1
    <2>1. y = 2 * (y \div 2) + 1 /\ y \div 2 \in Nat
      OBVIOUS
    <2> QED
      BY Zenon, <2>1
  <1>3. x * y = 2 * (2 * (a * b) + a + b) + 1
    BY <1>1, <1>2
  <1>4. a * b \in Nat
    OBVIOUS
  <1> QED
    BY <1>3, <1>4

\* Half of a power of two is one.
LEMMA PowerHalf ==
    ASSUME NEW m \in Nat, m > 0, PowerOfTwo(2 * m)
    PROVE  PowerOfTwo(m)
  <1> SUFFICES ASSUME NEW d \in 1 .. m, m % d = 0 PROVE d = 1 \/ d % 2 = 0
    BY Zenon DEF PowerOfTwo
  <1>1. PICK q \in Nat : m = d * q
    BY Divides
  <1>2. 2 * m = d * (2 * q) /\ 2 * q \in Nat /\ 2 * m \in Nat /\ d \in Nat /\ d > 0
    BY <1>1
  <1>3. (2 * m) % d = 0
    <2>1. \E r \in Nat : 2 * m = d * r
      BY Zenon, <1>2
    <2> QED
      BY Zenon, <1>2, <2>1, Divides
  <1> QED
    BY <1>3 DEF PowerOfTwo

\* And so is its double.
LEMMA PowerDouble ==
    ASSUME NEW m \in Nat, m > 0, PowerOfTwo(m)
    PROVE  PowerOfTwo(2 * m)
  <1> SUFFICES ASSUME NEW d \in 1 .. 2 * m, (2 * m) % d = 0, d % 2 = 1 PROVE d = 1
    BY DEF PowerOfTwo
  <1>0. d \in Nat /\ d > 0 /\ 2 * m \in Nat
    OBVIOUS
  <1>1. PICK q \in Nat : 2 * m = d * q
    BY Zenon, <1>0, Divides
  <1>2. q % 2 = 0
    <2>1. d * q = 2 * m /\ (2 * m) % 2 = 0
      BY <1>1
    <2>2. q % 2 \in {0, 1}
      OBVIOUS
    <2> QED
      BY <2>1, <2>2, OddProduct
  <1>3. PICK r \in Nat : q = 2 * r
    BY <1>2, Divides
  <1>4. m = d * r
    BY <1>1, <1>3
  <1>5. m % d = 0
    BY Zenon, <1>0, <1>4, Divides
  <1>6. r >= 1
    BY <1>4
  <1>7. d <= m
    BY <1>4, <1>6
  <1> QED
    BY <1>5, <1>7 DEF PowerOfTwo

\* A power of two that divides a product with an odd number divides the other
\* factor.
LEMMA OddFactor ==
    ASSUME NEW m \in Nat, m > 0, PowerOfTwo(m)
    PROVE  \A x, y, q \in Nat : x * y = m * q /\ y % 2 = 1 => \E r \in Nat : x = m * r
  <1> DEFINE P(n) == \A x, y, q \in Nat : x * y = n * q /\ y % 2 = 1 => \E r \in Nat : x = n * r
             Bad == {n \in Nat : n > 0 /\ PowerOfTwo(n) /\ ~P(n)}
  <1> SUFFICES ASSUME Bad # {} PROVE FALSE
    BY ZenonT(60)
  <1>1. PICK n \in Bad : \A l \in Bad : n <= l
    <2>1. Bad \in SUBSET Nat
      BY Zenon
    <2> QED
      BY ZenonT(60), <2>1, MinNat
  <1>2. n \in Nat /\ n > 0 /\ PowerOfTwo(n) /\ ~P(n)
    BY Zenon
  <1>3. n # 1
    <2>1. P(1)
      <3>1. \A x \in Nat : x = 1 * x
        OBVIOUS
      <3> QED
        BY Zenon, <3>1
    <2> QED
      BY <1>2, <2>1
  <1>4. n % 2 = 0
    <2>1. n % n = 0 /\ n \in 1 .. n
      BY <1>2
    <2> QED
      BY Zenon, <1>2, <1>3, <2>1 DEF PowerOfTwo
  <1>5. PICK l \in Nat : n = 2 * l
    BY <1>2, <1>4, Divides
  <1>6. l > 0 /\ l < n /\ PowerOfTwo(l)
    BY <1>2, <1>5, PowerHalf
  <1>7. P(l)
    <2>1. ~(n <= l)
      BY <1>2, <1>6
    <2>2. l \notin Bad
      BY Zenon, <1>1, <2>1
    <2> QED
      BY Zenon, <1>6, <2>2
  <1>8. ASSUME NEW x \in Nat, NEW y \in Nat, NEW q \in Nat, x * y = n * q, y % 2 = 1
        PROVE  \E r \in Nat : x = n * r
    <2>1. x * y = 2 * (l * q) /\ l * q \in Nat
      BY <1>5, <1>8
    <2>2. x % 2 = 0
      <3>1. (x * y) % 2 = 0
        BY <2>1
      <3>2. x % 2 \in {0, 1}
        OBVIOUS
      <3> QED
        BY Zenon, <1>8, <3>1, <3>2, OddProduct
    <2>3. PICK w \in Nat : x = 2 * w
      BY <2>2, Divides
    <2>4. w * y = l * q
      BY <2>1, <2>3
    <2>5. PICK r \in Nat : w = l * r
      BY ZenonT(60), <1>7, <1>8, <2>4
    <2>6. x = n * r
      BY <1>5, <2>3, <2>5
    <2> QED
      BY Zenon, <2>6
  <1> QED
    BY <1>2, <1>8

\* There is a power of two between a number and its double.
LEMMA PowerBetween ==
    ASSUME NEW n \in Nat, n > 0
    PROVE  \E m \in n .. 2 * n : PowerOfTwo(m)
  <1> DEFINE P(l) == \E m \in l .. 2 * l : PowerOfTwo(m)
             Bad == {l \in Nat : l > 0 /\ ~P(l)}
  <1> SUFFICES ASSUME Bad # {} PROVE FALSE
    BY Zenon
  <1>1. PICK l \in Bad : \A k \in Bad : l <= k
    <2>1. Bad \in SUBSET Nat
      BY Zenon
    <2> QED
      BY ZenonT(60), <2>1, MinNat
  <1>2. l \in Nat /\ l > 0 /\ ~P(l)
    BY Zenon
  <1>3. l # 1
    <2>1. PowerOfTwo(1)
      BY DEF PowerOfTwo
    <2> QED
      BY <1>2, <2>1
  <1>4. l - 1 \in Nat /\ l - 1 > 0 /\ ~(l <= l - 1)
    BY <1>2, <1>3
  <1>5. P(l - 1)
    <2>1. l - 1 \notin Bad
      BY Zenon, <1>1, <1>4
    <2> QED
      BY Zenon, <1>4, <2>1
  <1>6. PICK m \in l - 1 .. 2 * (l - 1) : PowerOfTwo(m)
    BY Zenon, <1>5
  <1>7. m \in Nat /\ m > 0
    BY <1>4
  <1>8. CASE m = l - 1
    <2>1. PowerOfTwo(2 * m)
      BY Zenon, <1>6, <1>7, PowerDouble
    <2>2. 2 * m \in l .. 2 * l
      BY <1>4, <1>8
    <2> QED
      BY Zenon, <1>2, <2>1, <2>2
  <1>9. CASE m # l - 1
    <2>1. m \in l .. 2 * l
      BY <1>4, <1>9
    <2> QED
      BY Zenon, <1>2, <1>6, <2>1
  <1> QED
    BY Zenon, <1>8, <1>9

\* kroundup32 finds the least power of two that is large enough.
LEMMA RoundUpFacts ==
    ASSUME NEW n \in Nat
    PROVE  /\ RoundUp(n) \in Nat /\ RoundUp(n) >= 4 /\ RoundUp(n) >= n
           /\ PowerOfTwo(RoundUp(n))
           /\ \A m \in Nat : m >= 4 /\ m >= n /\ PowerOfTwo(m) => RoundUp(n) <= m
  <1> DEFINE T == {m \in 4 .. 2 * n + 4 : m >= n /\ PowerOfTwo(m)}
  <1>1. T \in SUBSET Nat
    OBVIOUS
  <1>2. T # {}
    <2>1. CASE n < 4
      <3>1. PowerOfTwo(4)
        BY DEF PowerOfTwo
      <3>2. 4 \in 4 .. 2 * n + 4 /\ 4 >= n
        BY <2>1
      <3> QED
        BY Zenon, <3>1, <3>2
    <2>2. CASE n >= 4
      <3>1. n > 0
        BY <2>2
      <3>2. PICK m \in n .. 2 * n : PowerOfTwo(m)
        BY Zenon, <3>1, PowerBetween
      <3>3. m \in 4 .. 2 * n + 4 /\ m >= n
        BY <2>2
      <3> QED
        BY Zenon, <3>2, <3>3
    <2> QED
      BY <2>1, <2>2
  <1>3. RoundUp(n) = Min(T)
    BY Zenon DEF RoundUp
  <1>4. RoundUp(n) \in T /\ \A m \in T : RoundUp(n) <= m
    BY Zenon, <1>1, <1>2, <1>3, MinNat
  <1>5. RoundUp(n) \in 4 .. 2 * n + 4 /\ RoundUp(n) >= n /\ PowerOfTwo(RoundUp(n))
    BY Zenon, <1>4
  <1>6. ASSUME NEW m \in Nat, m >= 4, m >= n, PowerOfTwo(m) PROVE RoundUp(n) <= m
    <2>1. CASE m <= 2 * n + 4
      <3>1. m \in 4 .. 2 * n + 4
        BY <1>6, <2>1
      <3> QED
        BY Zenon, <1>4, <1>6, <3>1
    <2>2. CASE ~(m <= 2 * n + 4)
      BY <1>5, <2>2
    <2> QED
      BY Zenon, <2>1, <2>2
  <1>7. RoundUp(n) \in Nat /\ RoundUp(n) >= 4
    BY <1>5
  <1> QED
    BY Zenon, <1>5, <1>6, <1>7

\* From four on, powers of two are even.
LEMMA PowerEven ==
    ASSUME NEW n \in Nat, n > 1, PowerOfTwo(n)
    PROVE  n % 2 = 0
  <1>1. n % n = 0 /\ n \in 1 .. n
    OBVIOUS
  <1> QED
    BY <1>1 DEF PowerOfTwo

-----------------------------------------------------------------------------
(* Probes.                                                                 *)

\* A probe stays in the table.
LEMMA SlotType ==
    ASSUME NEW t \in DOMAIN Hash, NEW n \in Nat, n > 0, NEW k \in Nat
    PROVE  Slot(t, n, k) \in 0 .. n - 1
  <1>1. Hash[t] \in Nat
    BY Zenon, ConstAssumption
  <1>2. (k * (k + 1)) \div 2 \in Nat
    <2>1. k * (k + 1) \in Nat
      OBVIOUS
    <2> QED
      BY <2>1
  <1>3. Hash[t] + (k * (k + 1)) \div 2 \in Nat
    BY <1>1, <1>2
  <1> QED
    BY <1>3 DEF Slot

\* The sum of the first k steps.
LEMMA StepsSum ==
    ASSUME NEW k \in Nat
    PROVE  (k * (k + 1)) \div 2 \in Nat /\ 2 * ((k * (k + 1)) \div 2) = k * (k + 1)
  <1>1. k * (k + 1) \in Nat
    OBVIOUS
  <1>2. (k * (k + 1)) % 2 = 0
    <2>1. CASE k % 2 = 0
      <3>1. PICK a \in Nat : k = 2 * a
        BY <2>1, Divides
      <3>2. k * (k + 1) = 2 * (a * (k + 1)) /\ a * (k + 1) \in Nat
        BY <3>1
      <3> QED
        BY <3>2
    <2>2. CASE k % 2 # 0
      <3>1. (k + 1) % 2 = 0 /\ k + 1 \in Nat
        BY <2>2
      <3>2. PICK a \in Nat : k + 1 = 2 * a
        BY <3>1, Divides
      <3>3. k * (k + 1) = 2 * (k * a) /\ k * a \in Nat
        BY <3>2
      <3> QED
        BY <3>3
    <2> QED
      BY Zenon, <2>1, <2>2
  <1> QED
    BY <1>1, <1>2

\* Numbers with the same remainder.
LEMMA SameRemainder ==
    ASSUME NEW x \in Nat, NEW y \in Nat, NEW n \in Nat, n > 0, x <= y, x % n = y % n
    PROVE  \E q \in Nat : y - x = n * q
  <1>1. x = n * (x \div n) + (x % n) /\ x \div n \in Nat
    OBVIOUS
  <1>2. y = n * (y \div n) + (y % n) /\ y \div n \in Nat
    OBVIOUS
  <1>3. x % n \in Int /\ y % n \in Int
    OBVIOUS
  <1>4. PICK a \in Nat, b \in Nat, r \in Int : x = n * a + r /\ y = n * b + r
    BY Zenon, <1>1, <1>2, <1>3
  <1>5. y - x = n * (b - a)
    BY <1>4
  <1>6. b - a >= 0
    <2>1. CASE b - a < 0
      <3>1. n * (b - a) <= -n
        BY <2>1
      <3> QED
        BY <1>5, <3>1
    <2> QED
      BY <2>1
  <1>7. b - a \in Nat
    BY <1>6
  <1> QED
    BY Zenon, <1>5, <1>7

\* With as many buckets as a power of two, the first n steps of a probe look at
\* different buckets: (b - a) * (b + a + 1) is a multiple of 2 * n only if b = a.
LEMMA SlotApart ==
    ASSUME NEW t \in DOMAIN Hash, NEW n \in Nat, n > 0, PowerOfTwo(n),
           NEW a \in Nat, NEW b \in Nat, a < b, b < n
    PROVE  Slot(t, n, a) # Slot(t, n, b)
  <1> DEFINE A == (a * (a + 1)) \div 2
             B == (b * (b + 1)) \div 2
             H == Hash[t]
  <1>1. H \in Nat
    BY Zenon, ConstAssumption
  <1>2. A \in Nat /\ 2 * A = a * (a + 1)
    BY Zenon, StepsSum
  <1>3. B \in Nat /\ 2 * B = b * (b + 1)
    BY Zenon, StepsSum
  <1>4. Slot(t, n, a) = (H + A) % n /\ Slot(t, n, b) = (H + B) % n
    BY Zenon DEF Slot
  <1> HIDE DEF A, B, H
  <1>5. b * (b + 1) - a * (a + 1) = (b - a) * (b + a + 1)
    OBVIOUS
  <1>6. (b - a) * (b + a + 1) > 0
    <2>1. b - a >= 1 /\ b + a + 1 >= 1
      OBVIOUS
    <2> QED
      BY <2>1
  <1>7. A < B
    BY <1>2, <1>3, <1>5, <1>6
  <1> SUFFICES ASSUME (H + A) % n = (H + B) % n PROVE FALSE
    BY Zenon, <1>4
  <1>8. H + A \in Nat /\ H + B \in Nat /\ H + A <= H + B
    BY <1>1, <1>2, <1>3, <1>7
  <1>9. PICK q \in Nat : (H + B) - (H + A) = n * q
    BY ZenonT(60), <1>8, SameRemainder
  <1>10. (b - a) * (b + a + 1) = (2 * n) * q
    <2>1. B - A = n * q
      BY <1>1, <1>2, <1>3, <1>9
    <2>2. 2 * B - 2 * A = 2 * (n * q)
      BY <1>2, <1>3, <2>1
    <2> QED
      BY <1>2, <1>3, <1>5, <2>2
  <1>11. PowerOfTwo(2 * n) /\ 2 * n \in Nat /\ 2 * n > 0
    BY PowerDouble
  <1>12. \A x, y, z \in Nat : x * y = (2 * n) * z /\ y % 2 = 1 => \E r \in Nat : x = (2 * n) * r
    BY Zenon, <1>11, OddFactor
  <1>13. b - a \in Nat /\ b + a + 1 \in Nat
    OBVIOUS
  <1>14. ASSUME NEW x \in Nat, x > 0, x < 2 * n PROVE ~ \E r \in Nat : x = (2 * n) * r
    <2> SUFFICES ASSUME NEW r \in Nat, x = (2 * n) * r PROVE FALSE
      BY Zenon
    <2>1. r # 0
      BY <1>14
    <2>2. r >= 1
      BY <2>1
    <2>3. (2 * n) * r >= 2 * n
      BY <2>2
    <2> QED
      BY <1>14, <2>3
  <1>15. CASE (b - a) % 2 = 1
    <2>1. (b + a + 1) * (b - a) = (2 * n) * q
      BY <1>10
    <2>2. \E r \in Nat : b + a + 1 = (2 * n) * r
      BY ZenonT(60), <1>12, <1>13, <1>15, <2>1
    <2>3. b + a + 1 > 0 /\ b + a + 1 < 2 * n
      OBVIOUS
    <2> QED
      BY Zenon, <1>13, <1>14, <2>2, <2>3
  <1>16. CASE (b - a) % 2 # 1
    <2>1. (b + a + 1) % 2 = 1
      BY <1>16
    <2>2. \E r \in Nat : b - a = (2 * n) * r
      BY Zenon, <1>10, <1>12, <1>13, <2>1
    <2>3. b - a > 0 /\ b - a < 2 * n
      OBVIOUS
    <2> QED
      BY Zenon, <1>13, <1>14, <2>2, <2>3
  <1> QED
    BY Zenon, <1>15, <1>16

\* So they look at every bucket.
LEMMA SlotCovers ==
    ASSUME NEW t \in DOMAIN Hash, NEW n \in Nat, n > 0, PowerOfTwo(n), NEW i \in 0 .. n - 1
    PROVE  \E k \in Steps(n) : Slot(t, n, k) = i
  <1> DEFINE D == 0 .. n - 1
             f == [k \in D |-> Slot(t, n, k)]
  <1>1. f \in [D -> D]
    BY SlotType
  <1>2. ASSUME NEW a \in D, NEW b \in D, f[a] = f[b] PROVE a = b
    <2>1. a \in Nat /\ b \in Nat /\ a < n /\ b < n
      OBVIOUS
    <2>2. Slot(t, n, a) = Slot(t, n, b)
      BY Zenon, <1>2
    <2> HIDE DEF D, f
    <2>3. ~(a < b)
      BY ONLY Zenon, <2>1, <2>2, SlotApart, n \in Nat, n > 0, PowerOfTwo(n), t \in DOMAIN Hash
    <2>4. ~(b < a)
      BY ONLY Zenon, <2>1, <2>2, SlotApart, n \in Nat, n > 0, PowerOfTwo(n), t \in DOMAIN Hash
    <2> QED
      BY <2>1, <2>3, <2>4
  <1> HIDE DEF f
  <1>3. f \in Injection(D, D)
    BY Zenon, <1>1, <1>2 DEF Injection, IsInjective
  <1>4. IsFiniteSet(D)
    BY FS_Interval
  <1>5. f \in Surjection(D, D)
    BY Zenon, <1>3, <1>4, FS_Injection
  <1>6. PICK k \in D : f[k] = i
    BY Zenon, <1>5 DEF Surjection
  <1>7. Slot(t, n, k) = i
    BY Zenon, <1>6 DEF f
  <1>8. k \in Steps(n)
    BY DEF Steps
  <1> QED
    BY Zenon, <1>7, <1>8

-----------------------------------------------------------------------------
(* The flags of a table.                                                   *)

\* The buckets of a table that hold an element.
Live(f) == {i \in DOMAIN f : f[i] = "live"}

\* Those that end no probe.
Occupied(f) == {i \in DOMAIN f : f[i] # "empty"}

\* The probe for t comes to bucket i before it ends at an empty one.
Reach(t, n, f, i) ==
    \E k \in Steps(n) : Slot(t, n, k) = i /\ \A m \in 0 .. k - 1 : f[Slot(t, n, m)] # "empty"

\* They are finite, and what is live is occupied.
LEMMA FlagSets ==
    ASSUME NEW n \in Nat, NEW S, NEW f \in [0 .. n - 1 -> S]
    PROVE  /\ IsFiniteSet(Live(f)) /\ IsFiniteSet(Occupied(f))
           /\ Cardinality(Live(f)) \in Nat /\ Cardinality(Occupied(f)) \in Nat
           /\ Cardinality(Live(f)) <= Cardinality(Occupied(f))
  <1>1. IsFiniteSet(0 .. n - 1)
    BY FS_Interval
  <1>2. Occupied(f) \in SUBSET (0 .. n - 1) /\ Live(f) \in SUBSET Occupied(f)
    BY Zenon DEF Live, Occupied
  <1>3. IsFiniteSet(Occupied(f))
    BY Zenon, <1>1, <1>2, FS_Subset
  <1>4. IsFiniteSet(Live(f)) /\ Cardinality(Live(f)) <= Cardinality(Occupied(f))
    BY Zenon, <1>2, <1>3, FS_Subset
  <1> QED
    BY Zenon, <1>3, <1>4, FS_CardinalityType

\* While not all buckets are occupied, every probe comes to one that is empty.
LEMMA ProbeEnds ==
    ASSUME NEW t \in DOMAIN Hash, NEW n \in Nat, n > 0, PowerOfTwo(n),
           NEW S, NEW f \in [0 .. n - 1 -> S], Cardinality(Occupied(f)) < n
    PROVE  \E k \in Steps(n) : f[Slot(t, n, k)] = "empty"
  <1>1. Cardinality(0 .. n - 1) = n
    BY FS_Interval
  <1>2. Occupied(f) # 0 .. n - 1
    BY <1>1
  <1>3. PICK i \in 0 .. n - 1 : f[i] = "empty"
    BY Zenon, <1>2 DEF Occupied
  <1>4. PICK k \in Steps(n) : Slot(t, n, k) = i
    BY Zenon, SlotCovers
  <1> QED
    BY Zenon, <1>3, <1>4

\* __HASH_UPPER of a table leaves a bucket empty.
LEMMA UpperBelow ==
    ASSUME NEW n \in Nat
    PROVE  HashUpper(n) \in Nat /\ HashUpper(n) <= n /\ (n > 0 => HashUpper(n) < n)
BY DEF HashUpper

\* A bucket that comes to be occupied ends no probe.
LEMMA ReachKept ==
    ASSUME NEW t \in DOMAIN Hash, NEW n \in Nat, n > 0, NEW i,
           NEW S, NEW f \in [0 .. n - 1 -> S], NEW R, NEW g \in [0 .. n - 1 -> R],
           Occupied(f) \subseteq Occupied(g), Reach(t, n, f, i)
    PROVE  Reach(t, n, g, i)
  <1>1. PICK k \in Steps(n) :
          Slot(t, n, k) = i /\ \A m \in 0 .. k - 1 : f[Slot(t, n, m)] # "empty"
    BY Zenon DEF Reach
  <1>2. ASSUME NEW m \in 0 .. k - 1 PROVE g[Slot(t, n, m)] # "empty"
    <2>1. m \in Nat
      BY DEF Steps
    <2>2. Slot(t, n, m) \in 0 .. n - 1
      BY Zenon, <2>1, SlotType
    <2>3. Slot(t, n, m) \in Occupied(f)
      BY Zenon, <1>1, <2>2 DEF Occupied
    <2>4. Slot(t, n, m) \in Occupied(g)
      BY Zenon, <2>3
    <2> QED
      BY Zenon, <2>4 DEF Occupied
  <1> QED
    BY Zenon, <1>1, <1>2 DEF Reach

-----------------------------------------------------------------------------
(* The inductive invariant.                                                *)

\* Sizes are powers of two; keys and values are there for the larger table.
Shape ==
    /\ n_buckets \in Nat /\ (n_buckets # 0 => n_buckets >= 4 /\ PowerOfTwo(n_buckets))
    /\ flags \in [0 .. n_buckets - 1 -> {"empty", "deleted", "live"}]
    /\ new.n \in Nat /\ new.flags \in [0 .. new.n - 1 -> {"empty", "live"}]
    /\ DOMAIN keys = 0 .. (IF Resizing THEN new.n ELSE n_buckets) - 1
    /\ DOMAIN vals = DOMAIN keys
    /\ arg \in Key \cup {None} /\ j \in 0 .. n_buckets /\ iter \in -1 .. n_buckets
    /\ ret \in -1 .. 2

\* What goes on at the same time: a resize is part of a kh_put(), and nothing is
\* put while backend_cleanup() iterates.  A kh_put() that did not resize, or has,
\* finds an empty bucket.
Phase ==
    /\ Resizing => /\ arg # None /\ new.n >= 4 /\ PowerOfTwo(new.n)
                   /\ new.n >= n_buckets /\ size < HashUpper(new.n)
    /\ ~Resizing => new.n = 0 /\ hand = NoHand /\ j = 0
    /\ arg # None => iter = -1
    /\ arg # None /\ ~Resizing => n_occupied < upper_bound

\* The counters; an element is in the old buckets, in the new ones or in hand.
Counts ==
    /\ size \in Nat /\ upper_bound = HashUpper(n_buckets) /\ n_occupied \in 0 .. upper_bound
    /\ size = Cardinality(Live(flags)) + Cardinality(Live(new.flags))
                + (IF hand = NoHand THEN 0 ELSE 1)
    /\ ~Resizing => n_occupied = Cardinality(Occupied(flags))
    /\ size <= n_occupied

\* Elements are whole, and no two have the same tuple.
Held ==
    /\ Live(flags) \cap Live(new.flags) = {}
    /\ \A i \in Live(flags) \cup Live(new.flags) :
         keys[i] \in Key /\ vals[i] \in Key /\ Tup[vals[i]] = Tup[keys[i]]
    /\ \A i, k \in Live(flags) \cup Live(new.flags) : Tup[keys[i]] = Tup[keys[k]] => i = k
    /\ hand # NoHand =>
         /\ hand \in [key : Key, val : Key] /\ Tup[hand.val] = Tup[hand.key]
         /\ \A i \in Live(flags) \cup Live(new.flags) : Tup[keys[i]] # Tup[hand.key]

\* Probes find what is there, in the new buckets during a resize.
Probed ==
    /\ ~Resizing => \A i \in Live(flags) : Reach(Tup[keys[i]], n_buckets, flags, i)
    /\ \A i \in Live(new.flags) : Reach(Tup[keys[i]], new.n, new.flags, i)

\* The buckets that kh_resize() and backend_cleanup() are done with.
Swept ==
    /\ Resizing => \A i \in Live(flags) : i >= j
    /\ iter >= 0 => \A i \in Live(flags) : i >= iter

\* All of it is needed: that a kh_get() finds an element (Probed) rests on the sizes
\* being powers of two (Shape), that a kh_put() finds a bucket on the counters
\* (Counts, Phase), and that no tuple gets two buckets on both.
KhInv == Shape /\ Phase /\ Counts /\ Held /\ Probed /\ Swept

\* A resize gets enough buckets: the condition under which kh_resize() leaves the
\* table as it is never holds when kh_put() calls it.
LEMMA Enough ==
    ASSUME Shape, Counts
    PROVE  /\ NewBuckets \in Nat /\ NewBuckets >= 4 /\ PowerOfTwo(NewBuckets)
           /\ NewBuckets >= n_buckets /\ size < HashUpper(NewBuckets)
  <1>1. /\ n_buckets \in Nat /\ size \in Nat /\ size <= HashUpper(n_buckets)
        /\ n_buckets = 0 \/ (n_buckets >= 4 /\ PowerOfTwo(n_buckets))
    BY DEF Shape, Counts, HashUpper
  <1>2. CASE n_buckets > 2 * size
    <2>1. n_buckets >= 4 /\ PowerOfTwo(n_buckets) /\ n_buckets - 1 \in Nat
      BY <1>1, <1>2
    <2>2. NewBuckets = RoundUp(n_buckets - 1)
      BY Zenon, <1>2 DEF NewBuckets
    <2>3. /\ NewBuckets \in Nat /\ NewBuckets >= 4 /\ NewBuckets >= n_buckets - 1
          /\ PowerOfTwo(NewBuckets)
      BY Zenon, <2>1, <2>2, RoundUpFacts
    <2>4. n_buckets % 2 = 0 /\ NewBuckets % 2 = 0
      BY <1>1, <2>1, <2>3, PowerEven
    <2>5. NewBuckets >= n_buckets
      BY <1>1, <2>3, <2>4
    <2>6. size < HashUpper(NewBuckets)
      BY <1>1, <1>2, <2>1, <2>3, <2>5 DEF HashUpper
    <2> QED
      BY Zenon, <2>3, <2>5, <2>6
  <1>3. CASE ~(n_buckets > 2 * size)
    <2>1. n_buckets + 1 \in Nat
      BY <1>1
    <2>2. NewBuckets = RoundUp(n_buckets + 1)
      BY Zenon, <1>3 DEF NewBuckets
    <2>3. /\ NewBuckets \in Nat /\ NewBuckets >= 4 /\ NewBuckets >= n_buckets + 1
          /\ PowerOfTwo(NewBuckets)
      BY Zenon, <2>1, <2>2, RoundUpFacts
    <2>4. NewBuckets % 2 = 0 /\ n_buckets % 2 = 0
      BY <1>1, <2>3, PowerEven
    <2>5. NewBuckets >= n_buckets + 2
      BY <1>1, <2>3, <2>4
    <2>6. size < HashUpper(NewBuckets)
      BY <1>1, <2>3, <2>5 DEF HashUpper
    <2> QED
      BY <1>1, <2>3, <2>5, <2>6
  <1> QED
    BY Zenon, <1>2, <1>3

-----------------------------------------------------------------------------
(* kh_get() and the bucket of kh_put().                                    *)

\* The loops of kh_get() and kh_put() for t stop at the bucket that has t: before
\* it there is no empty bucket, and no other bucket has t.
LEMMA StopsAtKey ==
    ASSUME Shape, Held, Probed, ~Resizing, NEW i \in Live(flags), NEW t, Tup[keys[i]] = t
    PROVE  /\ Stops(t) \in SUBSET Nat /\ Stops(t) # {} /\ Min(Stops(t)) \in Stops(t)
           /\ \A k \in Stops(t) : Min(Stops(t)) <= k
           /\ Slot(t, n_buckets, Min(Stops(t))) = i
  <1>1. PICK k \in Steps(n_buckets) :
          Slot(t, n_buckets, k) = i /\ \A m \in 0 .. k - 1 : flags[Slot(t, n_buckets, m)] # "empty"
    BY Zenon DEF Probed, Reach
  <1>2. Stops(t) \in SUBSET Nat
    BY DEF Stops, Steps
  <1>3. flags[i] = "live"
    BY Zenon DEF Live
  <1>4. k \in Stops(t)
    BY Zenon, <1>1, <1>3 DEF Stops
  <1>5. Min(Stops(t)) \in Stops(t) /\ \A m \in Stops(t) : Min(Stops(t)) <= m
    BY Zenon, <1>2, <1>4, MinNat
  <1> DEFINE m == Min(Stops(t))
             x == Slot(t, n_buckets, m)
  <1>6. m \in Nat /\ k \in Nat /\ m <= k
    BY Zenon, <1>2, <1>4, <1>5
  <1>7. flags[x] = "empty" \/ (flags[x] = "live" /\ Tup[keys[x]] = t)
    BY Zenon, <1>5 DEF Stops
  <1>8. x = i
    <2>1. CASE m = k
      BY Zenon, <1>1, <2>1
    <2>2. CASE m # k
      <3>1. m \in 0 .. k - 1
        BY <1>6, <2>2
      <3>2. flags[x] = "live" /\ Tup[keys[x]] = t
        BY Zenon, <1>1, <1>7, <3>1
      <3>3. x \in 0 .. n_buckets - 1
        <4>1. n_buckets \in Nat /\ n_buckets > 0 /\ t \in DOMAIN Hash
          BY SMTT(60), ConstAssumption DEF Shape, Live, Held
        <4> QED
          BY ZenonT(60), <1>6, <4>1, SlotType
      <3>4. x \in Live(flags)
        BY Zenon, <3>2, <3>3 DEF Shape, Live
      <3> QED
        BY Zenon, <3>2, <3>4 DEF Held
    <2> QED
      BY Zenon, <2>1, <2>2
  <1> QED
    BY Zenon, <1>2, <1>4, <1>5, <1>8

\* kh_get() finds a key that is there,
LEMMA GetLive ==
    ASSUME Shape, Held, Probed, ~Resizing, NEW i \in Live(flags), NEW t, Tup[keys[i]] = t
    PROVE  Get(t) = i
  <1>1. n_buckets # 0 /\ flags[i] = "live"
    BY DEF Shape, Live
  <1>2. Stops(t) # {} /\ Slot(t, n_buckets, Min(Stops(t))) = i
    BY Zenon, StopsAtKey
  <1> QED
    BY ZenonT(60), <1>1, <1>2 DEF Get

\* and reports the end of the table for one that is not.
LEMMA GetNone ==
    ASSUME Shape, ~Resizing, NEW t \in DOMAIN Hash, \A i \in Live(flags) : Tup[keys[i]] # t
    PROVE  Get(t) = n_buckets
  <1> SUFFICES ASSUME n_buckets # 0, Stops(t) # {}
               PROVE  flags[Slot(t, n_buckets, Min(Stops(t)))] # "live"
    BY ZenonT(60) DEF Get
  <1>1. Stops(t) \in SUBSET Nat
    BY DEF Stops, Steps
  <1> DEFINE m == Min(Stops(t))
             x == Slot(t, n_buckets, m)
  <1>2. m \in Stops(t) /\ m \in Nat
    BY Zenon, <1>1, MinNat
  <1>3. flags[x] = "empty" \/ (flags[x] = "live" /\ Tup[keys[x]] = t)
    BY Zenon, <1>2 DEF Stops
  <1>4. x \in 0 .. n_buckets - 1
    <2>1. n_buckets \in Nat /\ n_buckets > 0
      BY SMTT(60) DEF Shape
    <2> QED
      BY ZenonT(60), <1>2, <2>1, SlotType
  <1>5. flags[x] = "live" => x \in Live(flags)
    BY Zenon, <1>4 DEF Shape, Live
  <1>6. flags[x] # "live"
    BY Zenon, <1>3, <1>5
  <1> QED
    BY Zenon, <1>6

\* kh_put() takes the bucket that has the key; if there is none, one that is not
\* in use, and that a probe comes to.
LEMMA PutSlotFacts ==
    ASSUME Shape, Counts, Held, Probed, ~Resizing, n_occupied < upper_bound,
           NEW t \in DOMAIN Hash
    PROVE  LET x == PutSlot(t)
           IN  /\ x \in 0 .. n_buckets - 1
               /\ flags[x] = "live" => Tup[keys[x]] = t
               /\ flags[x] # "live" => /\ \A i \in Live(flags) : Tup[keys[i]] # t
                                       /\ Reach(t, n_buckets, flags, x)
  <1> DEFINE n == n_buckets
             s == Stops(t)
             stop == Min(s \cup {2 * n - 1})
             dels == {k \in 0 .. stop - 1 : flags[Slot(t, n, k)] = "deleted"}
  <1>1. n \in Nat /\ n > 0 /\ PowerOfTwo(n)
    BY DEF Shape, Counts, HashUpper
  <1>2. PICK e \in Steps(n) : flags[Slot(t, n, e)] = "empty"
    <2>1. Cardinality(Occupied(flags)) < n
      BY <1>1, UpperBelow DEF Counts
    <2>2. flags \in [0 .. n - 1 -> {"empty", "deleted", "live"}]
      BY Zenon DEF Shape
    <2> QED
      BY Zenon, <1>1, <2>1, <2>2, ProbeEnds
  <1>3. e \in s
    BY Zenon, <1>2 DEF Stops
  <1>4. s \in SUBSET Nat /\ \A k \in s : k < 2 * n - 1
    BY <1>1 DEF Stops, Steps
  <1>5. stop \in s \cup {2 * n - 1} /\ \A k \in s \cup {2 * n - 1} : stop <= k
    <2>1. s \cup {2 * n - 1} \in SUBSET Nat /\ s \cup {2 * n - 1} # {}
      BY <1>1, <1>4
    <2> HIDE DEF s
    <2> QED
      BY Zenon, <2>1, MinNat
  <1> HIDE DEF s, stop
  <1>6. stop \in s /\ stop \in Nat /\ stop < 2 * n - 1
    BY <1>1, <1>3, <1>4, <1>5
  <1>7. flags[Slot(t, n, stop)] = "empty" \/ (flags[Slot(t, n, stop)] = "live" /\ Tup[keys[Slot(t, n, stop)]] = t)
    BY Zenon, <1>6 DEF Stops, s
  <1>8. \A k \in 0 .. stop - 1 : k \in Nat /\ k \in Steps(n) /\ k \notin s
    BY <1>1, <1>4, <1>5, <1>6 DEF Steps
  <1>9. \A k \in 0 .. stop - 1 : flags[Slot(t, n, k)] # "empty"
    BY Zenon, <1>8 DEF Stops, s
  <1>10. Slot(t, n, stop) \in 0 .. n - 1
    BY Zenon, <1>1, <1>6, SlotType
  <1>11. ASSUME NEW i \in Live(flags), Tup[keys[i]] = t PROVE flags[Slot(t, n, stop)] = "live"
    <2>1. Min(s) \in s /\ (\A k \in s : Min(s) <= k) /\ Slot(t, n, Min(s)) = i
      BY Zenon, <1>11, StopsAtKey DEF s
    <2>2. Min(s) = stop
      <3>1. Min(s) \in Nat /\ Min(s) <= stop /\ stop <= Min(s)
        BY Zenon, <1>4, <1>5, <1>6, <2>1
      <3> QED
        BY <1>6, <3>1
    <2> QED
      BY Zenon, <2>1, <2>2 DEF Live
  <1>12. CASE flags[Slot(t, n, stop)] = "live"
    <2>1. PutSlot(t) = Slot(t, n, stop)
      BY Zenon, <1>6, <1>12 DEF PutSlot, s, stop
    <2> QED
      BY Zenon, <1>7, <1>10, <1>12, <2>1
  <1>13. CASE flags[Slot(t, n, stop)] # "live" /\ dels = {}
    <2>1. PutSlot(t) = Slot(t, n, stop)
      BY Zenon, <1>13 DEF PutSlot, s, stop
    <2>2. Reach(t, n, flags, Slot(t, n, stop))
      <3>1. stop \in Steps(n)
        BY <1>1, <1>6 DEF Steps
      <3> QED
        BY Zenon, <1>9, <3>1 DEF Reach
    <2> QED
      BY Zenon, <1>10, <1>11, <1>13, <2>1, <2>2
  <1>14. CASE flags[Slot(t, n, stop)] # "live" /\ dels # {}
    <2>1. PutSlot(t) = Slot(t, n, Max(dels))
      BY Zenon, <1>14 DEF PutSlot, s, stop
    <2>2. Max(dels) \in dels
      <3>1. dels \in SUBSET (0 .. stop - 1)
        BY Zenon
      <3> HIDE DEF dels
      <3> QED
        BY ONLY Zenon, <1>6, <1>14, <3>1, MaxBelow
    <2>3. flags[Slot(t, n, Max(dels))] = "deleted" /\ Max(dels) \in 0 .. stop - 1
      BY Zenon, <2>2
    <2> DEFINE k == Max(dels)
    <2> HIDE DEF k, dels
    <2>4. k \in Nat /\ k \in Steps(n) /\ \A m \in 0 .. k - 1 : m \in 0 .. stop - 1
      <3>1. k \in 0 .. stop - 1
        BY Zenon, <2>3 DEF k
      <3> QED
        BY <1>1, <1>6, <3>1 DEF Steps
    <2>5. Slot(t, n, k) \in 0 .. n - 1
      BY Zenon, <1>1, <2>4, SlotType
    <2>6. Reach(t, n, flags, Slot(t, n, k))
      BY Zenon, <1>9, <2>4 DEF Reach
    <2>7. flags[Slot(t, n, k)] # "live"
      BY Zenon, <2>3 DEF k
    <2> QED
      BY Zenon, <1>11, <1>14, <2>1, <2>5, <2>6, <2>7 DEF k
  <1> QED
    BY ZenonT(60), <1>12, <1>13, <1>14

-----------------------------------------------------------------------------
(* The invariant holds initially, and kh_del() and kh_resize() keep it.    *)

\* A table that is all zero satisfies the invariant.
LEMMA KhInit == ASSUME Init PROVE KhInv
  <1>1. Live(flags) = {} /\ Live(new.flags) = {} /\ Occupied(flags) = {} /\ ~Resizing
    BY Zenon DEF Init, Empty, NoNew, Live, Occupied, Resizing
  <1>2. Cardinality({}) = 0
    BY Zenon, FS_EmptySet
  <1>3. Shape
    BY <1>1 DEF Init, Empty, NoNew, Shape
  <1>4. Phase
    BY Zenon, <1>1 DEF Init, NoNew, Phase
  <1>5. Counts
    BY SMTT(60), <1>1, <1>2 DEF Init, Counts, HashUpper
  <1>6. Held
    BY Zenon, <1>1 DEF Init, Held
  <1>7. Probed /\ Swept
    BY Zenon, <1>1 DEF Probed, Swept
  <1> QED
    BY Zenon, <1>3, <1>4, <1>5, <1>6, <1>7 DEF KhInv

\* Steps that change no bucket.
LEMMA KhQuiet ==
    ASSUME KhInv, UNCHANGED <<table, resize>>,
           arg' \in Key \cup {None}, iter' \in -1 .. n_buckets, ret' \in -1 .. 2,
           Resizing => arg' # None,
           arg' # None => iter' = -1 /\ (~Resizing => n_occupied < upper_bound),
           iter' >= 0 => \A i \in Live(flags) : i >= iter'
    PROVE  KhInv'
  <1> USE DEF table, resize
  <1>1. Shape'
    BY Zenon DEF KhInv, Shape, Resizing
  <1>2. Phase'
    BY Zenon DEF KhInv, Phase, Resizing
  <1>3. Counts'
    BY Zenon DEF KhInv, Counts, Resizing
  <1>4. Held'
    BY Zenon DEF KhInv, Held
  <1>5. Probed'
    BY Zenon DEF KhInv, Probed, Resizing
  <1>6. Swept'
    BY Zenon DEF KhInv, Swept, Resizing
  <1> QED
    BY ZenonT(60), <1>1, <1>2, <1>3, <1>4, <1>5, <1>6 DEF KhInv

\* kh_del() of a bucket that is live, or of none.
LEMMA KhDel ==
    ASSUME KhInv, ~Resizing, arg = None, UNCHANGED <<arg, resize, ret>>,
           NEW x \in 0 .. n_buckets, Del(x), iter' \in -1 .. n_buckets,
           iter' >= 0 => \A i \in Live(flags) \ {x} : i >= iter'
    PROVE  KhInv' /\ Live(flags') = Live(flags) \ {x}
  <1>1. CASE x # n_buckets /\ flags[x] = "live"
    <2>1. /\ flags' = [flags EXCEPT ![x] = "deleted"] /\ size' = size - 1
          /\ UNCHANGED <<n_buckets, n_occupied, upper_bound, keys, vals, arg, new, j, hand, ret>>
      BY Zenon, <1>1 DEF Del, resize
    <2>2. x \in 0 .. n_buckets - 1 /\ n_buckets \in Nat
      BY SMTT(60), <1>1 DEF KhInv, Shape
    <2>3. flags \in [0 .. n_buckets - 1 -> {"empty", "deleted", "live"}]
      BY Zenon DEF KhInv, Shape
    <2>4. Live(flags') = Live(flags) \ {x} /\ Occupied(flags') = Occupied(flags) \cup {x}
      BY Zenon, <2>1, <2>2, <2>3 DEF Live, Occupied
    <2>5. x \in Live(flags) /\ x \in Occupied(flags)
      BY Zenon, <1>1, <2>2, <2>3 DEF Live, Occupied
    <2>6. Occupied(flags') = Occupied(flags)
      BY Zenon, <2>4, <2>5
    <2>7. flags' \in [0 .. n_buckets - 1 -> {"empty", "deleted", "live"}]
      BY Zenon, <2>1, <2>3
    <2>8. IsFiniteSet(Live(flags)) /\ Cardinality(Live(flags)) \in Nat
      BY Zenon, <2>2, <2>3, FlagSets
    <2>9. Cardinality(Live(flags')) = Cardinality(Live(flags)) - 1
      <3>1. Cardinality(Live(flags) \ {x}) = Cardinality(Live(flags)) - 1
        BY Zenon, <2>5, <2>8, FS_RemoveElement
      <3> QED
        BY Zenon, <2>4, <3>1
    <2>10. Cardinality(Live(flags')) \in Nat
      BY Zenon, <2>2, <2>7, FlagSets
    <2>11. Cardinality(Live(new.flags)) \in Nat
      <3>1. new.n \in Nat /\ new.flags \in [0 .. new.n - 1 -> {"empty", "live"}]
        BY Zenon DEF KhInv, Shape
      <3> QED
        BY Zenon, <3>1, FlagSets
    <2>12. Shape'
      BY Zenon, <2>1, <2>7 DEF KhInv, Shape, Resizing
    <2>13. Phase'
      BY ZenonT(60), <2>1 DEF KhInv, Phase, Resizing
    <2>14. Counts'
      <3>1. Counts
        BY Zenon DEF KhInv
      <3>2. Resizing' <=> Resizing
        BY ZenonT(60), <2>1 DEF Resizing
      <3> QED
        BY <2>1, <2>6, <2>8, <2>9, <2>10, <2>11, <3>1, <3>2 DEF Counts
    <2>15. Held'
      <3>1. /\ Live(flags') \subseteq Live(flags) /\ Live(new.flags)' = Live(new.flags)
            /\ UNCHANGED <<keys, vals, hand>> /\ hand = NoHand /\ Held
        BY ZenonT(60), <2>1, <2>4 DEF KhInv, Phase
      <3> QED
        BY Zenon, <3>1 DEF Held
    <2>16. Probed'
      <3>1. ASSUME NEW i \in Live(flags') PROVE Reach(Tup[keys[i]], n_buckets, flags', i)
        <4>1. i \in Live(flags) /\ Tup[keys[i]] \in DOMAIN Hash
          BY Zenon, <2>4, ConstAssumption DEF KhInv, Held
        <4>2. Reach(Tup[keys[i]], n_buckets, flags, i)
          BY Zenon, <4>1 DEF KhInv, Probed
        <4>3. n_buckets > 0
          BY <2>2
        <4> QED
          BY Zenon, <2>2, <2>3, <2>6, <2>7, <4>1, <4>2, <4>3, ReachKept
      <3> QED
        BY Zenon, <2>1, <3>1 DEF KhInv, Probed
    <2>17. Swept'
      BY Zenon, <2>1, <2>4 DEF KhInv, Swept, Resizing
    <2> QED
      BY Zenon, <2>4, <2>12, <2>13, <2>14, <2>15, <2>16, <2>17 DEF KhInv
  <1>2. CASE ~(x # n_buckets /\ flags[x] = "live")
    <2>1. x \notin Live(flags)
      BY <1>2 DEF KhInv, Shape, Live
    <2>2. UNCHANGED <<table, resize>>
      BY Zenon, <1>2 DEF Del, table
    <2>3. Live(flags') = Live(flags) \ {x}
      BY ZenonT(60), <2>1, <2>2 DEF table
    <2>4. arg' \in Key \cup {None} /\ ret' \in -1 .. 2 /\ arg' = None
      BY Zenon DEF KhInv, Shape
    <2>5. KhInv'
      BY ZenonT(60), <2>1, <2>2, <2>4, KhQuiet
    <2> QED
      BY ZenonT(60), <2>3, <2>5
  <1> QED
    BY Zenon, <1>1, <1>2

\* kh_resize() up to its loop.
LEMMA KhResizeBegin ==
    ASSUME KhInv, Idle, NEW p \in Key, arg' = p, ResizeBegin, UNCHANGED <<iter, ret>>
    PROVE  KhInv' /\ Resizing' /\ UNCHANGED <<flags, hand>> /\ Live(new.flags)' = {}
           /\ \A i \in Live(flags) : keys'[i] = keys[i] /\ vals'[i] = vals[i]
  <1> DEFINE N == NewBuckets
  <1>1. /\ N \in Nat /\ N >= 4 /\ PowerOfTwo(N) /\ N >= n_buckets /\ size < HashUpper(N)
    BY Zenon, Enough DEF KhInv
  <1>2. /\ new' = [n |-> N, flags |-> [i \in 0 .. N - 1 |-> "empty"]] /\ j' = 0 /\ hand' = NoHand
        /\ keys' = Grown(keys, N) /\ vals' = Grown(vals, N)
        /\ UNCHANGED <<n_buckets, size, n_occupied, upper_bound, flags>>
    BY Zenon DEF ResizeBegin
  <1>3. arg = None /\ iter = -1 /\ ~Resizing /\ hand = NoHand /\ p # None
    BY Zenon, ConstAssumption DEF Idle, KhInv, Phase
  <1> HIDE DEF N
  <1>4. new'.n = N /\ new'.flags = [i \in 0 .. N - 1 |-> "empty"]
    BY Zenon, <1>2
  <1>5. Resizing'
    BY <1>1, <1>4 DEF Resizing, NoNew
  <1>6. Live(new.flags)' = {}
    BY Zenon, <1>4 DEF Live
  <1>7. Live(new.flags) = {}
    BY <1>3 DEF Resizing, NoNew, Empty, Live
  <1>8. DOMAIN keys = 0 .. n_buckets - 1 /\ DOMAIN vals = 0 .. n_buckets - 1
    BY Zenon, <1>3 DEF KhInv, Shape
  <1>9. n_buckets \in Nat /\ flags \in [0 .. n_buckets - 1 -> {"empty", "deleted", "live"}]
    BY Zenon DEF KhInv, Shape
  <1>10. \A i \in Live(flags) : keys'[i] = keys[i] /\ vals'[i] = vals[i]
    BY Zenon, <1>2, <1>8, <1>9 DEF Live, Grown
  <1>11. DOMAIN keys' = 0 .. N - 1 /\ DOMAIN vals' = 0 .. N - 1
    BY SMTT(60), <1>1, <1>2, <1>8, <1>9 DEF Grown
  <1>12. Shape'
    BY SMTT(60), <1>1, <1>2, <1>3, <1>4, <1>5, <1>9, <1>11 DEF KhInv, Shape
  <1>13. Phase'
    BY Zenon, <1>1, <1>2, <1>3, <1>4, <1>5 DEF Phase
  <1>14. Counts'
    BY ZenonT(60), <1>2, <1>3, <1>5, <1>6, <1>7 DEF KhInv, Counts
  <1>15. Held'
    <2>1. Live(flags)' = Live(flags) /\ hand' = NoHand /\ Held
      BY Zenon, <1>2 DEF KhInv
    <2> QED
      BY <1>6, <1>7, <1>10, <2>1 DEF Held
  <1>16. Probed' /\ Swept'
    <2>1. \A i \in Live(flags)' : i >= j'
      BY <1>2, <1>9 DEF Live
    <2>2. iter' = -1
      BY Zenon, <1>3
    <2> QED
      BY <1>5, <1>6, <2>1, <2>2 DEF Probed, Swept
  <1> QED
    BY ZenonT(60), <1>2, <1>3, <1>5, <1>6, <1>10, <1>12, <1>13, <1>14, <1>15, <1>16 DEF KhInv

\* The old bucket j is empty, deleted or taken out.
LEMMA KhResizeTake ==
    ASSUME KhInv, ResizeTake
    PROVE  /\ KhInv' /\ UNCHANGED <<keys, vals, new>>
           /\ \/ j \in Live(flags) /\ Live(flags)' = Live(flags) \ {j}
                 /\ hand' = [key |-> keys[j], val |-> vals[j]]
              \/ UNCHANGED <<flags, hand>>
  <1>1. /\ Resizing /\ hand = NoHand /\ j < n_buckets /\ j' = j + 1
        /\ UNCHANGED <<n_buckets, size, n_occupied, upper_bound, keys, vals, arg, new, iter, ret>>
    BY ZenonT(60) DEF ResizeTake
  <1>2. n_buckets \in Nat /\ j \in 0 .. n_buckets - 1 /\ j' \in 0 .. n_buckets
    BY SMTT(60), <1>1 DEF KhInv, Shape
  <1>3. flags \in [0 .. n_buckets - 1 -> {"empty", "deleted", "live"}]
    BY Zenon DEF KhInv, Shape
  <1>4. Resizing' /\ (Resizing' <=> Resizing)
    BY Zenon, <1>1 DEF Resizing
  <1>5. arg # None /\ iter = -1
    BY Zenon, <1>1 DEF KhInv, Phase
  <1>6. CASE flags[j] = "live"
    <2>1. hand' = [key |-> keys[j], val |-> vals[j]] /\ flags' = [flags EXCEPT ![j] = "deleted"]
      BY Zenon, <1>6 DEF ResizeTake
    <2>2. j \in Live(flags)
      BY Zenon, <1>2, <1>3, <1>6 DEF Live
    <2>3. Live(flags') = Live(flags) \ {j}
      BY Zenon, <1>2, <1>3, <2>1 DEF Live
    <2>4. flags' \in [0 .. n_buckets - 1 -> {"empty", "deleted", "live"}]
      BY ZenonT(60), <1>3, <2>1
    <2>5. /\ keys[j] \in Key /\ vals[j] \in Key /\ Tup[vals[j]] = Tup[keys[j]]
          /\ hand' # NoHand /\ hand'.key = keys[j] /\ hand'.val = vals[j]
          /\ hand' \in [key : Key, val : Key]
      <3>1. keys[j] \in Key /\ vals[j] \in Key /\ Tup[vals[j]] = Tup[keys[j]]
        BY Zenon, <2>2 DEF KhInv, Held
      <3>2. hand' # NoHand
        <4>1. hand'.key = keys[j] /\ NoHand.key = None
          BY Zenon, <2>1 DEF NoHand
        <4> QED
          BY Zenon, <3>1, <4>1, ConstAssumption
      <3> QED
        BY Zenon, <2>1, <3>1, <3>2
    <2>6. Cardinality(Live(flags')) = Cardinality(Live(flags)) - 1
      <3>1. IsFiniteSet(Live(flags))
        BY Zenon, <1>2, <1>3, FlagSets
      <3>2. Cardinality(Live(flags) \ {j}) = Cardinality(Live(flags)) - 1
        BY Zenon, <2>2, <3>1, FS_RemoveElement
      <3> QED
        BY Zenon, <2>3, <3>2
    <2>7. Cardinality(Live(flags)) \in Nat /\ Cardinality(Live(new.flags)) \in Nat
      <3>1. new.n \in Nat /\ new.flags \in [0 .. new.n - 1 -> {"empty", "live"}]
        BY Zenon DEF KhInv, Shape
      <3> QED
        BY ZenonT(60), <1>2, <1>3, <3>1, FlagSets
    <2>8. Shape'
      BY Zenon, <1>1, <1>2, <1>4, <2>4 DEF KhInv, Shape
    <2>9. Phase'
      BY ZenonT(60), <1>1, <1>4, <1>5 DEF KhInv, Phase
    <2>10. Counts'
      BY SMTT(60), <1>1, <1>4, <2>5, <2>6, <2>7 DEF KhInv, Counts
    <2>11. Held'
      <3>1. /\ UNCHANGED <<keys, vals>> /\ Live(new.flags)' = Live(new.flags) /\ Held
        BY Zenon, <1>1 DEF KhInv
      <3> HIDE DEF KhInv
      <3> QED
        BY Zenon, <2>2, <2>3, <2>5, <3>1 DEF Held
    <2>12. Probed'
      BY Zenon, <1>1, <1>4 DEF KhInv, Probed
    <2>13. Swept'
      <3>1. \A i \in Live(flags) : i >= j /\ i \in Nat
        BY <1>1, <1>3 DEF KhInv, Swept, Live
      <3> QED
        BY <1>1, <1>2, <1>5, <2>3, <3>1 DEF Swept
    <2> QED
      BY Zenon, <1>1, <2>1, <2>2, <2>3, <2>8, <2>9, <2>10, <2>11, <2>12, <2>13 DEF KhInv
  <1>7. CASE flags[j] # "live"
    <2>1. UNCHANGED <<hand, flags>>
      BY ZenonT(60), <1>7 DEF ResizeTake
    <2>2. Shape'
      BY Zenon, <1>1, <1>2, <1>3, <1>4, <2>1 DEF KhInv, Shape
    <2>3. Phase' /\ Probed'
      BY Zenon, <1>1, <1>4, <2>1 DEF KhInv, Phase, Probed
    <2>4. Counts' /\ Held'
      BY Zenon, <1>1, <1>4, <2>1 DEF KhInv, Counts, Held
    <2>5. Swept'
      <3>1. \A i \in Live(flags) : i >= j /\ i \in Nat /\ i # j
        BY <1>1, <1>3, <1>7 DEF KhInv, Swept, Live
      <3> QED
        BY <1>1, <1>2, <1>5, <2>1, <3>1 DEF Swept
    <2> QED
      BY Zenon, <1>1, <2>1, <2>2, <2>3, <2>4, <2>5 DEF KhInv
  <1> QED
    BY Zenon, <1>6, <1>7

\* Where the kick-out loop puts what it has in hand.
PlaceSlot ==
    Slot(Tup[hand.key], new.n,
         Min({m \in Steps(new.n) : new.flags[Slot(Tup[hand.key], new.n, m)] = "empty"}))

\* It finds an empty new bucket, that a probe comes to.
LEMMA PlaceSlotFacts ==
    ASSUME KhInv, Resizing, hand # NoHand
    PROVE  /\ PlaceSlot \in 0 .. new.n - 1 /\ new.flags[PlaceSlot] = "empty"
           /\ Reach(Tup[hand.key], new.n, new.flags, PlaceSlot)
  <1> DEFINE t == Tup[hand.key]
             T == {m \in Steps(new.n) : new.flags[Slot(t, new.n, m)] = "empty"}
             k == Min(T)
  <1>1. new.n \in Nat /\ new.n > 0 /\ PowerOfTwo(new.n) /\ size < HashUpper(new.n)
    BY SMTT(60) DEF KhInv, Phase, Shape
  <1>2. new.flags \in [0 .. new.n - 1 -> {"empty", "live"}]
    BY Zenon DEF KhInv, Shape
  <1>3. t \in DOMAIN Hash
    BY Zenon, ConstAssumption DEF KhInv, Held
  <1>4. Cardinality(Occupied(new.flags)) < new.n
    <2>1. Occupied(new.flags) = Live(new.flags)
      BY ZenonT(60), <1>2 DEF Occupied, Live
    <2>2. Cardinality(Live(new.flags)) \in Nat /\ Cardinality(Live(flags)) \in Nat
      <3>1. n_buckets \in Nat /\ flags \in [0 .. n_buckets - 1 -> {"empty", "deleted", "live"}]
        BY Zenon DEF KhInv, Shape
      <3> QED
        BY Zenon, <1>1, <1>2, <3>1, FlagSets
    <2>3. Cardinality(Live(new.flags)) <= size
      BY SMTT(60), <2>2 DEF KhInv, Counts
    <2>4. HashUpper(new.n) \in Nat /\ HashUpper(new.n) <= new.n
      BY Zenon, <1>1, UpperBelow
    <2>5. size \in Nat
      BY Zenon DEF KhInv, Counts
    <2> QED
      BY SMTT(60), <1>1, <2>1, <2>2, <2>3, <2>4, <2>5
  <1>5. T # {}
    <2>1. \E m \in Steps(new.n) : new.flags[Slot(t, new.n, m)] = "empty"
      BY ZenonT(60), <1>1, <1>2, <1>3, <1>4, ProbeEnds
    <2> QED
      BY Zenon, <2>1
  <1>6. T \in SUBSET Nat
    BY DEF Steps
  <1>7. k \in T /\ \A m \in T : k <= m
    <2> HIDE DEF T
    <2> QED
      BY Zenon, <1>5, <1>6, MinNat
  <1>8. k \in Steps(new.n) /\ new.flags[Slot(t, new.n, k)] = "empty" /\ k \in Nat
    BY Zenon, <1>6, <1>7
  <1>9. PlaceSlot = Slot(t, new.n, k)
    BY Zenon DEF PlaceSlot
  <1> HIDE DEF k
  <1>10. ASSUME NEW m \in 0 .. k - 1 PROVE new.flags[Slot(t, new.n, m)] # "empty"
    <2>1. m \in Steps(new.n) /\ ~(k <= m)
      BY <1>1, <1>8 DEF Steps
    <2> QED
      BY ZenonT(60), <1>7, <2>1
  <1> HIDE DEF t, T
  <1>11. Slot(t, new.n, k) \in 0 .. new.n - 1
    BY Zenon, <1>1, <1>3, <1>8, SlotType
  <1>12. Reach(t, new.n, new.flags, Slot(t, new.n, k))
    BY Zenon, <1>8, <1>10 DEF Reach
  <1> QED
    BY ZenonT(60), <1>8, <1>9, <1>11, <1>12 DEF t

\* One pass of the kick-out loop.
LEMMA KhResizePlace ==
    ASSUME KhInv, ResizePlace
    PROVE  /\ KhInv' /\ hand # NoHand /\ PlaceSlot \in 0 .. new.n - 1
           /\ PlaceSlot \notin Live(new.flags) /\ Resizing'
           /\ Live(flags)' = Live(flags) \ {PlaceSlot}
           /\ Live(new.flags)' = Live(new.flags) \cup {PlaceSlot}
           /\ keys' = [keys EXCEPT ![PlaceSlot] = hand.key]
           /\ vals' = [vals EXCEPT ![PlaceSlot] = hand.val]
           /\ hand' = IF PlaceSlot \in Live(flags)
                      THEN [key |-> keys[PlaceSlot], val |-> vals[PlaceSlot]] ELSE NoHand
           /\ UNCHANGED <<n_buckets, j, arg, iter, ret>>
  <1> DEFINE i == PlaceSlot
  <1>1. Resizing /\ hand # NoHand
    BY Zenon DEF ResizePlace
  <1>2. i \in 0 .. new.n - 1 /\ new.flags[i] = "empty" /\ Reach(Tup[hand.key], new.n, new.flags, i)
    BY Zenon, <1>1, PlaceSlotFacts
  <1>3. /\ new' = [n |-> new.n, flags |-> [new.flags EXCEPT ![i] = "live"]]
        /\ keys' = [keys EXCEPT ![i] = hand.key]
        /\ vals' = [vals EXCEPT ![i] = hand.val]
        /\ IF Kicks(i) THEN hand' = [key |-> keys[i], val |-> vals[i]] /\ flags' = Kicked(i)
                       ELSE hand' = NoHand /\ UNCHANGED flags
        /\ UNCHANGED <<n_buckets, size, n_occupied, upper_bound, arg, j, iter, ret>>
    BY ZenonT(60) DEF ResizePlace, PlaceSlot
  <1> HIDE DEF i
  <1>4. /\ n_buckets \in Nat /\ flags \in [0 .. n_buckets - 1 -> {"empty", "deleted", "live"}]
        /\ new.n \in Nat /\ new.flags \in [0 .. new.n - 1 -> {"empty", "live"}]
        /\ DOMAIN keys = 0 .. new.n - 1 /\ DOMAIN vals = 0 .. new.n - 1
    BY Zenon, <1>1 DEF KhInv, Shape
  <1>5. new'.n = new.n /\ new'.flags = [new.flags EXCEPT ![i] = "live"]
    BY Zenon, <1>3
  <1>6. new'.flags \in [0 .. new.n - 1 -> {"empty", "live"}]
    BY ZenonT(60), <1>4, <1>5
  <1>7. /\ Live(new.flags)' = Live(new.flags) \cup {i} /\ i \notin Live(new.flags)
        /\ Occupied(new.flags) \subseteq Occupied(new.flags')
    BY SMTT(60), <1>2, <1>4, <1>5 DEF Live, Occupied
  <1>8. Kicks(i) <=> i \in Live(flags)
    BY <1>2, <1>4 DEF Kicks, Live
  <1>9. /\ Live(flags)' = Live(flags) \ {i}
        /\ flags' \in [0 .. n_buckets - 1 -> {"empty", "deleted", "live"}]
    BY Zenon, <1>3, <1>4, <1>8 DEF Live, Kicked
  <1>10. hand' = IF i \in Live(flags) THEN [key |-> keys[i], val |-> vals[i]] ELSE NoHand
    BY Zenon, <1>3, <1>8
  <1>11. Resizing'
    BY SMTT(60), <1>1, <1>5 DEF KhInv, Phase, Resizing, NoNew
  <1>12. /\ hand.key \in Key /\ hand.val \in Key /\ Tup[hand.val] = Tup[hand.key]
         /\ \A l \in Live(flags) \cup Live(new.flags) : Tup[keys[l]] # Tup[hand.key]
    BY Zenon, <1>1 DEF KhInv, Held
  <1>13. i \in Live(flags) => /\ keys[i] \in Key /\ vals[i] \in Key /\ Tup[vals[i]] = Tup[keys[i]]
                              /\ hand' # NoHand /\ hand'.key = keys[i] /\ hand'.val = vals[i]
                              /\ hand' \in [key : Key, val : Key]
    <2> SUFFICES ASSUME i \in Live(flags)
                 PROVE  /\ keys[i] \in Key /\ vals[i] \in Key /\ Tup[vals[i]] = Tup[keys[i]]
                        /\ hand' # NoHand /\ hand'.key = keys[i] /\ hand'.val = vals[i]
                        /\ hand' \in [key : Key, val : Key]
      BY Zenon
    <2>1. keys[i] \in Key /\ vals[i] \in Key /\ Tup[vals[i]] = Tup[keys[i]]
      BY Zenon DEF KhInv, Held
    <2>2. hand' = [key |-> keys[i], val |-> vals[i]]
      BY ZenonT(60), <1>10
    <2>3. hand' # NoHand
      <3>1. hand'.key = keys[i] /\ NoHand.key = None
        BY Zenon, <2>2 DEF NoHand
      <3> QED
        BY Zenon, <2>1, <3>1, ConstAssumption
    <2> QED
      BY Zenon, <2>1, <2>2, <2>3
  <1>14. \A l \in 0 .. new.n - 1 : /\ keys'[l] = IF l = i THEN hand.key ELSE keys[l]
                                   /\ vals'[l] = IF l = i THEN hand.val ELSE vals[l]
    BY Zenon, <1>3, <1>4
  <1>15. DOMAIN keys' = 0 .. new.n - 1 /\ DOMAIN vals' = 0 .. new.n - 1
    BY Zenon, <1>3, <1>4
  <1>16. Live(flags) \subseteq 0 .. new.n - 1 /\ Live(new.flags) \subseteq 0 .. new.n - 1
    BY SMTT(60), <1>1, <1>4 DEF KhInv, Phase, Live
  <1>17. Shape'
    BY Zenon, <1>3, <1>4, <1>5, <1>6, <1>9, <1>11, <1>15 DEF KhInv, Shape
  <1>18. Phase'
    BY Zenon, <1>1, <1>3, <1>5, <1>11 DEF KhInv, Phase
  <1>19. Counts'
    <2>1. /\ IsFiniteSet(Live(flags)) /\ Cardinality(Live(flags)) \in Nat
          /\ IsFiniteSet(Live(new.flags)) /\ Cardinality(Live(new.flags)) \in Nat
      BY Zenon, <1>4, FlagSets
    <2>2. Cardinality(Live(new.flags) \cup {i}) = Cardinality(Live(new.flags)) + 1
      BY Zenon, <1>7, <2>1, FS_AddElement
    <2>3. Cardinality(Live(flags) \ {i}) =
            IF i \in Live(flags) THEN Cardinality(Live(flags)) - 1 ELSE Cardinality(Live(flags))
      BY Zenon, <2>1, FS_RemoveElement
    <2>4. /\ Cardinality(Live(new.flags))' = Cardinality(Live(new.flags)) + 1
          /\ Cardinality(Live(flags))' =
               IF i \in Live(flags) THEN Cardinality(Live(flags)) - 1 ELSE Cardinality(Live(flags))
      BY Zenon, <1>7, <1>9, <2>2, <2>3
    <2>5. (hand' = NoHand) <=> i \notin Live(flags)
      BY Zenon, <1>10, <1>13
    <2> QED
      <3>1. Counts
        BY Zenon DEF KhInv
      <3> QED
        BY SMTT(60), <1>1, <1>3, <1>11, <2>1, <2>4, <2>5, <3>1 DEF Counts
  <1>20. Held'
    <2>1. Held
      BY Zenon DEF KhInv
    <2> HIDE DEF KhInv
    <2>2. /\ (Live(flags) \cap Live(new.flags) = {})'
          /\ \A l \in Live(flags)' \cup Live(new.flags)' :
               l = i \/ (l # i /\ l \in Live(flags) \cup Live(new.flags) /\ l \in 0 .. new.n - 1)
      BY Zenon, <1>7, <1>9, <1>16, <2>1 DEF Held
    <2>3. \A l \in Live(flags)' \cup Live(new.flags)' :
             keys'[l] \in Key /\ vals'[l] \in Key /\ Tup[vals'[l]] = Tup[keys'[l]]
      BY SMTT(60), <1>2, <1>12, <1>14, <2>1, <2>2 DEF Held
    <2>4. \A l, k \in Live(flags)' \cup Live(new.flags)' : Tup[keys'[l]] = Tup[keys'[k]] => l = k
      BY <1>2, <1>12, <1>14, <2>1, <2>2 DEF Held
    <2>5. ASSUME hand' # NoHand
          PROVE  /\ hand' \in [key : Key, val : Key] /\ Tup[hand'.val] = Tup[hand'.key]
                 /\ \A l \in Live(flags)' \cup Live(new.flags)' : Tup[keys'[l]] # Tup[hand'.key]
      <3>1. i \in Live(flags) /\ hand'.key = keys[i]
        BY Zenon, <1>10, <1>13, <2>5
      <3>2. hand' \in [key : Key, val : Key] /\ Tup[hand'.val] = Tup[hand'.key]
        BY ZenonT(60), <1>13, <3>1
      <3>3. \A l \in Live(flags)' \cup Live(new.flags)' : Tup[keys'[l]] # Tup[keys[i]]
        BY SMTT(60), <1>2, <1>12, <1>14, <2>1, <2>2, <3>1 DEF Held
      <3> QED
        BY Zenon, <3>1, <3>2, <3>3
    <2> QED
      BY Zenon, <2>2, <2>3, <2>4, <2>5 DEF Held, NoHand
  <1>21. Probed'
    <2>1. ASSUME NEW l \in Live(new.flags)' PROVE Reach(Tup[keys'[l]], new.n, new'.flags, l)
      <3>1. Tup[keys'[l]] \in DOMAIN Hash
        BY Zenon, <1>20, ConstAssumption DEF Held
      <3>2. Reach(Tup[keys'[l]], new.n, new.flags, l)
        <4>1. CASE l = i
          BY Zenon, <1>2, <1>14, <4>1
        <4>2. CASE l # i
          <5>1. l \in Live(new.flags) /\ l \in 0 .. new.n - 1
            BY Zenon, <1>7, <1>16, <4>2
          <5>2. keys'[l] = keys[l]
            BY ZenonT(60), <1>14, <4>2, <5>1
          <5> QED
            BY Zenon, <5>1, <5>2 DEF KhInv, Probed
        <4> QED
          BY ZenonT(60), <4>1, <4>2
      <3>3. new.n > 0
        BY <1>2, <1>4
      <3> QED
        BY Zenon, <1>4, <1>6, <1>7, <3>1, <3>2, <3>3, ReachKept
    <2> QED
      BY Zenon, <1>5, <1>11, <2>1 DEF Probed
  <1>22. Swept'
    BY Zenon, <1>1, <1>3, <1>9, <1>11 DEF KhInv, Swept
  <1> QED
    BY Zenon, <1>1, <1>2, <1>3, <1>7, <1>9, <1>10, <1>11, <1>17, <1>18, <1>19, <1>20, <1>21, <1>22
       DEF KhInv, i

\* The end of kh_resize(): all that was live is in the new buckets.
LEMMA KhResizeEnd ==
    ASSUME KhInv, ResizeEnd
    PROVE  /\ KhInv' /\ hand = NoHand /\ hand' = NoHand /\ UNCHANGED ret
           /\ Live(flags) = {} /\ Live(new.flags)' = {} /\ Live(flags)' = Live(new.flags)
           /\ \A i \in Live(new.flags) : keys'[i] = keys[i] /\ vals'[i] = vals[i]
  <1>1. /\ Resizing /\ hand = NoHand /\ j = n_buckets
        /\ flags' = new.flags /\ n_buckets' = new.n
        /\ keys' = [i \in 0 .. new.n - 1 |-> keys[i]] /\ vals' = [i \in 0 .. new.n - 1 |-> vals[i]]
        /\ n_occupied' = size /\ upper_bound' = HashUpper(new.n)
        /\ new' = NoNew /\ j' = 0 /\ UNCHANGED <<size, arg, hand, iter, ret>>
    BY ZenonT(60) DEF ResizeEnd, OccupiedAfter, Restrict
  <1>2. /\ n_buckets \in Nat /\ flags \in [0 .. n_buckets - 1 -> {"empty", "deleted", "live"}]
        /\ new.n \in Nat /\ new.flags \in [0 .. new.n - 1 -> {"empty", "live"}]
    BY Zenon DEF KhInv, Shape
  <1>3. /\ arg # None /\ iter = -1 /\ new.n >= 4 /\ PowerOfTwo(new.n) /\ size < HashUpper(new.n)
    BY ZenonT(60), <1>1 DEF KhInv, Phase
  <1>4. Live(flags) = {}
    <2>1. Swept
      BY Zenon DEF KhInv
    <2> QED
      BY SMTT(60), <1>1, <1>2, <2>1 DEF Swept, Live
  <1>5. new'.n = 0 /\ new'.flags = Empty /\ ~Resizing'
    BY Zenon, <1>1 DEF NoNew, Resizing
  <1>6. Live(new.flags)' = {}
    BY Zenon, <1>5 DEF Live, Empty
  <1>7. Live(flags)' = Live(new.flags) /\ Occupied(flags)' = Live(new.flags)
    BY ZenonT(60), <1>1, <1>2 DEF Live, Occupied
  <1>8. \A i \in 0 .. new.n - 1 : keys'[i] = keys[i] /\ vals'[i] = vals[i]
    BY Zenon, <1>1
  <1>9. Live(new.flags) \subseteq 0 .. new.n - 1
    BY Zenon, <1>2 DEF Live
  <1>10. Cardinality({}) = 0
    BY Zenon, FS_EmptySet
  <1>11. size \in Nat /\ size = Cardinality(Live(new.flags))
    <2>1. Cardinality(Live(new.flags)) \in Nat
      BY Zenon, <1>2, FlagSets
    <2>2. Cardinality(Live(flags)) = 0
      BY ZenonT(60), <1>4, <1>10
    <2> QED
      BY <1>1, <2>1, <2>2 DEF KhInv, Counts
  <1>12. Shape'
    <2>1. flags' \in [0 .. new.n - 1 -> {"empty", "deleted", "live"}]
      BY Zenon, <1>1, <1>2
    <2>2. new'.flags \in [0 .. new'.n - 1 -> {"empty", "live"}]
      BY SMTT(60), <1>5 DEF Empty
    <2> QED
      <3>1. arg' \in Key \cup {None} /\ ret' \in -1 .. 2
        BY Zenon, <1>1 DEF KhInv, Shape
      <3>2. j' \in 0 .. n_buckets' /\ iter' \in -1 .. n_buckets'
        BY ONLY SMTT(60), <1>1, <1>2, <1>3
      <3>3. /\ DOMAIN keys' = 0 .. (IF Resizing' THEN new'.n ELSE n_buckets') - 1
            /\ DOMAIN vals' = DOMAIN keys'
        BY Zenon, <1>1, <1>5
      <3>4. n_buckets' \in Nat /\ n_buckets' >= 4 /\ PowerOfTwo(n_buckets')
        BY Zenon, <1>1, <1>2, <1>3
      <3>5. new'.n \in Nat
        BY ONLY SMTT(60), <1>5
      <3>6. flags' \in [0 .. n_buckets' - 1 -> {"empty", "deleted", "live"}]
        BY Zenon, <1>1, <2>1
      <3> QED
        BY Zenon, <2>2, <3>1, <3>2, <3>3, <3>4, <3>5, <3>6 DEF Shape
  <1>13. Phase'
    BY Zenon, <1>1, <1>3, <1>5 DEF Phase
  <1>14. Counts'
    <2>1. /\ Cardinality(Live(flags))' = size /\ Cardinality(Live(new.flags))' = 0
          /\ Cardinality(Occupied(flags))' = size
      BY Zenon, <1>6, <1>7, <1>10, <1>11
    <2>2. HashUpper(new.n) \in Nat
      BY ZenonT(60), <1>2, UpperBelow
    <2> QED
      BY SMTT(60), <1>1, <1>3, <1>11, <2>1, <2>2 DEF Counts
  <1>15. Held'
    <2>1. Held /\ hand' = NoHand
      BY ZenonT(60), <1>1 DEF KhInv
    <2> QED
      BY ZenonT(60), <1>6, <1>7, <1>8, <1>9, <2>1 DEF Held
  <1>16. Probed'
    BY Zenon, <1>1, <1>6, <1>7, <1>8, <1>9 DEF KhInv, Probed
  <1>17. Swept'
    BY <1>1, <1>3, <1>5 DEF Swept
  <1> QED
    BY Zenon, <1>1, <1>4, <1>6, <1>7, <1>8, <1>9, <1>12, <1>13, <1>14, <1>15, <1>16, <1>17 DEF KhInv
=============================================================================
