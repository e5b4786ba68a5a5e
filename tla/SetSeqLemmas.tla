---------------------------- MODULE SetSeqLemmas ----------------------------
(***************************************************************************)
(* Facts about finite sets of natural numbers, about sequences, about      *)
(* division and about sums of equal parts that the proofs share.           *)
(***************************************************************************)
EXTENDS Integers, FiniteSets, Sequences, FiniteSetsExt, SequencesExt, Selections,
        FiniteSetTheorems, WellFoundedInduction, TLAPS

(***************************************************************************)
(* The minimum of a finite nonempty set of naturals is a member that no    *)
(* other member is below: the sets of elements up to x, for x in S, are    *)
(* well ordered by strict inclusion, and the least of them belongs to the  *)
(* least element.                                                          *)
(***************************************************************************)
LEMMA MinInSet ==
  ASSUME NEW S \in SUBSET Nat, IsFiniteSet(S), S # {}
  PROVE  Min(S) \in S /\ \A y \in S : Min(S) <= y
<1> DEFINE UpTo(x) == {y \in S : y <= x}
           W == {UpTo(x) : x \in S}
<1>1. W \subseteq SUBSET S /\ W # {}
  OBVIOUS
<1>2. PICK w \in W : \A v \in W : ~(<<v, w>> \in StrictSubsetOrdering(S))
  <2>1. IsWellFoundedOn(StrictSubsetOrdering(S), FiniteSubsetsOf(S))
    BY FS_StrictSubsetOrderingWellFounded
  <2>2. W \subseteq FiniteSubsetsOf(S)
    BY <1>1, FS_Subset DEF FiniteSubsetsOf
  <2>. QED  BY <1>1, <2>1, <2>2, WFMin
<1>3. PICK x \in S : w = UpTo(x)
  OBVIOUS
<1>4. ASSUME NEW y \in S  PROVE x <= y
  <2> SUFFICES ASSUME y < x PROVE FALSE
    BY x \in Nat, y \in Nat
  <2>1. x \in UpTo(x)
    BY x \in Nat
  <2>2. x \notin UpTo(y)
    BY x \in Nat, y \in Nat
  <2>3. ASSUME NEW z \in UpTo(y)  PROVE z \in UpTo(x)
    BY <2>3, x \in Nat, y \in Nat
  <2>4. UpTo(y) \subseteq UpTo(x) /\ UpTo(y) # UpTo(x)
    BY <2>1, <2>2, <2>3
  <2>5. <<UpTo(y), w>> \in StrictSubsetOrdering(S)
    BY <1>1, <1>3, <2>4 DEF StrictSubsetOrdering
  <2>. QED  BY <1>2, <2>5
<1>. QED  BY <1>4, Zenon DEF Min

-----------------------------------------------------------------------------
(***************************************************************************)
(* Sequences: taking the first element, appending, concatenating.          *)
(***************************************************************************)

\* x stands before y in s.
Before(s, x, y) == \E i, j \in DOMAIN s : i < j /\ s[i] = x /\ s[j] = y

\* The task that runs, or the waiter that is woken, leaves the rest in order.
LEMMA FirstDropped ==
  ASSUME NEW S, NEW s \in Seq(S), s # <<>>
  PROVE  LET r == RemoveAt(s, 1) IN
         /\ r \in Seq(S) /\ Len(r) = Len(s) - 1
         /\ \A i \in DOMAIN r : i + 1 \in DOMAIN s /\ r[i] = s[i + 1]
<1> DEFINE a == SubSeq(s, 1, 0)
           b == SubSeq(s, 2, Len(s))
<1>1. Len(s) \in Nat /\ Len(s) # 0 /\ DOMAIN s = 1 .. Len(s)
  OBVIOUS
<1>2. a = <<>>
  OBVIOUS
<1>3. b \in Seq(S) /\ Len(b) = Len(s) - 1 /\ \A i \in 1 .. Len(b) : b[i] = s[i + 1]
  BY <1>1
<1>4. RemoveAt(s, 1) = a \o b
  BY <1>1 DEF RemoveAt
<1>5. a \o b = b
  BY <1>2, <1>3
<1>6. DOMAIN b = 1 .. Len(b) /\ RemoveAt(s, 1) = b
  BY <1>3, <1>4, <1>5
<1> HIDE DEF a, b
<1>7. \A i \in DOMAIN b : i + 1 \in DOMAIN s /\ b[i] = s[i + 1]
  BY <1>1, <1>3, <1>6
<1>. QED  BY <1>3, <1>6, <1>7

LEMMA WithoutFirst ==
  ASSUME NEW S, NEW s \in Seq(S), s # <<>>, IsInjective(s)
  PROVE  LET r == RemoveAt(s, 1) IN
         /\ r \in Seq(S) /\ IsInjective(r) /\ ToSet(r) = ToSet(s) \ {s[1]}
         /\ s[1] \in ToSet(s)
         /\ \A x, y : Before(s, x, y) => y # s[1]
         /\ \A x, y : Before(s, x, y) /\ x # s[1] => Before(r, x, y)
<1> DEFINE r == RemoveAt(s, 1)
<1>1. /\ r \in Seq(S) /\ Len(r) = Len(s) - 1
      /\ \A i \in DOMAIN r : i + 1 \in DOMAIN s /\ r[i] = s[i + 1]
  BY FirstDropped
<1>2. /\ Len(s) \in Nat /\ 1 \in DOMAIN s /\ DOMAIN s = 1 .. Len(s) /\ DOMAIN r = 1 .. Len(r)
      /\ Len(r) = Len(s) - 1
  BY <1>1
<1> HIDE DEF r
<1>3. \A i \in DOMAIN s : i # 1 => i - 1 \in DOMAIN r /\ r[i - 1] = s[i]
  BY <1>1, <1>2
<1>4. IsInjective(r)
  <2> SUFFICES ASSUME NEW i \in DOMAIN r, NEW j \in DOMAIN r, r[i] = r[j] PROVE i = j
    BY DEF IsInjective
  <2>1. i + 1 \in DOMAIN s /\ j + 1 \in DOMAIN s /\ s[i + 1] = s[j + 1]
    BY <1>1
  <2>2. i + 1 = j + 1
    BY <2>1 DEF IsInjective
  <2>. QED  BY <1>2, <2>2
<1>5. ToSet(r) = ToSet(s) \ {s[1]}
  <2>1. ASSUME NEW x \in ToSet(r) PROVE x \in ToSet(s) \ {s[1]}
    <3>1. PICK i \in DOMAIN r : r[i] = x
      BY DEF ToSet
    <3>2. i + 1 \in DOMAIN s /\ s[i + 1] = x /\ i + 1 # 1
      BY <1>1, <1>2, <3>1
    <3>3. x # s[1]
      BY <1>2, <3>2 DEF IsInjective
    <3>. QED  BY <3>2, <3>3 DEF ToSet
  <2>2. ASSUME NEW x \in ToSet(s), x # s[1] PROVE x \in ToSet(r)
    <3>1. PICK i \in DOMAIN s : s[i] = x
      BY DEF ToSet
    <3>. QED  BY <1>3, <2>2, <3>1 DEF ToSet
  <2>. QED  BY <2>1, <2>2
<1>6. ASSUME NEW x, NEW y, Before(s, x, y)
      PROVE  y # s[1] /\ (x # s[1] => Before(r, x, y))
  <2>1. PICK i \in DOMAIN s, j \in DOMAIN s : i < j /\ s[i] = x /\ s[j] = y
    BY <1>6 DEF Before
  <2>2. j # 1 /\ j \in 1 .. Len(s) /\ i \in 1 .. Len(s)
    BY <1>2, <2>1
  <2>3. y # s[1]
    BY <1>2, <2>1, <2>2 DEF IsInjective
  <2>4. ASSUME x # s[1] PROVE Before(r, x, y)
    <3>1. i # 1
      BY <2>1, <2>4
    <3>2. /\ i - 1 \in DOMAIN r /\ r[i - 1] = x /\ j - 1 \in DOMAIN r /\ r[j - 1] = y
          /\ i - 1 < j - 1
      BY <1>3, <2>1, <2>2, <3>1
    <3>. QED  BY <3>2 DEF Before
  <2>. QED  BY <2>3, <2>4
<1>7. s[1] \in ToSet(s)
  BY <1>2 DEF ToSet
<1>. QED  BY <1>1, <1>4, <1>5, <1>6, <1>7 DEF r

\* A waiter that was woken removes the future at the head.
LEMMA RemoveHead ==
  ASSUME NEW S, NEW s \in Seq(S), s # <<>>
  PROVE  RemoveFirst(s, Head(s)) = RemoveAt(s, 1)
<1> DEFINE I == {i \in 1 .. Len(s) : s[i] = Head(s)}
<1>1. Len(s) \in Nat /\ 1 \in 1 .. Len(s) /\ s[1] = Head(s)
  OBVIOUS
<1>2. 1 \in I /\ \A i \in I : 1 <= i /\ i \in Nat
  BY <1>1
<1>3. Min(I) = 1
  BY <1>2 DEF Min
<1>4. SelectInSeq(s, LAMBDA v : v = Head(s)) = 1
  BY <1>2, <1>3 DEF SelectInSeq
<1>. QED  BY <1>1, <1>4 DEF RemoveFirst

\* Tasks that become ready run after those that were.
LEMMA Joined ==
  ASSUME NEW S, NEW s \in Seq(S), NEW t \in Seq(S), IsInjective(s), IsInjective(t),
         \A x \in ToSet(s) : x \notin ToSet(t)
  PROVE  LET u == s \o t IN
         /\ u \in Seq(S) /\ IsInjective(u) /\ ToSet(u) = ToSet(s) \cup ToSet(t)
         /\ \A x, y : Before(s, x, y) => Before(u, x, y)
         /\ \A x \in ToSet(s), y \in ToSet(t) : Before(u, x, y)
<1> DEFINE u == s \o t
           m == Len(s)
           n == Len(t)
<1>1. /\ u \in Seq(S) /\ DOMAIN u = 1 .. m + n /\ m \in Nat /\ n \in Nat
      /\ DOMAIN s = 1 .. m /\ DOMAIN t = 1 .. n
  OBVIOUS
<1>2. \A i \in DOMAIN s : i \in DOMAIN u /\ u[i] = s[i]
  BY <1>1
<1>3. \A i \in DOMAIN t : i + m \in DOMAIN u /\ u[i + m] = t[i]
  OBVIOUS
<1>4. \A i \in DOMAIN u : i \notin DOMAIN s => i - m \in DOMAIN t /\ i = (i - m) + m
  BY <1>1
<1> HIDE DEF u, m, n
<1>5. \A i \in DOMAIN u : i \notin DOMAIN s => i - m \in DOMAIN t /\ u[i] = t[i - m]
  BY <1>3, <1>4
<1>6. IsInjective(u)
  <2> SUFFICES ASSUME NEW i \in DOMAIN u, NEW j \in DOMAIN u, u[i] = u[j] PROVE i = j
    BY DEF IsInjective
  <2>1. CASE i \in DOMAIN s /\ j \in DOMAIN s
    BY <1>2, <2>1 DEF IsInjective
  <2>2. CASE i \in DOMAIN s /\ j \notin DOMAIN s
    <3>1. u[i] \in ToSet(s) /\ u[j] \in ToSet(t)
      BY <1>2, <1>5, <2>2 DEF ToSet
    <3>. QED  BY <3>1
  <2>3. CASE i \notin DOMAIN s /\ j \in DOMAIN s
    <3>1. u[j] \in ToSet(s) /\ u[i] \in ToSet(t)
      BY <1>2, <1>5, <2>3 DEF ToSet
    <3>. QED  BY <3>1
  <2>4. CASE i \notin DOMAIN s /\ j \notin DOMAIN s
    <3>1. i - m = j - m
      BY <1>5, <2>4 DEF IsInjective
    <3>. QED  BY <1>1, <3>1
  <2>. QED  BY <2>1, <2>2, <2>3, <2>4
<1>7. ToSet(u) = ToSet(s) \cup ToSet(t)
  <2>1. \A x \in ToSet(u) : x \in ToSet(s) \cup ToSet(t)
    BY <1>2, <1>5 DEF ToSet
  <2>2. \A x \in ToSet(s) : x \in ToSet(u)
    BY <1>2 DEF ToSet
  <2>3. \A x \in ToSet(t) : x \in ToSet(u)
    BY <1>3 DEF ToSet
  <2>. QED  BY <2>1, <2>2, <2>3
<1>8. \A x, y : Before(s, x, y) => Before(u, x, y)
  BY <1>2 DEF Before
<1>9. ASSUME NEW x \in ToSet(s), NEW y \in ToSet(t) PROVE Before(u, x, y)
  <2>1. PICK i \in DOMAIN s : s[i] = x
    BY DEF ToSet
  <2>2. PICK j \in DOMAIN t : t[j] = y
    BY DEF ToSet
  <2>3. i < j + m
    BY <1>1
  <2>. QED  BY <1>2, <1>3, <2>1, <2>2, <2>3 DEF Before
<1>. QED  BY <1>1, <1>6, <1>7, <1>8, <1>9 DEF u

LEMMA Single ==
  ASSUME NEW S, NEW x \in S
  PROVE  <<x>> \in Seq(S) /\ IsInjective(<<x>>) /\ ToSet(<<x>>) = {x}
BY DEF IsInjective, ToSet

LEMMA Appended ==
  ASSUME NEW S, NEW s \in Seq(S), NEW x \in S, IsInjective(s), x \notin ToSet(s)
  PROVE  LET u == Append(s, x) IN
         /\ u \in Seq(S) /\ IsInjective(u) /\ ToSet(u) = ToSet(s) \cup {x}
         /\ \A y, z : Before(s, y, z) => Before(u, y, z)
         /\ \A y \in ToSet(s) : Before(u, y, x)
<1>1. Append(s, x) = s \o <<x>>
  OBVIOUS
<1> DEFINE t == <<x>>
<1>2. t \in Seq(S) /\ IsInjective(t) /\ ToSet(t) = {x} /\ x \in ToSet(t)
  BY Single
<1>3. Append(s, x) = s \o t
  BY <1>1
<1> HIDE DEF t
<1>4. /\ s \o t \in Seq(S) /\ IsInjective(s \o t) /\ ToSet(s \o t) = ToSet(s) \cup ToSet(t)
      /\ \A y, z : Before(s, y, z) => Before(s \o t, y, z)
      /\ \A y \in ToSet(s), z \in ToSet(t) : Before(s \o t, y, z)
  BY <1>2, Joined
<1>. QED  BY <1>2, <1>3, <1>4

\* A waiter leaves the deque, wherever it stands.
LEMMA RemoveKeepsType ==
  ASSUME NEW S, NEW s \in Seq(S), NEW e
  PROVE  RemoveFirst(s, e) \in Seq(S)
<1> DEFINE I == {i \in 1 .. Len(s) : s[i] = e}
<1>1. CASE I = {}
  BY <1>1 DEF RemoveFirst
<1>2. CASE I # {}
  <2>1. SelectInSeq(s, LAMBDA v : v = e) = Min(I)
    BY <1>2 DEF SelectInSeq
  <2>2. Min(I) \in I
    <3>1. I \in SUBSET Nat /\ I \subseteq 1 .. Len(s)
      OBVIOUS
    <3>2. IsFiniteSet(1 .. Len(s))
      BY FS_Interval
    <3>3. IsFiniteSet(I)
      BY <3>1, <3>2, FS_Subset
    <3> HIDE DEF I
    <3>. QED  BY <1>2, <3>1, <3>3, MinInSet
  <2>3. RemoveAt(s, Min(I)) \in Seq(S)
    <3>1. PICK i \in 1 .. Len(s) : i = Min(I)
      BY <2>2
    <3>2. SubSeq(s, 1, i - 1) \in Seq(S) /\ SubSeq(s, i + 1, Len(s)) \in Seq(S)
      OBVIOUS
    <3>3. RemoveAt(s, i) \in Seq(S)
      BY <3>2 DEF RemoveAt
    <3>. QED  BY <3>1, <3>3
  <2>. QED  BY <1>2, <2>1, <2>3 DEF RemoveFirst
<1>. QED  BY <1>1, <1>2

-----------------------------------------------------------------------------
(***************************************************************************)
(* Division, and sums of equal parts.                                      *)
(***************************************************************************)

\* The quotient and the remainder of a multiple and a rest.
LEMMA Remainder ==
  ASSUME NEW n \in Nat, NEW p \in Nat, NEW r \in Nat, r < p
  PROVE  (n * p + r) % p = r /\ (n * p + r) \div p = n
OBVIOUS

\* A number is its quotient times the divisor, and its remainder.
LEMMA DivisionParts ==
  ASSUME NEW n \in Nat, NEW p \in Nat \ {0}
  PROVE  /\ n \div p \in Nat /\ n % p \in 0 .. p - 1
         /\ n = (n \div p) * p + (n % p)
<1>1. n \div p \in Int
  OBVIOUS
<1>2. n % p \in 0 .. p - 1
  OBVIOUS
<1>3. n = p * (n \div p) + (n % p)
  OBVIOUS
<1>4. PICK d \in Int, r \in Int : d = n \div p /\ r = n % p /\ 0 <= r /\ r < p
  BY <1>1, <1>2
<1>5. n = p * d + r
  BY <1>3, <1>4
<1>6. d >= 0
  <2> SUFFICES ASSUME d <= -1 PROVE FALSE
    OBVIOUS
  <2>1. p * d <= p * (-1) /\ p * (-1) = -p
    OBVIOUS
  <2>. QED  BY <1>4, <1>5, <2>1
<1>7. p * d = d * p
  OBVIOUS
<1>8. d \in Nat /\ n = d * p + r
  BY <1>5, <1>6, <1>7
<1>. QED  BY <1>2, <1>4, <1>8, Zenon

\* A multiple is its quotient times the divisor.
LEMMA Divides ==
  ASSUME NEW n \in Nat, NEW p \in Nat \ {0}, n % p = 0
  PROVE  n \div p \in Nat /\ n = (n \div p) * p
<1>1. PICK d \in Nat : d = n \div p
  BY DivisionParts
<1>2. n = d * p + 0 /\ d * p \in Nat
  BY <1>1, DivisionParts
<1>3. n = d * p
  BY <1>2
<1>. QED  BY <1>1, <1>3, Zenon

\* Between a multiple and a larger one there is room for the divisor.
LEMMA NextMultiple ==
  ASSUME NEW t \in Nat \ {0}, NEW a \in Nat, NEW b \in Nat, a % t = 0, b % t = 0, a < b
  PROVE  a + t <= b /\ (a + t) % t = 0
<1>1. PICK i \in Nat, j \in Nat : a = i * t /\ b = j * t
  BY Divides
<1>2. i + 1 <= j
  <2> SUFFICES ASSUME j <= i PROVE FALSE
    OBVIOUS
  <2>1. j * t <= i * t
    OBVIOUS
  <2>. QED  BY <1>1, <2>1
<1>3. (i + 1) * t <= j * t /\ (i + 1) * t = i * t + t
  BY <1>2
<1>4. ((i + 1) * t + 0) % t = 0
  BY Remainder, i + 1 \in Nat
<1>. QED  BY <1>1, <1>3, <1>4

\* Adding a multiple keeps what is a multiple and what is not.
LEMMA MultipleSum ==
  ASSUME NEW t \in Nat \ {0}, NEW a \in Nat, NEW b \in Nat, a % t = 0
  PROVE  (a + b) % t = 0 <=> b % t = 0
<1>1. PICK i \in Nat : a = i * t
  BY Divides
<1>2. ASSUME b % t = 0
      PROVE  (a + b) % t = 0
  <2>1. PICK j \in Nat : b = j * t
    BY <1>2, Divides
  <2>2. a + b = (i + j) * t + 0 /\ i + j \in Nat
    BY <1>1, <2>1
  <2>3. ((i + j) * t + 0) % t = 0
    BY <2>2, Remainder, 0 < t
  <2>. QED  BY <2>2, <2>3, Zenon
<1>3. ASSUME (a + b) % t = 0
      PROVE  b % t = 0
  <2>1. PICK n \in Nat : a + b = n * t
    BY <1>3, Divides, a + b \in Nat
  <2>2. i <= n
    <3> SUFFICES ASSUME n + 1 <= i PROVE FALSE
      BY <1>1
    <3>1. (n + 1) * t <= i * t /\ (n + 1) * t = n * t + t
      OBVIOUS
    <3>. QED  BY <1>1, <2>1, <3>1
  <2>3. (n - i) * t = n * t - i * t /\ n - i \in Nat
    BY <2>2
  <2>4. b = (n - i) * t + 0
    BY <1>1, <2>1, <2>3
  <2>5. ((n - i) * t + 0) % t = 0
    BY <2>3, Remainder, 0 < t
  <2>. QED  BY <2>4, <2>5, Zenon
<1>. QED  BY <1>2, <1>3

\* The smaller of two numbers.
LEMMA MinOfTwo ==
  ASSUME NEW a \in Int, NEW b \in Int
  PROVE  Min({a, b}) = IF a <= b THEN a ELSE b
<1>1. CASE a <= b
  BY <1>1 DEF Min
<1>2. CASE ~(a <= b)
  BY <1>2 DEF Min
<1>. QED  BY <1>1, <1>2

\* One part more.
LEMMA OneMore ==
  ASSUME NEW k \in Nat, NEW n \in Nat
  PROVE  k * n \in Nat /\ k * (n + 1) = k * n + k
OBVIOUS

\* A set without one of its members.
LEMMA OneLess ==
  ASSUME NEW T, IsFiniteSet(T), NEW x \in T
  PROVE  \E n \in Nat : Cardinality(T \ {x}) = n /\ Cardinality(T) = n + 1
<1>1. PICK m \in Nat : m = Cardinality(T)
  BY FS_CardinalityType
<1>2. IsFiniteSet(T \ {x}) /\ Cardinality(T \ {x}) = m - 1
  BY <1>1, FS_RemoveElement
<1>3. m - 1 \in Nat
  BY <1>2, FS_CardinalityType
<1>. QED  BY <1>1, <1>2, <1>3, m = (m - 1) + 1

(***************************************************************************)
(* A sum over a finite set whose members all count k.  A recursive         *)
(* function g that takes one member after the other, whichever it chooses, *)
(* is k times the number of members: a smallest set for which it were not  *)
(* would have a member, and the set without it be smaller still.           *)
(***************************************************************************)
LEMMA EqualParts ==
  ASSUME NEW S, IsFiniteSet(S), NEW k \in Nat, NEW g, g[{}] = 0,
         \A T \in SUBSET S : T # {} => \E x \in T : g[T] = g[T \ {x}] + k \/ g[T] = k + g[T \ {x}]
  PROVE  g[S] = k * Cardinality(S)
<1> DEFINE W == {T \in SUBSET S : g[T] # k * Cardinality(T)}
<1>1. IsWellFoundedOn(StrictSubsetOrdering(S), FiniteSubsetsOf(S))
  BY FS_StrictSubsetOrderingWellFounded
<1>2. W \subseteq FiniteSubsetsOf(S)
  BY FS_Subset DEF FiniteSubsetsOf
<1>3. W = {}
  <2> SUFFICES ASSUME W # {} PROVE FALSE
    OBVIOUS
  <2>1. PICK T \in W : \A U \in W : ~(<<U, T>> \in StrictSubsetOrdering(S))
    BY <1>1, <1>2, WFMin
  <2>2. T \in SUBSET S /\ g[T] # k * Cardinality(T) /\ IsFiniteSet(T)
    BY <2>1, FS_Subset
  <2>3. T # {}
    BY <2>2, FS_EmptySet, k * 0 = 0
  <2>4. PICK x \in T : g[T] = g[T \ {x}] + k \/ g[T] = k + g[T \ {x}]
    BY <2>2, <2>3
  <2>5. T \ {x} \in SUBSET S /\ T \ {x} \subseteq T /\ T \ {x} # T
    BY <2>2
  <2>6. g[T \ {x}] = k * Cardinality(T \ {x})
    BY <2>1, <2>2, <2>5 DEF StrictSubsetOrdering
  <2>7. PICK n \in Nat : Cardinality(T \ {x}) = n /\ Cardinality(T) = n + 1
    BY <2>2, OneLess
  <2>8. k * (n + 1) = k * n + k /\ k * n \in Nat
    BY OneMore
  <2>9. g[T] = k * n + k
    <3>1. g[T] = k * n + k \/ g[T] = k + k * n
      BY <2>4, <2>6, <2>7, Zenon
    <3>. QED  BY <2>8, <3>1
  <2>. QED  BY <2>2, <2>7, <2>8, <2>9
<1>. QED  BY <1>3

\* Leaving out one member leaves out one part.
LEMMA OnePart ==
  ASSUME NEW k \in Nat, NEW T, IsFiniteSet(T), NEW x \in T
  PROVE  k * Cardinality(T) = k * Cardinality(T \ {x}) + k
<1>1. PICK n \in Nat : Cardinality(T \ {x}) = n /\ Cardinality(T) = n + 1
  BY OneLess
<1>. QED  BY <1>1, OneMore

\* The least common multiple, as math.lcm returns it.
LEMMA LeastMultiple ==
  ASSUME NEW a \in Nat \ {0}, NEW b \in Nat \ {0}
  PROVE  LET l == Min({n \in 1 .. a * b : n % a = 0 /\ n % b = 0})
         IN l \in Nat \ {0} /\ l % a = 0 /\ l % b = 0
<1> DEFINE S == {n \in 1 .. a * b : n % a = 0 /\ n % b = 0}
<1>1. a * b \in Nat \ {0}
  OBVIOUS
<1>2. (a * b) % b = 0 /\ (b * a) % a = 0
  <2>1. (a * b + 0) % b = 0 /\ (b * a + 0) % a = 0
    BY Remainder
  <2>. QED  BY <2>1, <1>1
<1>3. a * b \in S
  BY <1>1, <1>2, a * b = b * a
<1>4. S \in SUBSET Nat /\ IsFiniteSet(S)
  <2>1. PICK m \in Nat : m = a * b
    BY <1>1
  <2>2. IsFiniteSet(1 .. m) /\ S \subseteq 1 .. m
    BY <2>1, FS_Interval
  <2>. QED  BY <2>2, FS_Subset
<1>5. Min(S) \in S
  BY <1>3, <1>4, MinInSet
<1>. QED  BY <1>1, <1>5

\* The maximum of a nonempty set of positions is a member no other is above.
LEMMA MaxInSet ==
  ASSUME NEW n \in Nat, NEW S \in SUBSET (1 .. n), S # {}
  PROVE  Max(S) \in S /\ \A y \in S : Max(S) >= y
<1> DEFINE R == {y \in 0 .. n : n - y \in S}
<1>1. R \in SUBSET Nat /\ \A y \in R : y <= n
  OBVIOUS
<1>2. \A x \in S : n - x \in R
  BY \A x \in 1 .. n : n - x \in 0 .. n /\ n - (n - x) = x
<1>0. \A r \in R : r \in 0 .. n /\ n - r \in S /\ n - (n - r) = r
  OBVIOUS
<1> HIDE DEF R
<1>3. Min(R) \in R /\ \A y \in R : Min(R) <= y
  BY <1>1, <1>2, MinInSet, FS_BoundedSetOfNaturals
<1>4. PICK x \in S : n - x = Min(R)
  BY <1>0, <1>3
<1>5. ASSUME NEW y \in S PROVE x >= y
  <2>1. n - x <= n - y
    BY <1>2, <1>3, <1>4
  <2>2. x \in 1 .. n /\ y \in 1 .. n
    OBVIOUS
  <2>. QED  BY <2>1, <2>2
<1>. QED  BY <1>5, Zenon DEF Max

\* What holds at the first position, and at every other one if at the position
\* before, holds at all: there is no smallest exception.
LEMMA SmallestException ==
  ASSUME NEW n \in Nat, NEW W \in SUBSET (1 .. n), 1 \notin W,
         \A i \in 2 .. n : i - 1 \notin W => i \notin W
  PROVE  W = {}
<1> SUFFICES ASSUME W # {} PROVE FALSE
  OBVIOUS
<1>1. W \in SUBSET Nat /\ IsFiniteSet(W)
  <2>1. IsFiniteSet(1 .. n)
    BY FS_Interval
  <2>2. W \subseteq 1 .. n /\ W \in SUBSET Nat
    OBVIOUS
  <2>. QED  BY <2>1, <2>2, FS_Subset
<1>2. PICK m \in W : \A y \in W : m <= y
  BY <1>1, MinInSet
<1>3. m \in 2 .. n
  BY <1>2
<1>4. m - 1 \notin W
  BY <1>2, <1>3
<1>. QED  BY <1>2, <1>3, <1>4

\* The function by which FlattenSeq is defined exists, and is the only one.
LEMMA FlattenSteps ==
  ASSUME NEW S, NEW q \in Seq(Seq(S)), q # <<>>
  PROVE  \E G \in [1 .. Len(q) -> Seq(S)] :
           /\ FlattenSeq(q) = G[Len(q)] /\ G[1] = q[1]
           /\ \A i \in 2 .. Len(q) : G[i] = G[i - 1] \o q[i]
<1>1. PICK n \in Nat : n = Len(q) /\ n >= 1 /\ DOMAIN q = 1 .. n
  OBVIOUS
<1>2. \A i \in 1 .. n : q[i] \in Seq(S)
  BY <1>1
<1> DEFINE Fits(F, m) == /\ F \in [1 .. m -> Seq(S)]
                         /\ \A i \in 1 .. m : F[i] = IF i = 1 THEN q[i] ELSE F[i - 1] \o q[i]
           W == {m \in 1 .. n : ~(\E F : Fits(F, m))}
<1>3. W = {}
  <2>1. 1 \notin W
    <3> DEFINE F == [i \in 1 .. 1 |-> q[1]]
    <3>1. Fits(F, 1)
      BY <1>1, <1>2
    <3>. QED  BY <3>1, Zenon
  <2>2. ASSUME NEW m \in 2 .. n, m - 1 \notin W PROVE m \notin W
    <3>1. m - 1 \in 1 .. n /\ 1 .. m - 1 \subseteq 1 .. m /\ m \in Nat /\ m \in 1 .. n
      OBVIOUS
    <3>2. PICK F : Fits(F, m - 1)
      BY <2>2, <3>1, Zenon
    <3> DEFINE H == [i \in 1 .. m |-> IF i = m THEN F[m - 1] \o q[m] ELSE F[i]]
    <3>3. H \in [1 .. m -> Seq(S)]
      <4>1. F[m - 1] \in Seq(S) /\ q[m] \in Seq(S)
        BY <1>2, <3>1, <3>2
      <4>2. F[m - 1] \o q[m] \in Seq(S)
        BY <4>1
      <4>3. \A i \in 1 .. m : i # m => F[i] \in Seq(S)
        BY <3>1, <3>2
      <4>. QED  BY <4>2, <4>3
    <3>4. ASSUME NEW i \in 1 .. m PROVE H[i] = IF i = 1 THEN q[i] ELSE H[i - 1] \o q[i]
      <4>1. CASE i = m
        <5>0. m \in 1 .. m /\ m - 1 \in 1 .. m /\ m - 1 # m /\ m # 1
          BY <3>1
        <5>1. H[m - 1] = F[m - 1] /\ H[m] = F[m - 1] \o q[m] /\ m # 1
          BY <5>0, Zenon
        <5>. QED  BY <4>1, <5>1
      <4>2. CASE i # m
        <5>1. H[i] = F[i] /\ i \in 1 .. m - 1
          BY <4>2
        <5>2. i # 1 => i - 1 \in 1 .. m /\ i - 1 # m
          BY <3>1
        <5>3. i # 1 => H[i - 1] = F[i - 1]
          BY <5>2
        <5>. QED  BY <3>2, <5>1, <5>3
      <4>. QED  BY <4>1, <4>2
    <3>5. Fits(H, m)
      BY <3>3, <3>4
    <3>. QED  BY <3>5, Zenon
  <2>. QED
    <3> HIDE DEF W
    <3>1. W \in SUBSET (1 .. n)
      BY DEF W
    <3>. QED  BY <2>1, <2>2, <3>1, SmallestException
<1>4. PICK F : Fits(F, n)
  <2>1. n \in 1 .. n
    BY <1>1
  <2>. QED  BY <1>3, <2>1, Zenon
<1> DEFINE G == CHOOSE H : H = [i \in 1 .. n |-> IF i = 1 THEN q[i] ELSE H[i - 1] \o q[i]]
<1>5. FlattenSeq(q) = G[n]
  <2>1. Len(q) # 0
    BY <1>1
  <2>2. FlattenSeq(q) = LET H == CHOOSE H : H = [i \in 1 .. Len(q) |->
                                               IF i = 1 THEN q[i] ELSE H[i - 1] \o q[i]]
                        IN H[Len(q)]
    BY <2>1, Zenon DEF FlattenSeq
  <2>. QED  BY <1>1, <2>2, Zenon
<1>6. F = [i \in 1 .. n |-> IF i = 1 THEN q[i] ELSE F[i - 1] \o q[i]]
  BY <1>4
<1>7. G = [i \in 1 .. n |-> IF i = 1 THEN q[i] ELSE G[i - 1] \o q[i]]
  BY <1>6, Zenon
<1> HIDE DEF G, W, Fits
<1>8. \A i \in 1 .. n : G[i] = IF i = 1 THEN q[i] ELSE G[i - 1] \o q[i]
  BY <1>7
<1> DEFINE V == {i \in 1 .. n : G[i] \notin Seq(S)}
<1>9. V = {}
  <2>1. 1 \notin V
    BY <1>1, <1>2, <1>8
  <2>2. ASSUME NEW m \in 2 .. n, m - 1 \notin V PROVE m \notin V
    <3>1. m \in 1 .. n /\ m - 1 \in 1 .. n /\ m # 1
      OBVIOUS
    <3>2. G[m - 1] \in Seq(S) /\ q[m] \in Seq(S)
      BY <1>2, <2>2, <3>1
    <3>3. G[m] = G[m - 1] \o q[m]
      BY <1>8, <3>1
    <3>4. G[m - 1] \o q[m] \in Seq(S)
      BY <3>2
    <3>. QED  BY <3>3, <3>4
  <2>. QED
    <3> HIDE DEF V
    <3>1. V \in SUBSET (1 .. n)
      BY DEF V
    <3>. QED  BY <2>1, <2>2, <3>1, SmallestException
<1>10. G \in [1 .. n -> Seq(S)]
  BY <1>7, <1>9
<1>11. \A i \in 2 .. n : G[i] = G[i - 1] \o q[i]
  <2> TAKE i \in 2 .. n
  <2>1. i \in 1 .. n /\ i # 1
    OBVIOUS
  <2>. QED  BY <1>8, <2>1
<1>12. G[1] = q[1]
  <2>1. 1 \in 1 .. n
    BY <1>1
  <2>. QED  BY <1>8, <2>1
<1>. QED  BY <1>1, <1>5, <1>10, <1>11, <1>12

(***************************************************************************)
(* Sequences without repetition, of which no two share an element, are     *)
(* joined to one without repetition of all their elements.                 *)
(***************************************************************************)
LEMMA Flattened ==
  ASSUME NEW S, NEW q \in Seq(Seq(S)), \A i \in DOMAIN q : IsInjective(q[i]),
         \A i, j \in DOMAIN q : i # j => ToSet(q[i]) \cap ToSet(q[j]) = {}
  PROVE  /\ FlattenSeq(q) \in Seq(S) /\ IsInjective(FlattenSeq(q))
         /\ \A x : x \in ToSet(FlattenSeq(q)) <=> \E i \in DOMAIN q : x \in ToSet(q[i])
<1>1. CASE q = <<>>
  <2>0. Len(q) = 0 /\ DOMAIN q = {}
    BY <1>1
  <2>1. FlattenSeq(q) = <<>> /\ DOMAIN q = {}
    BY <1>1, <2>0, Zenon DEF FlattenSeq
  <2>2. <<>> \in Seq(S) /\ IsInjective(<<>>) /\ ToSet(<<>>) = {}
    BY DEF IsInjective, ToSet
  <2>. QED  BY <2>1, <2>2
<1>2. CASE q # <<>>
  <2>1. PICK n \in Nat : n = Len(q) /\ n >= 1 /\ DOMAIN q = 1 .. n
    BY <1>2
  <2>2. PICK G \in [1 .. n -> Seq(S)] :
          /\ FlattenSeq(q) = G[n] /\ G[1] = q[1]
          /\ \A i \in 2 .. n : G[i] = G[i - 1] \o q[i]
    <3>1. \E G \in [1 .. Len(q) -> Seq(S)] :
            /\ FlattenSeq(q) = G[Len(q)] /\ G[1] = q[1]
            /\ \A i \in 2 .. Len(q) : G[i] = G[i - 1] \o q[i]
      BY <1>2, FlattenSteps
    <3>. QED  BY <2>1, <3>1, Zenon
  <2> DEFINE Good(i) == /\ IsInjective(G[i])
                        /\ ToSet(G[i]) = UNION {ToSet(q[j]) : j \in 1 .. i}
             W == {i \in 1 .. n : ~Good(i)}
  <2>3. 1 \notin W
    <3>1. 1 \in DOMAIN q /\ 1 .. 1 = {1}
      BY <2>1
    <3>2. UNION {ToSet(q[j]) : j \in {1}} = ToSet(q[1])
      OBVIOUS
    <3>. QED  BY <2>2, <3>1, <3>2
  <2>4. ASSUME NEW i \in 2 .. n, i - 1 \notin W PROVE i \notin W
    <3>1. /\ i \in DOMAIN q /\ i - 1 \in 1 .. n /\ i \in Nat /\ 1 .. i - 1 \subseteq DOMAIN q
          /\ 1 .. i = (1 .. i - 1) \cup {i}
      BY <2>1
    <3>2. Good(i - 1)
      BY <2>4, <3>1
    <3>3. \A x \in ToSet(G[i - 1]) : x \notin ToSet(q[i])
      <4> SUFFICES ASSUME NEW x \in ToSet(G[i - 1]) PROVE x \notin ToSet(q[i])
        OBVIOUS
      <4>1. PICK j \in 1 .. i - 1 : x \in ToSet(q[j])
        BY <3>2
      <4>2. j \in DOMAIN q /\ j # i
        BY <3>1
      <4>. QED  BY <3>1, <4>1, <4>2
    <3>4. G[i - 1] \in Seq(S) /\ q[i] \in Seq(S) /\ IsInjective(q[i]) /\ G[i] = G[i - 1] \o q[i]
      <4>1. G[i - 1] \in Seq(S)
        BY <3>1, Zenon
      <4>2. q[i] \in Seq(S) /\ IsInjective(q[i])
        BY <3>1
      <4>. QED  BY <2>2, <4>1, <4>2
    <3>5. /\ IsInjective(G[i - 1] \o q[i])
          /\ ToSet(G[i - 1] \o q[i]) = ToSet(G[i - 1]) \cup ToSet(q[i])
      BY <3>2, <3>3, <3>4, Joined
    <3>6. UNION {ToSet(q[j]) : j \in 1 .. i} =
            (UNION {ToSet(q[j]) : j \in 1 .. i - 1}) \cup ToSet(q[i])
      BY <3>1
    <3>. QED  BY <3>2, <3>4, <3>5, <3>6
  <2>5. W = {}
    <3> HIDE DEF W
    <3>1. W \in SUBSET (1 .. n)
      BY DEF W
    <3>. QED  BY <2>3, <2>4, <3>1, SmallestException
  <2>6. n \in 1 .. n
    BY <2>1
  <2>7. Good(n)
    BY <2>5, <2>6
  <2>8. G[n] \in Seq(S)
    BY <2>6
  <2>. QED  BY <2>1, <2>2, <2>7, <2>8
<1>. QED  BY <1>1, <1>2

\* A set that another one counts off has as many members.
LEMMA CountedOff ==
  ASSUME NEW S, IsFiniteSet(S), NEW T, NEW f \in [S -> T],
         \A x, y \in S : f[x] = f[y] => x = y, \A t \in T : \E x \in S : f[x] = t
  PROVE  IsFiniteSet(T) /\ Cardinality(T) = Cardinality(S)
<1>1. f \in Injection(S, T) /\ f \in Surjection(S, T)
  BY DEF Injection, Surjection, IsInjective
<1>2. ExistsBijection(S, T)
  BY <1>1, Zenon DEF ExistsBijection, Bijection
<1>. QED  BY <1>2, FS_Bijection

\* A sequence without repetition is as long as the set of its elements.
LEMMA LengthOf ==
  ASSUME NEW S, NEW q \in Seq(S), IsInjective(q), NEW T \in SUBSET (1 .. Len(q))
  PROVE  LET U == {q[i] : i \in T} IN
         /\ IsFiniteSet(U) /\ Cardinality(U) = Cardinality(T) /\ IsFiniteSet(T)
         /\ Cardinality(1 .. Len(q)) = Len(q)
<1>1. PICK n \in Nat : n = Len(q) /\ DOMAIN q = 1 .. n
  OBVIOUS
<1>2. IsFiniteSet(1 .. n) /\ Cardinality(1 .. n) = n
  <2>1. 1 \in Int /\ n \in Int /\ (IF 1 > n THEN 0 ELSE n - 1 + 1) = n
    OBVIOUS
  <2>. QED  BY <2>1, FS_Interval, Zenon
<1>3. IsFiniteSet(T)
  BY <1>1, <1>2, FS_Subset
<1> DEFINE U == {q[i] : i \in T}
           f == [i \in T |-> q[i]]
<1>4. /\ f \in [T -> U] /\ (\A x, y \in T : f[x] = f[y] => x = y)
      /\ \A u \in U : \E x \in T : f[x] = u
  BY <1>1 DEF IsInjective
<1> HIDE DEF f, U
<1>5. IsFiniteSet(U) /\ Cardinality(U) = Cardinality(T)
  BY <1>3, <1>4, CountedOff
<1>. QED  BY <1>1, <1>2, <1>3, <1>5 DEF U

\* Of c * m numbers dealt out to m, everybody gets c.
LEMMA DealtOut ==
  ASSUME NEW m \in Nat \ {0}, NEW c \in Nat, NEW a \in 0 .. m - 1
  PROVE  LET D == {k \in 0 .. c * m - 1 : k % m = a}
         IN IsFiniteSet(D) /\ Cardinality(D) = c
<1> DEFINE D == {k \in 0 .. c * m - 1 : k % m = a}
           f == [j \in 0 .. c - 1 |-> j * m + a]
<1>1. \A j \in 0 .. c - 1 : j * m + a \in 0 .. c * m - 1 /\ (j * m + a) % m = a
                            /\ (j * m + a) \div m = j
  <2> SUFFICES ASSUME NEW j \in 0 .. c - 1
               PROVE  j * m + a \in 0 .. c * m - 1 /\ (j * m + a) % m = a /\ (j * m + a) \div m = j
    OBVIOUS
  <2>1. (j * m + a) % m = a /\ (j * m + a) \div m = j
    BY Remainder
  <2>2. j * m \in Nat /\ (j + 1) * m = j * m + m
    OBVIOUS
  <2>3. (j + 1) * m <= c * m
    <3>1. PICK d \in Nat : c = j + 1 + d
      BY c - (j + 1) \in Nat
    <3>2. c * m = (j + 1) * m + d * m /\ d * m \in Nat
      BY <3>1
    <3>3. (j + 1) * m \in Nat
      OBVIOUS
    <3>. QED  BY <3>2, <3>3
  <2>4. c * m \in Nat
    OBVIOUS
  <2>. QED  BY <2>1, <2>2, <2>3, <2>4
<1>2. f \in [0 .. c - 1 -> D]
  BY <1>1
<1>3. \A i, j \in 0 .. c - 1 : f[i] = f[j] => i = j
  <2>1. \A j \in 0 .. c - 1 : f[j] \div m = j
    BY <1>1
  <2>. QED  BY <2>1
<1>4. ASSUME NEW k \in D PROVE \E j \in 0 .. c - 1 : f[j] = k
  <2>1. k \in Nat /\ k % m = a /\ k < c * m
    <3>1. c * m \in Nat
      OBVIOUS
    <3>. QED  BY <3>1
  <2>2. PICK j \in Nat : j = k \div m /\ k = j * m + a
    BY <2>1, DivisionParts
  <2>3. j < c
    <3> SUFFICES ASSUME c <= j PROVE FALSE
      OBVIOUS
    <3>1. PICK d \in Nat : j = c + d
      BY j - c \in Nat
    <3>2. j * m = c * m + d * m /\ d * m \in Nat /\ c * m \in Nat
      BY <3>1
    <3>. QED  BY <2>1, <2>2, <3>2
  <2>4. j \in 0 .. c - 1
    BY <2>3
  <2>5. f[j] = j * m + a
    BY <2>4, Zenon
  <2>. QED  BY <2>2, <2>4, <2>5, Zenon
<1>5. IsFiniteSet(0 .. c - 1) /\ Cardinality(0 .. c - 1) = c
  BY FS_Interval
<1> HIDE DEF f, D
<1>6. IsFiniteSet(D) /\ Cardinality(D) = Cardinality(0 .. c - 1)
  BY <1>2, <1>3, <1>4, <1>5, CountedOff
<1>. QED  BY <1>5, <1>6 DEF D

\* The elements that are in a set: nothing is added, doubled or left out.
LEMMA ThoseFacts ==
  ASSUME NEW S, NEW q \in Seq(S), IsInjective(q), NEW T
  PROVE  /\ Those(q, T) \in Seq(S) /\ IsInjective(Those(q, T))
         /\ \A x : x \in ToSet(Those(q, T)) <=> x \in ToSet(q) /\ x \in T
<1>1. PICK n \in Nat : n = Len(q) /\ DOMAIN q = 1 .. n
  OBVIOUS
<1> DEFINE f == [i \in DOMAIN q |-> IF q[i] \in T THEN <<q[i]>> ELSE <<>>]
<1>2. \A i \in 1 .. n : f[i] = IF q[i] \in T THEN <<q[i]>> ELSE <<>>
  BY <1>1
<1>3. \A i \in 1 .. n : /\ f[i] \in Seq(S) /\ IsInjective(f[i])
                        /\ ToSet(f[i]) = IF q[i] \in T THEN {q[i]} ELSE {}
  <2> SUFFICES ASSUME NEW i \in 1 .. n
               PROVE  /\ f[i] \in Seq(S) /\ IsInjective(f[i])
                      /\ ToSet(f[i]) = IF q[i] \in T THEN {q[i]} ELSE {}
    OBVIOUS
  <2>1. q[i] \in S
    BY <1>1
  <2>2. <<q[i]>> \in Seq(S) /\ IsInjective(<<q[i]>>) /\ ToSet(<<q[i]>>) = {q[i]}
    BY <2>1, Single
  <2>3. <<>> \in Seq(S) /\ IsInjective(<<>>) /\ ToSet(<<>>) = {}
    BY DEF IsInjective, ToSet
  <2>. QED  BY <1>2, <2>2, <2>3
<1>4. f \in Seq(Seq(S)) /\ DOMAIN f = 1 .. n
  BY <1>1, <1>3
<1>5. Those(q, T) = FlattenSeq(f)
  BY DEF Those
<1> HIDE DEF f
<1>6. \A i, j \in DOMAIN f : i # j => ToSet(f[i]) \cap ToSet(f[j]) = {}
  <2> SUFFICES ASSUME NEW i \in 1 .. n, NEW j \in 1 .. n, i # j
               PROVE  ToSet(f[i]) \cap ToSet(f[j]) = {}
    BY <1>4
  <2>1. q[i] # q[j]
    BY <1>1 DEF IsInjective
  <2>2. ToSet(f[i]) \subseteq {q[i]} /\ ToSet(f[j]) \subseteq {q[j]}
    BY <1>3
  <2>. QED  BY <2>1, <2>2
<1>7. \A i \in DOMAIN f : IsInjective(f[i])
  BY <1>3, <1>4
<1>8. /\ FlattenSeq(f) \in Seq(S) /\ IsInjective(FlattenSeq(f))
      /\ \A x : x \in ToSet(FlattenSeq(f)) <=> \E i \in DOMAIN f : x \in ToSet(f[i])
  BY <1>4, <1>6, <1>7, Flattened
<1>9. \A x : (\E i \in DOMAIN f : x \in ToSet(f[i])) <=> x \in ToSet(q) /\ x \in T
  BY <1>1, <1>3, <1>4 DEF ToSet
<1>. QED  BY <1>5, <1>8, <1>9
=============================================================================
