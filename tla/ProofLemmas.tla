----------------------------- MODULE ProofLemmas -----------------------------
(***************************************************************************)
(* Facts about what the servers count with: indices that go round a table, *)
(* the number of threads at a given place of their code, the first free    *)
(* slot of a table.  The allocator counts and scans its pages likewise.    *)
(***************************************************************************)
EXTENDS Integers, FiniteSets, FiniteSetsExt, FiniteSetTheorems, WellFoundedInduction, TLAPS

(* Quotient and remainder. *)
LEMMA DivModulo ==
  ASSUME NEW a \in Nat, NEW T \in Nat \ {0}
  PROVE  /\ a % T \in 0..T-1
         /\ a \div T \in Nat
         /\ a = T * (a \div T) + (a % T)
OBVIOUS

(* The remainder is the one number below T that differs from a by a        *)
(* multiple of T.                                                          *)
LEMMA RemainderUnique ==
  ASSUME NEW T \in Nat \ {0}, NEW q \in Nat, NEW r \in 0..T-1
  PROVE  (T * q + r) % T = r
OBVIOUS

(* And q is the quotient. *)
LEMMA Quotient ==
  ASSUME NEW T \in Nat \ {0}, NEW q \in Nat, NEW r \in 0..T-1
  PROVE  (T * q + r) \div T = q
OBVIOUS

LEMMA RemainderSmall ==
  ASSUME NEW T \in Nat \ {0}, NEW r \in 0..T-1
  PROVE  r % T = r
OBVIOUS

(* Moving an index on is moving the counter it stands for on. *)
LEMMA RingSuccessor ==
  ASSUME NEW a \in Nat, NEW T \in Nat \ {0}
  PROVE  ((a % T) + 1) % T = (a + 1) % T
<1> DEFINE q == a \div T
           r == a % T
<1>1. q \in Nat /\ r \in 0..T-1 /\ a = T * q + r
  BY DivModulo
<1>2. CASE r = T - 1
  <2>1. a + 1 = T * (q + 1) + 0 /\ q + 1 \in Nat /\ 0 \in 0..T-1
    BY <1>1, <1>2
  <2>2. (T * (q + 1) + 0) % T = 0
    BY <2>1, RemainderUnique
  <2>3. T % T = 0
    BY RemainderUnique
  <2> QED BY <2>1, <2>2, <2>3, <1>2
<1>3. CASE r # T - 1
  <2>1. a + 1 = T * q + (r + 1) /\ r + 1 \in 0..T-1
    BY <1>1, <1>3
  <2>2. (a + 1) % T = r + 1
    BY <2>1, <1>1, RemainderUnique
  <2>3. (r + 1) % T = r + 1
    BY <2>1, RemainderSmall
  <2> QED BY <2>2, <2>3
<1> QED BY <1>2, <1>3

(* Moving it several steps on, too. *)
LEMMA RingSum ==
  ASSUME NEW a \in Nat, NEW b \in Nat, NEW T \in Nat \ {0}
  PROVE  ((a % T) + b) % T = (a + b) % T
<1> DEFINE q == a \div T
           r == a % T
           p == (r + b) \div T
           s == (r + b) % T
<1>1. q \in Nat /\ r \in 0..T-1 /\ a = T * q + r
  BY DivModulo
<1>2. r + b \in Nat
  BY <1>1
<1>3. p \in Nat /\ s \in 0..T-1 /\ r + b = T * p + s
  BY <1>2, DivModulo
<1> HIDE DEF q, r, p, s
<1>4. a + b = T * (q + p) + s /\ q + p \in Nat
  BY <1>1, <1>3
<1>5. (T * (q + p) + s) % T = s
  BY <1>3, <1>4, RemainderUnique
<1> QED BY <1>4, <1>5 DEF r, s

(* Two counters less than a turn apart stand for different slots. *)
LEMMA RingDistinct ==
  ASSUME NEW a \in Nat, NEW b \in Nat, NEW T \in Nat \ {0},
         a < b, b - a < T
  PROVE  a % T # b % T
<1>1. SUFFICES ASSUME a % T = b % T PROVE FALSE
  OBVIOUS
<1> DEFINE qa == a \div T
           qb == b \div T
           r  == a % T
<1>2. qa \in Nat /\ qb \in Nat /\ r \in 0..T-1 /\ a = T * qa + r
  BY DivModulo
<1>3. b = T * qb + r
  BY DivModulo, <1>1
<1> HIDE DEF qa, qb, r
<1>4. b - a = T * (qb - qa)
  BY <1>2, <1>3
<1>5. CASE qb - qa <= 0
  BY <1>2, <1>4, <1>5
<1>6. CASE qb - qa >= 1
  BY <1>2, <1>4, <1>6
<1> QED BY <1>2, <1>5, <1>6

-----------------------------------------------------------------------------
(* When one thread moves, the number of threads at some places loses it if *)
(* it was there and gains it if it is there now.                           *)
LEMMA CountMove ==
  ASSUME NEW P, IsFiniteSet(P), NEW avant \in SUBSET P, NEW apres \in SUBSET P,
         NEW t \in P, \A u \in P \ {t} : u \in avant <=> u \in apres
  PROVE  /\ Cardinality(avant) \in Nat
         /\ Cardinality(apres) \in Nat
         /\ (t \in avant <=> t \in apres) => Cardinality(apres) = Cardinality(avant)
         /\ t \notin avant /\ t \in apres => Cardinality(apres) = Cardinality(avant) + 1
         /\ t \in avant /\ t \notin apres => Cardinality(avant) = Cardinality(apres) + 1
<1>1. IsFiniteSet(avant) /\ IsFiniteSet(apres)
  BY FS_Subset
<1>2. Cardinality(avant) \in Nat /\ Cardinality(apres) \in Nat
  BY <1>1, FS_CardinalityType
<1>3. CASE t \in avant <=> t \in apres
  <2>1. apres = avant
    BY <1>3
  <2> QED BY <2>1, <1>2, <1>3
<1>4. CASE t \notin avant /\ t \in apres
  <2>1. apres = avant \union {t} /\ t \notin avant
    BY <1>4
  <2>2. Cardinality(apres) = Cardinality(avant) + 1
    BY ONLY <2>1, <1>1, FS_AddElement
  <2> QED BY <2>2, <1>2, <1>4
<1>5. CASE t \in avant /\ t \notin apres
  <2>1. avant = apres \union {t} /\ t \notin apres
    BY <1>5
  <2>2. Cardinality(avant) = Cardinality(apres) + 1
    BY ONLY <2>1, <1>1, FS_AddElement
  <2> QED BY <2>2, <1>2, <1>5
<1> QED BY <1>3, <1>4, <1>5

(* A walk of n steps that comes nowhere twice visits n places. *)
LEMMA SansRepetition ==
  ASSUME NEW n \in Nat, NEW m, \A i, j \in 0..n - 1 : m[i] = m[j] => i = j,
         NEW S, S = {m[i] : i \in 0..n - 1}
  PROVE  IsFiniteSet(S) /\ Cardinality(S) = n
<1> DEFINE I == 0..n - 1
           f == [i \in I |-> m[i]]
<1>1. IsFiniteSet(I) /\ Cardinality(I) = n
  BY FS_Interval
<1>2. f \in [I -> S] /\ \A i \in I : f[i] = m[i]
  OBVIOUS
<1>3. \A c \in S : \E i \in I : f[i] = c
  OBVIOUS
<1>4. \A i, j \in I : f[i] = f[j] => i = j
  BY <1>2
<1> HIDE DEF f, I
<1>5. f \in Bijection(I, S)
  BY <1>2, <1>3, <1>4 DEF Bijection, Injection, Surjection, IsInjective
<1>6. IsFiniteSet(S) /\ Cardinality(S) = Cardinality(I)
  BY <1>1, <1>5, FS_Bijection DEF ExistsBijection
<1> QED BY <1>1, <1>6

-----------------------------------------------------------------------------
(* The code scans a table for its first free slot.  No induction principle *)
(* with an operator for parameter is needed: < is well founded on Nat.     *)
LEMMA PlusPetit ==
  ASSUME NEW S, S \subseteq Nat, S # {}
  PROVE  Min(S) \in S /\ \A x \in S : Min(S) <= x
<1>1. PICK m \in S : \A k \in S : ~(<<k, m>> \in OpToRel(<, Nat))
  BY WFMin, NatLessThanWellFounded, Zenon
<1>2. \A k \in S : ~(k < m)
  BY <1>1, Zenon DEF OpToRel
<1>3. \A k \in S : m <= k
  BY <1>2
<1> QED BY <1>3 DEF Min

(* The last connection of a set of descriptors. *)
LEMMA PlusGrand ==
  ASSUME NEW S, S \subseteq Nat, S # {}, NEW borne \in Nat, \A x \in S : x <= borne
  PROVE  Max(S) \in S /\ \A x \in S : x <= Max(S)
<1> DEFINE R == {borne - x : x \in S}
<1>0. \A x \in S : borne - x \in Nat /\ borne - x \in R
  OBVIOUS
<1>1. R \subseteq Nat /\ R # {}
  BY <1>0
<1>2. Min(R) \in R /\ \A y \in R : Min(R) <= y
  BY <1>1, PlusPetit
<1>3. PICK m \in S : Min(R) = borne - m
  BY <1>2
<1>4. \A x \in S : borne - x \in R
  OBVIOUS
<1>5. \A x \in S : borne - m <= borne - x
  BY <1>2, <1>3, <1>4
<1>6. \A x \in S : m >= x
  BY <1>5
<1>7. Max(S) \in S /\ \A x \in S : Max(S) >= x
  BY <1>6 DEF Max
<1> QED BY <1>7

=============================================================================
