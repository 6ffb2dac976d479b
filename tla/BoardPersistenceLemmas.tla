---------------------- MODULE BoardPersistenceLemmas ----------------------
EXTENDS BoardPersistence, SequenceTheorems, WellFoundedInduction, TLAPS

\* A set of natural numbers with an upper bound.
Bounded(S) == \E n \in Nat : \A x \in S : x <= n

\* Every nonempty set of naturals has a least element.
LEMMA LeastNat ==
    ASSUME NEW S \in SUBSET Nat, S # {}
    PROVE  \E m \in S : \A x \in S : m <= x
  <1> DEFINE R == {ss \in Nat \X Nat : ss[1] < ss[2]}
  <1>1. IsWellFoundedOn(R, Nat)
    BY NatLessThanWellFounded DEF OpToRel
  <1>2. PICK m \in S : \A x \in S : <<x, m>> \notin R
    BY <1>1, WFMin, Zenon
  <1>3. \A x \in S : ~ (x < m)
    BY <1>2
  <1> QED  BY <1>2, <1>3

LEMMA MinIsLeast ==
    ASSUME NEW S \in SUBSET Nat, S # {}
    PROVE  Min(S) \in S /\ \A x \in S : Min(S) <= x
  BY LeastNat DEF Min

LEMMA MaxIsGreatest ==
    ASSUME NEW S \in SUBSET Nat, S # {}, Bounded(S)
    PROVE  Max(S) \in S /\ \A x \in S : x <= Max(S)
  <1> DEFINE U == {n \in Nat : \A x \in S : x <= n}
  <1>1. U \in SUBSET Nat /\ U # {}
    BY DEF Bounded
  <1>2. PICK m \in U : \A n \in U : m <= n
    BY <1>1, LeastNat
  <1>3. m \in S
    <2> SUFFICES ASSUME m \notin S PROVE FALSE
      OBVIOUS
    <2>1. \A x \in S : x < m
      BY <1>2
    <2>2. PICK y \in S : y < m
      BY <2>1
    <2>3. m - 1 \in Nat /\ \A x \in S : x <= m - 1
      BY <2>1, <2>2
    <2> QED  BY <1>2, <2>3
  <1>4. \E x \in S : \A y \in S : x >= y
    BY <1>2, <1>3
  <1> QED  BY <1>4 DEF Max

-----------------------------------------------------------------------------
\* The durable state is well formed, and its sets have the maxima it is read by.
DurableType ==
    /\ log \in SUBSET [seq : Nat \ {0}, update : Updates]
    /\ catalog \in SUBSET (Nat \ {0})
    /\ Bounded(catalog)
    /\ Bounded(SeqsOf(log))

\* Latest is the newest snapshot, and nothing else is.
LatestGood ==
    /\ Latest \in catalog \cup {0}
    /\ Latest \in Nat
    /\ \A s \in catalog : s <= Latest
    /\ \A m \in catalog \cup {0} : (\A s \in catalog : s <= m) => Latest = m

\* HighWater is the greatest number of a row or a snapshot, and nothing else is.
HighWaterGood ==
    /\ HighWater \in SeqsOf(log) \cup catalog \cup {0}
    /\ HighWater \in Nat
    /\ \A r \in log : r.seq <= HighWater
    /\ \A s \in catalog : s <= HighWater
    /\ Latest <= HighWater
    /\ \A m \in SeqsOf(log) \cup catalog \cup {0} :
          (\A r \in log : r.seq <= m) /\ (\A s \in catalog : s <= m) => HighWater = m

\* A load delivers the newest snapshot and all rows after it.
StoredGood ==
    Stored = BytesOf(Latest) \cup {r.update : r \in {q \in log : q.seq > Latest}}

LEMMA LatestLemma == DurableType => LatestGood
  <1> SUFFICES ASSUME DurableType PROVE LatestGood
    OBVIOUS
  <1>1. catalog \cup {0} \in SUBSET Nat /\ catalog \cup {0} # {}
    BY DEF DurableType
  <1>2. Bounded(catalog \cup {0})
    BY DEF DurableType, Bounded
  <1>3. Latest \in catalog \cup {0} /\ \A s \in catalog \cup {0} : s <= Latest
    BY <1>1, <1>2, MaxIsGreatest DEF Latest
  <1>4. ASSUME NEW m \in catalog \cup {0}, \A s \in catalog : s <= m
        PROVE  Latest = m
    BY <1>1, <1>3, <1>4
  <1> QED  BY <1>1, <1>3, <1>4 DEF LatestGood

LEMMA HighWaterLemma == DurableType => HighWaterGood
  <1> SUFFICES ASSUME DurableType PROVE HighWaterGood
    OBVIOUS
  <1> DEFINE S == SeqsOf(log) \cup catalog \cup {0}
  <1>1. \A r \in log : r.seq \in S /\ r.seq \in Nat
    BY DEF DurableType, SeqsOf
  <1>2. SeqsOf(log) \in SUBSET Nat
    BY <1>1 DEF SeqsOf
  <1>3. S \in SUBSET Nat /\ S # {}
    <2>1. catalog \in SUBSET Nat
      BY DEF DurableType
    <2>2. 0 \in Nat /\ 0 \in S
      OBVIOUS
    <2>3. S \in SUBSET Nat
      BY <1>2, <2>1, <2>2, Zenon
    <2> QED  BY <2>2, <2>3
  <1>4. Bounded(S)
    <2>1. PICK m \in Nat : \A x \in catalog : x <= m
      BY DEF DurableType, Bounded
    <2>2. PICK n \in Nat : \A x \in SeqsOf(log) : x <= n
      BY DEF DurableType, Bounded
    <2>3. m + n \in Nat /\ \A x \in S : x <= m + n
      BY <1>3, <2>1, <2>2
    <2> QED  BY <2>3 DEF Bounded
  <1>5. HighWater \in S /\ \A x \in S : x <= HighWater
    BY <1>3, <1>4, MaxIsGreatest DEF HighWater
  <1>6. ASSUME NEW m \in S, \A r \in log : r.seq <= m, \A s \in catalog : s <= m
        PROVE  HighWater = m
    <2>1. HighWater <= m
      <3>1. CASE HighWater \in SeqsOf(log)
        BY <1>6, <3>1 DEF SeqsOf
      <3>2. CASE HighWater \in catalog \cup {0}
        BY <1>3, <1>6, <3>2
      <3> QED  BY <1>5, <3>1, <3>2
    <2> QED  BY <1>3, <1>5, <2>1
  <1>7. Latest \in S
    BY LatestLemma DEF LatestGood
  <1> QED  BY <1>1, <1>3, <1>5, <1>6, <1>7 DEF HighWaterGood

LEMMA StoredLemma == DurableType => StoredGood
  <1> SUFFICES ASSUME DurableType PROVE StoredGood
    OBVIOUS
  <1>1. {q \in log : Latest < q.seq /\ q.seq <= HighWater} = {q \in log : q.seq > Latest}
    BY LatestLemma, HighWaterLemma DEF DurableType, LatestGood, HighWaterGood
  <1> QED  BY <1>1 DEF Stored, Since, StoredGood
=============================================================================
