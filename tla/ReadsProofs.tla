----------------------------- MODULE ReadsProofs -----------------------------
(***************************************************************************)
(* Theorems about LedgerReads: what is answered while the ledger grows is  *)
(* true, stays true, and is never an alarm about an honest ledger.         *)
(***************************************************************************)
EXTENDS LedgerReads, FiniteSetTheorems, FunctionTheorems, TLAPS

-----------------------------------------------------------------------------
(***************************************************************************)
(* Ranks.  A finite set whose members have different numbers is counted    *)
(* off by them.                                                            *)
(***************************************************************************)

Below(S, k, x) == {y \in S : k[y] < k[x]}

\* The members of a finite set have the ranks 0, 1, ... in the order of their numbers.
LEMMA Ranks ==
  ASSUME NEW S, IsFiniteSet(S), NEW k \in [S -> Nat],
         \A x, y \in S : k[x] = k[y] => x = y
  PROVE  /\ \A x \in S : Cardinality(Below(S, k, x)) \in 0 .. Cardinality(S) - 1
         /\ \A x, y \in S : k[x] < k[y] => Cardinality(Below(S, k, x)) < Cardinality(Below(S, k, y))
         /\ \A i \in 0 .. Cardinality(S) - 1 : \E x \in S : Cardinality(Below(S, k, x)) = i
<1>1. \A x \in S : /\ IsFiniteSet(Below(S, k, x)) /\ Cardinality(Below(S, k, x)) \in Nat
                   /\ Cardinality(Below(S, k, x)) < Cardinality(S)
  <2> TAKE x \in S
  <2>1. Below(S, k, x) \in SUBSET S /\ Below(S, k, x) # S
    BY DEF Below
  <2> QED
    BY <2>1, FS_Subset, FS_CardinalityType
<1>2. \A x, y \in S : k[x] < k[y] => Cardinality(Below(S, k, x)) < Cardinality(Below(S, k, y))
  <2> SUFFICES ASSUME NEW x \in S, NEW y \in S, k[x] < k[y]
               PROVE  Cardinality(Below(S, k, x)) < Cardinality(Below(S, k, y))
    OBVIOUS
  <2>1. Below(S, k, x) \in SUBSET Below(S, k, y) /\ x \in Below(S, k, y) /\ x \notin Below(S, k, x)
    BY DEF Below
  <2>2. Cardinality(Below(S, k, x)) <= Cardinality(Below(S, k, y))
        /\ Cardinality(Below(S, k, x)) # Cardinality(Below(S, k, y))
    BY <1>1, <2>1, FS_Subset
  <2> QED
    BY <1>1, <2>2
<1>3. \A i \in 0 .. Cardinality(S) - 1 : \E x \in S : Cardinality(Below(S, k, x)) = i
  <2> DEFINE T == 0 .. Cardinality(S) - 1
             f == [x \in S |-> Cardinality(Below(S, k, x))]
  <2>1. Cardinality(S) \in Nat
    BY FS_CardinalityType
  <2>2. f \in [S -> T]
    BY <1>1, <2>1
  <2>3. \A x, y \in S : f[x] = f[y] => x = y
    <3> SUFFICES ASSUME NEW x \in S, NEW y \in S, x # y PROVE f[x] # f[y]
      OBVIOUS
    <3>1. k[x] < k[y] \/ k[y] < k[x]
      OBVIOUS
    <3> QED
      BY <1>1, <1>2, <3>1
  <2>4. f \in Injection(S, T)
    BY <2>2, <2>3 DEF Injection, IsInjective
  <2>5. IsFiniteSet(T) /\ Cardinality(T) = Cardinality(S)
    BY <2>1, FS_Interval
  <2>6. f \in Surjection(S, T)
    BY <2>4, <2>5, FS_Injection
  <2>7. \A i \in T : \E x \in S : f[x] = i
    BY <2>6 DEF Surjection
  <2> QED
    BY <2>7
<1> QED
  BY <1>1, <1>2, <1>3, FS_CardinalityType

-----------------------------------------------------------------------------
(***************************************************************************)
(* Sets of events, as values: the state enters where they are used.        *)
(***************************************************************************)

IsLog(L) ==
  /\ IsFiniteSet(L)
  /\ \A e \in L : e.seq \in Nat \ {0}
  /\ \A e, f \in L : e.seq = f.seq => e = f

\* The events of a finite set have a first and a last one.
LEMMA HasEnds ==
  ASSUME NEW L, IsLog(L), L # {}
  PROVE  /\ \E e \in L : \A f \in L : e.seq <= f.seq
         /\ \E e \in L : \A f \in L : f.seq <= e.seq
<1> DEFINE k == [e \in L |-> e.seq]
<1>1. IsFiniteSet(L) /\ k \in [L -> Nat] /\ \A x, y \in L : k[x] = k[y] => x = y
  BY DEF IsLog
<1> HIDE DEF k
<1>2. /\ \A x \in L : Cardinality(Below(L, k, x)) \in 0 .. Cardinality(L) - 1
      /\ \A x, y \in L : k[x] < k[y] => Cardinality(Below(L, k, x)) < Cardinality(Below(L, k, y))
      /\ \A i \in 0 .. Cardinality(L) - 1 : \E x \in L : Cardinality(Below(L, k, x)) = i
  BY <1>1, Ranks
<1>3. Cardinality(L) \in Nat \ {0}
  BY <1>1, FS_CardinalityType, FS_EmptySet
<1>4. PICK x \in L : Cardinality(Below(L, k, x)) = 0
  BY <1>2, <1>3
<1>5. PICK y \in L : Cardinality(Below(L, k, y)) = Cardinality(L) - 1
  BY <1>2, <1>3
<1>6. \A f \in L : ~ (k[f] < k[x]) /\ ~ (k[y] < k[f])
  BY <1>2, <1>3, <1>4, <1>5
<1>7. \A f \in L : k[x] <= k[f] /\ k[f] <= k[y]
  BY <1>1, <1>6
<1> QED
  BY <1>7 DEF k

\* LastSeq is the number of the last event, and 0 without one.
LEMMA LastSeqIsLast ==
  ASSUME NEW L, IsLog(L)
  PROVE  /\ LastSeq(L) \in Nat
         /\ \A e \in L : e.seq <= LastSeq(L)
         /\ L # {} => \E e \in L : e.seq = LastSeq(L)
<1>1. CASE L = {}
  BY <1>1 DEF LastSeq
<1>2. CASE L # {}
  <2>1. PICK e \in L : \A f \in L : f.seq <= e.seq
    BY <1>2, HasEnds
  <2>2. e.seq \in {f.seq : f \in L} /\ \A f \in L : f.seq <= e.seq
    BY <2>1
  <2>3. LastSeq(L) \in {f.seq : f \in L} /\ \A f \in L : f.seq <= LastSeq(L)
    BY <1>2, <2>2 DEF LastSeq
  <2> QED
    BY <1>2, <2>3 DEF IsLog
<1> QED
  BY <1>1, <1>2

LEMMA PartOfLog ==
  ASSUME NEW L, IsLog(L), NEW S \in SUBSET L
  PROVE  IsLog(S)
BY FS_Subset DEF IsLog

\* The prefix of a log that ends with a given event of it.
LEMMA LastSeqOfPrefix ==
  ASSUME NEW L, IsLog(L), NEW e \in L
  PROVE  LastSeq({f \in L : f.seq <= e.seq}) = e.seq
<1> DEFINE S == {f \in L : f.seq <= e.seq}
<1>1. IsLog(S)
  BY PartOfLog
<1>2. e \in S /\ \A f \in S : f.seq <= e.seq
  BY DEF IsLog
<1> HIDE DEF S
<1>3. LastSeq(S) \in Nat /\ e.seq <= LastSeq(S) /\ \E f \in S : f.seq = LastSeq(S)
  BY <1>1, <1>2, LastSeqIsLast
<1>4. LastSeq(S) = e.seq
  BY <1>2, <1>3 DEF IsLog
<1> QED
  BY <1>4 DEF S

\* The first n events of a set are at most n, all that are not behind its last, and
\* the whole set if it has no more than n.
LEMMA OldestAreFirst ==
  ASSUME NEW S, IsLog(S), NEW n \in Nat \ {0}
  PROVE  /\ Oldest(n, S) \subseteq S
         /\ Cardinality(Oldest(n, S)) <= n
         /\ \A e \in Oldest(n, S), f \in S : f.seq <= e.seq => f \in Oldest(n, S)
         /\ S # {} => Oldest(n, S) # {}
         /\ Cardinality(S) <= n => Oldest(n, S) = S
<1> DEFINE k == [e \in S |-> e.seq]
           rank == [e \in Oldest(n, S) |-> Cardinality(Below(S, k, e))]
<1>1. IsFiniteSet(S) /\ k \in [S -> Nat] /\ \A x, y \in S : k[x] = k[y] => x = y
  BY DEF IsLog
<1>2. \A e \in S : Before(e.seq, S) = Below(S, k, e)
  BY DEF Before, Below
<1>3. Oldest(n, S) = {e \in S : Cardinality(Below(S, k, e)) < n}
  BY <1>2 DEF Oldest
<1>4. \A x, y \in S : x.seq <= y.seq <=> ~ (k[y] < k[x])
  BY DEF IsLog
<1> HIDE DEF k
<1>5. /\ \A x \in S : Cardinality(Below(S, k, x)) \in 0 .. Cardinality(S) - 1
      /\ \A x, y \in S : k[x] < k[y] => Cardinality(Below(S, k, x)) < Cardinality(Below(S, k, y))
      /\ \A i \in 0 .. Cardinality(S) - 1 : \E x \in S : Cardinality(Below(S, k, x)) = i
  BY <1>1, Ranks
<1>6. Cardinality(S) \in Nat
  BY <1>1, FS_CardinalityType
<1>7. Cardinality(Oldest(n, S)) <= n
  <2>1. IsFiniteSet(0 .. n - 1) /\ Cardinality(0 .. n - 1) = n
    BY FS_Interval
  <2>2. rank \in [Oldest(n, S) -> 0 .. n - 1]
    BY <1>3, <1>5, <1>6
  <2>3. \A x, y \in Oldest(n, S) : rank[x] = rank[y] => x = y
    <3> SUFFICES ASSUME NEW x \in Oldest(n, S), NEW y \in Oldest(n, S), x # y
                 PROVE  rank[x] # rank[y]
      OBVIOUS
    <3>1. x \in S /\ y \in S /\ (k[x] < k[y] \/ k[y] < k[x])
      BY <1>1, <1>3
    <3> QED
      BY <1>5, <1>6, <3>1
  <2>4. rank \in Injection(Oldest(n, S), 0 .. n - 1)
    BY <2>2, <2>3 DEF Injection, IsInjective
  <2> QED
    BY <2>1, <2>4, FS_Injection
<1>8. \A e \in Oldest(n, S), f \in S : f.seq <= e.seq => f \in Oldest(n, S)
  <2> SUFFICES ASSUME NEW e \in Oldest(n, S), NEW f \in S, f.seq <= e.seq
               PROVE  f \in Oldest(n, S)
    OBVIOUS
  <2>1. e \in S /\ Cardinality(Below(S, k, e)) < n
    BY <1>3
  <2>2. k[f] < k[e] \/ f = e
    BY <1>1, <1>4, <2>1
  <2>3. Cardinality(Below(S, k, f)) <= Cardinality(Below(S, k, e))
    BY <1>5, <1>6, <2>1, <2>2
  <2>4. Cardinality(Below(S, k, f)) < n
    BY <1>5, <1>6, <2>1, <2>3
  <2> QED
    BY <1>3, <2>4
<1>9. S # {} => Oldest(n, S) # {}
  <2> SUFFICES ASSUME S # {} PROVE Oldest(n, S) # {}
    OBVIOUS
  <2>1. 0 \in 0 .. Cardinality(S) - 1
    BY <1>1, <1>6, FS_EmptySet
  <2>2. PICK x \in S : Cardinality(Below(S, k, x)) = 0
    BY <1>5, <2>1
  <2> QED
    BY <1>3, <2>2
<1>10. Cardinality(S) <= n => Oldest(n, S) = S
  BY <1>3, <1>5, <1>6
<1> QED
  BY <1>3, <1>7, <1>8, <1>9, <1>10

-----------------------------------------------------------------------------
(***************************************************************************)
(* Chains of prefixes.                                                     *)
(***************************************************************************)

\* P is a set of prefixes of L, each up to one of its events.
IsChain(L, P) == IsLog(L) /\ \A p \in P : \E e \in p : p = {f \in L : f.seq <= e.seq}

\* Boundary(n), and the length of the chain, of any set of prefixes.
BoundaryIn(P, n) == UNION {p \in P : Cardinality({q \in P : q \subseteq p}) <= n}

Place(P, p) == Cardinality({q \in P : q \subseteq p})

LEMMA ChainIsOrdered ==
  ASSUME NEW L, NEW P, IsChain(L, P)
  PROVE  /\ IsFiniteSet(P) /\ Cardinality(P) \in Nat
         /\ \A p \in P : p \in SUBSET L /\ p # {}
         /\ \A p, q \in P : p \subseteq q \/ q \subseteq p
<1>1. \A p \in P : p \in SUBSET L /\ p # {}
  BY DEF IsChain
<1>2. IsFiniteSet(P) /\ Cardinality(P) \in Nat
  <2>1. P \in SUBSET (SUBSET L) /\ IsFiniteSet(SUBSET L)
    BY <1>1, FS_SUBSET DEF IsChain, IsLog
  <2> QED
    BY <2>1, FS_Subset, FS_CardinalityType
<1>3. \A p, q \in P : p \subseteq q \/ q \subseteq p
  <2> TAKE p \in P, q \in P
  <2>1. PICK e \in p : p = {f \in L : f.seq <= e.seq}
    BY DEF IsChain
  <2>2. PICK g \in q : q = {f \in L : f.seq <= g.seq}
    BY DEF IsChain
  <2>3. \A f \in L : f.seq \in Nat
    BY DEF IsChain, IsLog
  <2>4. e \in L /\ g \in L
    BY <1>1, <2>1, <2>2
  <2>5. CASE e.seq <= g.seq
    BY <2>1, <2>2, <2>3, <2>4, <2>5
  <2>6. CASE g.seq <= e.seq
    BY <2>1, <2>2, <2>3, <2>4, <2>6
  <2> QED
    BY <2>3, <2>4, <2>5, <2>6
<1> QED
  BY <1>1, <1>2, <1>3

\* A prefix has a place from 1 to the length of the chain, a longer prefix has a later
\* place, and no place is empty.
LEMMA Places ==
  ASSUME NEW L, NEW P, IsChain(L, P)
  PROVE  /\ \A p \in P : Place(P, p) \in 1 .. Cardinality(P)
         /\ \A p, q \in P : Place(P, q) <= Place(P, p) <=> q \subseteq p
         /\ \A n \in 1 .. Cardinality(P) : \E p \in P : Place(P, p) = n
<1> DEFINE k == [p \in P |-> Cardinality(p)]
<1>1. /\ IsFiniteSet(P) /\ Cardinality(P) \in Nat
      /\ \A p \in P : p \in SUBSET L
      /\ \A p, q \in P : p \subseteq q \/ q \subseteq p
  BY ChainIsOrdered
<1>2. \A p \in P : IsFiniteSet(p) /\ Cardinality(p) \in Nat
  BY <1>1, FS_Subset, FS_CardinalityType DEF IsChain, IsLog
<1>3. \A p, q \in P : p \subseteq q => Cardinality(p) <= Cardinality(q)
  BY <1>2, FS_Subset
<1>4. \A p, q \in P : p \subseteq q /\ Cardinality(p) = Cardinality(q) => p = q
  BY <1>2, FS_Subset
<1>5. k \in [P -> Nat] /\ \A p, q \in P : k[p] = k[q] => p = q
  BY <1>1, <1>2, <1>4
<1>6. \A p, q \in P : q \subseteq p <=> k[q] < k[p] \/ q = p
  <2> TAKE p \in P, q \in P
  <2>1. CASE q \subseteq p
    BY <1>2, <1>3, <1>4, <2>1
  <2>2. CASE ~ (q \subseteq p)
    <3>1. p \subseteq q /\ q # p
      BY <1>1, <2>2
    <3>2. Cardinality(p) <= Cardinality(q)
      BY <1>3, <3>1
    <3> QED
      BY <1>2, <2>2, <3>1, <3>2
  <2> QED
    BY <2>1, <2>2
<1> HIDE DEF k
<1>7. /\ \A x \in P : Cardinality(Below(P, k, x)) \in 0 .. Cardinality(P) - 1
      /\ \A x, y \in P : k[x] < k[y] => Cardinality(Below(P, k, x)) < Cardinality(Below(P, k, y))
      /\ \A i \in 0 .. Cardinality(P) - 1 : \E x \in P : Cardinality(Below(P, k, x)) = i
  BY <1>1, <1>5, Ranks
<1>8. \A p \in P : Place(P, p) = Cardinality(Below(P, k, p)) + 1
  <2> TAKE p \in P
  <2>1. {q \in P : q \subseteq p} = Below(P, k, p) \cup {p}
    BY <1>6 DEF Below
  <2>2. p \notin Below(P, k, p)
    BY <1>5 DEF Below
  <2>3. IsFiniteSet(Below(P, k, p))
    BY <1>1, FS_Subset DEF Below
  <2> QED
    BY <2>1, <2>2, <2>3, FS_AddElement DEF Place
<1>9. \A p \in P : Place(P, p) \in 1 .. Cardinality(P)
  BY <1>1, <1>7, <1>8
<1>10. \A p, q \in P : Place(P, q) <= Place(P, p) <=> q \subseteq p
  <2> TAKE p \in P, q \in P
  <2>1. k[q] < k[p] \/ k[p] < k[q] \/ p = q
    BY <1>5
  <2>2. /\ Place(P, p) \in Nat /\ Place(P, q) \in Nat
        /\ k[q] < k[p] => Place(P, q) < Place(P, p)
        /\ k[p] < k[q] => Place(P, p) < Place(P, q)
    BY <1>1, <1>7, <1>8, <1>9
  <2>3. k[p] < k[q] => ~ (k[q] < k[p]) /\ q # p
    BY <1>5
  <2> QED
    BY <1>6, <2>1, <2>2, <2>3
<1>11. \A n \in 1 .. Cardinality(P) : \E p \in P : Place(P, p) = n
  <2> TAKE n \in 1 .. Cardinality(P)
  <2>1. n - 1 \in 0 .. Cardinality(P) - 1
    BY <1>1
  <2>2. PICK p \in P : Cardinality(Below(P, k, p)) = n - 1
    BY <1>7, <2>1
  <2> QED
    BY <1>8, <2>2
<1> QED
  BY <1>9, <1>10, <1>11

\* The boundary of checkpoint n is the n-th prefix, empty for n = 0.
LEMMA BoundaryHasPlace ==
  ASSUME NEW L, NEW P, IsChain(L, P)
  PROVE  /\ BoundaryIn(P, 0) = {}
         /\ \A p \in P : BoundaryIn(P, Place(P, p)) = p
         /\ \A n \in 1 .. Cardinality(P) : BoundaryIn(P, n) \in P /\ Place(P, BoundaryIn(P, n)) = n
         /\ \A m, n \in 0 .. Cardinality(P) :
              m < n => BoundaryIn(P, m) \subseteq BoundaryIn(P, n) /\ BoundaryIn(P, m) # BoundaryIn(P, n)
<1>1. /\ \A p \in P : Place(P, p) \in 1 .. Cardinality(P)
      /\ \A p, q \in P : Place(P, q) <= Place(P, p) <=> q \subseteq p
      /\ \A n \in 1 .. Cardinality(P) : \E p \in P : Place(P, p) = n
  BY Places
<1>2. Cardinality(P) \in Nat /\ \A p \in P : p # {}
  BY ChainIsOrdered
<1>3. \A n : BoundaryIn(P, n) = UNION {p \in P : Place(P, p) <= n}
  BY DEF BoundaryIn, Place
<1>4. BoundaryIn(P, 0) = {}
  <2>1. {p \in P : Place(P, p) <= 0} = {}
    BY <1>1, <1>2
  <2> QED
    BY <1>3, <2>1
<1>5. \A p \in P : BoundaryIn(P, Place(P, p)) = p
  <2> TAKE p \in P
  <2>1. {q \in P : Place(P, q) <= Place(P, p)} = {q \in P : q \subseteq p}
    BY <1>1
  <2>2. UNION {q \in P : q \subseteq p} = p
    OBVIOUS
  <2>3. BoundaryIn(P, Place(P, p)) = UNION {q \in P : Place(P, q) <= Place(P, p)}
    BY <1>3
  <2> QED
    BY <2>1, <2>2, <2>3
<1>6. \A n \in 1 .. Cardinality(P) : BoundaryIn(P, n) \in P /\ Place(P, BoundaryIn(P, n)) = n
  BY <1>1, <1>5
<1>7. ASSUME NEW m \in 0 .. Cardinality(P), NEW n \in 0 .. Cardinality(P), m < n
      PROVE  BoundaryIn(P, m) \subseteq BoundaryIn(P, n) /\ BoundaryIn(P, m) # BoundaryIn(P, n)
  <2>1. BoundaryIn(P, n) \in P /\ Place(P, BoundaryIn(P, n)) = n
    BY <1>2, <1>6, <1>7
  <2>2. CASE m = 0
    BY <1>2, <1>4, <2>1, <2>2
  <2>3. CASE m # 0
    <3>1. BoundaryIn(P, m) \in P /\ Place(P, BoundaryIn(P, m)) = m
      BY <1>2, <1>6, <2>3
    <3> QED
      BY <1>1, <1>2, <1>7, <2>1, <3>1
  <2> QED
    BY <2>2, <2>3
<1> QED
  BY <1>4, <1>5, <1>6, <1>7

\* The rows up to the last number of a boundary are the boundary.
LEMMA BoundaryHasItsRows ==
  ASSUME NEW L, NEW P, IsChain(L, P), NEW n \in 0 .. Cardinality(P)
  PROVE  /\ BoundaryIn(P, n) \in SUBSET L /\ IsLog(BoundaryIn(P, n))
         /\ BoundaryIn(P, n) = {e \in L : e.seq <= LastSeq(BoundaryIn(P, n))}
<1>1. IsLog(L)
  BY DEF IsChain
<1>2. CASE n = 0
  <2>1. BoundaryIn(P, n) = {} /\ LastSeq({}) = 0
    BY <1>2, BoundaryHasPlace DEF LastSeq
  <2>2. \A e \in L : ~ (e.seq <= 0)
    BY <1>1 DEF IsLog
  <2> QED
    BY <1>1, <2>1, <2>2, PartOfLog
<1>3. CASE n # 0
  <2>1. BoundaryIn(P, n) \in P
    BY <1>3, BoundaryHasPlace, ChainIsOrdered
  <2>2. BoundaryIn(P, n) \in SUBSET L
    BY <2>1, ChainIsOrdered
  <2>3. PICK e \in BoundaryIn(P, n) : BoundaryIn(P, n) = {f \in L : f.seq <= e.seq}
    BY <2>1 DEF IsChain
  <2>4. LastSeq(BoundaryIn(P, n)) = e.seq
    BY <1>1, <2>2, <2>3, LastSeqOfPrefix
  <2> QED
    BY <1>1, <2>2, <2>3, <2>4, PartOfLog
<1> QED
  BY <1>2, <1>3

\* Sealing a longer prefix adds one checkpoint at the end and moves no boundary.
LEMMA ChainGrows ==
  ASSUME NEW L, NEW P, IsChain(L, P), NEW S, \A p \in P : p \subseteq S /\ p # S
  PROVE  /\ Cardinality(P \cup {S}) = Cardinality(P) + 1
         /\ \A n \in 0 .. Cardinality(P) : BoundaryIn(P \cup {S}, n) = BoundaryIn(P, n)
<1>1. IsFiniteSet(P) /\ Cardinality(P) \in Nat
  BY ChainIsOrdered
<1>2. Cardinality(P \cup {S}) = Cardinality(P) + 1
  BY <1>1, FS_AddElement
<1> DEFINE Q == P \cup {S}
<1>3. \A p \in P : Place(Q, p) = Place(P, p)
  <2> TAKE p \in P
  <2>1. {q \in Q : q \subseteq p} = {q \in P : q \subseteq p}
    OBVIOUS
  <2> QED
    BY <2>1 DEF Place
<1>4. Place(Q, S) = Cardinality(P) + 1
  <2>1. {q \in Q : q \subseteq S} = Q
    OBVIOUS
  <2> QED
    BY <1>2, <2>1 DEF Place
<1>5. ASSUME NEW n \in 0 .. Cardinality(P)
      PROVE  BoundaryIn(Q, n) = BoundaryIn(P, n)
  <2>1. ~ (Place(Q, S) <= n)
    BY <1>1, <1>4
  <2>2. {p \in Q : Place(Q, p) <= n} = {p \in P : Place(P, p) <= n}
    BY <1>3, <2>1
  <2>3. BoundaryIn(Q, n) = UNION {p \in Q : Place(Q, p) <= n}
    BY DEF BoundaryIn, Place
  <2>4. BoundaryIn(P, n) = UNION {p \in P : Place(P, p) <= n}
    BY DEF BoundaryIn, Place
  <2> QED
    BY <2>2, <2>3, <2>4
<1> QED
  BY <1>2, <1>5

-----------------------------------------------------------------------------
(***************************************************************************)
(* The ledger grows at its ends.                                           *)
(***************************************************************************)

LedgerOK ==
  /\ log \subseteq Rows
  /\ prefixes \subseteq SUBSET log
  /\ signedBy \in [prefixes -> Versions]
  /\ LogIsOfLines
  /\ PrefixesHaveEnds

LEMMA LedgerIsChain == LedgerOK => IsLog(log) /\ IsChain(log, prefixes)
BY ReadsAssumption DEF LedgerOK, LogIsOfLines, PrefixesHaveEnds, IsLog, IsChain

\* What a reader finds in the chain.
LEMMA Boundaries ==
  ASSUME LedgerOK
  PROVE  /\ ChainLength \in Nat
         /\ Boundary(0) = {}
         /\ \A n \in 0 .. ChainLength :
              /\ Boundary(n) \in SUBSET log /\ IsLog(Boundary(n))
              /\ Cardinality(Boundary(n)) \in Nat
              /\ PrefixRows(n) = Boundary(n)
         /\ \A n \in 1 .. ChainLength : Boundary(n) \in prefixes /\ Boundary(n) # {}
         /\ \A m, n \in 0 .. ChainLength :
              m < n => /\ Boundary(m) \subseteq Boundary(n) /\ Boundary(m) # Boundary(n)
                       /\ Cardinality(Boundary(m)) < Cardinality(Boundary(n))
<1>1. IsLog(log) /\ IsChain(log, prefixes)
  BY LedgerIsChain
<1>2. \A n : Boundary(n) = BoundaryIn(prefixes, n)
  BY DEF Boundary, BoundaryIn
<1>3. ChainLength = Cardinality(prefixes)
  BY DEF ChainLength
<1> HIDE DEF ChainLength
<1>4. ChainLength \in Nat
  BY <1>1, <1>3, ChainIsOrdered
<1>5. Boundary(0) = {}
  BY <1>1, <1>2, BoundaryHasPlace
<1>6. \A n \in 1 .. ChainLength : Boundary(n) \in prefixes
  BY <1>1, <1>2, <1>3, BoundaryHasPlace
<1>7. \A n \in 0 .. ChainLength : /\ Boundary(n) \in SUBSET log /\ IsLog(Boundary(n))
                                  /\ Boundary(n) = {e \in log : e.seq <= LastSeq(Boundary(n))}
  BY <1>1, <1>2, <1>3, BoundaryHasItsRows
<1>8. \A n \in 0 .. ChainLength : IsFiniteSet(Boundary(n)) /\ Cardinality(Boundary(n)) \in Nat
  BY <1>7, FS_CardinalityType DEF IsLog
<1>9. \A n \in 1 .. ChainLength : Boundary(n) # {}
  BY <1>1, <1>6, ChainIsOrdered
<1>10. \A m, n \in 0 .. ChainLength :
         m < n => Boundary(m) \subseteq Boundary(n) /\ Boundary(m) # Boundary(n)
  BY <1>1, <1>2, <1>3, BoundaryHasPlace
<1>11. ASSUME NEW m \in 0 .. ChainLength, NEW n \in 0 .. ChainLength, m < n
       PROVE  Cardinality(Boundary(m)) < Cardinality(Boundary(n))
  <2>1. Boundary(m) \in SUBSET Boundary(n) /\ Boundary(m) # Boundary(n)
    BY <1>10, <1>11
  <2>2. Cardinality(Boundary(m)) <= Cardinality(Boundary(n))
        /\ Cardinality(Boundary(m)) # Cardinality(Boundary(n))
    BY <1>8, <2>1, FS_Subset
  <2> QED
    BY <1>8, <2>2
<1> QED
  BY <1>4, <1>5, <1>6, <1>7, <1>8, <1>9, <1>10, <1>11 DEF PrefixRows

\* How the ledger differs from one statement to a later one.
Growth ==
  /\ log \subseteq log'
  /\ ChainLength' \in Nat /\ ChainLength <= ChainLength'
  /\ \A n \in 0 .. ChainLength : Boundary(n)' = Boundary(n)
  /\ \A n \in 1 .. ChainLength : signedBy'[Boundary(n)] = signedBy[Boundary(n)]
  /\ \A e \in log' \ log, f \in log : f.record = e.record => f.seq < e.seq

\* A commit appends one event, the last of its record.
LEMMA CommitExtendsItsRecord ==
  ASSUME LedgerOK, NEW x \in Rows \ log, log' = log \cup {x}, AppendEvents
  PROVE  /\ \A f \in log : f.record = x.record => f.seq < x.seq
         /\ LogIsOfLines'
<1>1. /\ IsFiniteSet(log') /\ x.seq \in Nat /\ x.seq # 0
      /\ \A f \in log : f.seq \in Nat /\ f.seq # 0
  BY LedgerIsChain, FS_AddElement, ReadsAssumption DEF IsLog
<1>2. /\ \A f \in log' : f.seq = x.seq => f = x
      /\ IF x.parent = 0 THEN x.record = x.seq
         ELSE /\ \E p \in log : /\ p.seq = x.parent /\ p.seq < x.seq
                              /\ p.record = x.record /\ p.type # "revocation"
              /\ \A f \in log' : f.parent = x.parent => f = x
  <2>1. x \in log' \ log
    OBVIOUS
  <2> QED
    BY <2>1 DEF AppendEvents
<1>3. \A f \in log : f.seq # x.seq
  BY <1>2
<1>4. \/ x.parent = 0 /\ x.record = x.seq
      \/ /\ x.parent # 0 /\ \A f \in log : f.parent # x.parent
         /\ \E p \in log : /\ p.seq = x.parent /\ p.seq < x.seq
                           /\ p.record = x.record /\ p.type # "revocation"
  BY <1>2
<1>5. ASSUME NEW f \in log, f.record = x.record PROVE f.seq < x.seq /\ x.parent # 0
                                                       /\ f.seq <= x.parent
  <2>1. PICK root \in log : root.seq = f.record
    BY DEF LedgerOK, LogIsOfLines
  <2>2. x.parent # 0
    BY <1>3, <1>4, <1>5, <2>1
  <2>3. PICK p \in log : /\ p.seq = x.parent /\ p.seq < x.seq /\ p.record = x.record
                         /\ \A g \in log : g.parent # p.seq
    BY <1>4, <2>2
  <2>4. ~ (p.seq < f.seq)
    BY <1>5, <2>3 DEF LedgerOK, LogIsOfLines
  <2>5. f.seq \in Nat /\ p.seq \in Nat
    BY <1>1
  <2> QED
    BY <1>1, <2>2, <2>3, <2>4, <2>5
<1>6. \A e, f \in log' : e.seq = f.seq => e = f
  BY <1>3 DEF LedgerOK, LogIsOfLines
<1>7. ASSUME NEW e \in log'
      PROVE  /\ \E f \in log' : f.seq = e.record
             /\ IF e.parent = 0 THEN e.record = e.seq
                ELSE \E p \in log' : /\ p.seq = e.parent /\ p.seq < e.seq
                                     /\ p.record = e.record /\ p.type # "revocation"
  <2>1. CASE e \in log
    BY <2>1 DEF LedgerOK, LogIsOfLines
  <2>2. CASE e = x /\ x.parent = 0
    BY <1>4, <2>2
  <2>3. CASE e = x /\ x.parent # 0
    <3>1. PICK p \in log : /\ p.seq = x.parent /\ p.seq < x.seq
                           /\ p.record = x.record /\ p.type # "revocation"
      BY <1>4, <2>3
    <3>2. PICK root \in log : root.seq = p.record
      BY DEF LedgerOK, LogIsOfLines
    <3> QED
      BY <2>3, <3>1, <3>2
  <2> QED
    BY <2>1, <2>2, <2>3
<1>8. ASSUME NEW e \in log', NEW f \in log', e.record = f.record, e.seq < f.seq
      PROVE  \E g \in log' : g.parent = e.seq /\ g.record = e.record
  <2>1. CASE e \in log /\ f \in log
    BY <1>8, <2>1 DEF LedgerOK, LogIsOfLines
  <2>2. CASE e = x
    <3>1. f \in log
      BY <1>1, <1>8, <2>2
    <3> QED
      BY <1>1, <1>5, <1>8, <2>2, <3>1
  <2>3. CASE e \in log /\ f = x
    <3>1. e.seq <= x.parent /\ x.parent # 0
      BY <1>5, <1>8, <2>3
    <3>2. PICK p \in log : p.seq = x.parent /\ p.record = x.record
      BY <1>4, <3>1
    <3>3. CASE e.seq = p.seq
      BY <1>8, <2>3, <3>2, <3>3
    <3>4. CASE e.seq < p.seq
      BY <1>8, <2>3, <3>2, <3>4 DEF LedgerOK, LogIsOfLines
    <3>5. e.seq \in Nat /\ p.seq \in Nat
      BY <1>1, <2>3
    <3> QED
      BY <3>1, <3>2, <3>3, <3>4, <3>5
  <2> QED
    BY <2>1, <2>2, <2>3
<1>9. \A f \in log : f.record = x.record => f.seq < x.seq
  BY <1>5
<1>10. LogIsOfLines'
  BY <1>1, <1>6, <1>7, <1>8 DEF LogIsOfLines
<1> QED
  BY <1>9, <1>10

LEMMA CommitGrows ==
  ASSUME LedgerOK, CommitEvent
  PROVE  LedgerOK' /\ Growth
<1>1. PICK x \in Rows \ log : log' = log \cup {x}
  BY DEF CommitEvent
<1>2. /\ AppendEvents /\ UNCHANGED signedBy /\ UNCHANGED prefixes
  BY DEF CommitEvent, AppendEvents
<1>3. (\A f \in log : f.record = x.record => f.seq < x.seq) /\ LogIsOfLines'
  BY <1>1, <1>2, CommitExtendsItsRecord
<1>4. \A f \in UNION prefixes : f.seq < x.seq
  <2>1. x \in log' \ log
    BY <1>1
  <2> QED
    BY <1>2, <2>1 DEF AppendEvents, Sealed
<1>5. PrefixesHaveEnds'
  <2> SUFFICES ASSUME NEW p \in prefixes
               PROVE  \E e \in p : p = {f \in log' : f.seq <= e.seq}
    BY <1>2 DEF PrefixesHaveEnds
  <2>1. PICK e \in p : p = {f \in log : f.seq <= e.seq}
    BY DEF LedgerOK, PrefixesHaveEnds
  <2>2. e.seq < x.seq /\ e \in log
    BY <1>4, <2>1
  <2>3. e.seq \in Nat /\ x.seq \in Nat
    BY <2>2, LedgerIsChain, ReadsAssumption DEF IsLog
  <2>4. ~ (x.seq <= e.seq)
    BY <2>2, <2>3
  <2>5. {f \in log' : f.seq <= e.seq} = {f \in log : f.seq <= e.seq}
    BY <1>1, <2>4
  <2> QED
    BY <2>1, <2>5
<1>6. LedgerOK'
  BY <1>1, <1>2, <1>3, <1>5 DEF LedgerOK
<1>7. ChainLength' = ChainLength /\ \A n : Boundary(n)' = Boundary(n)
  BY <1>2 DEF ChainLength, Boundary
<1>8. ChainLength \in Nat
  BY Boundaries
<1> QED
  BY <1>1, <1>2, <1>3, <1>6, <1>7, <1>8 DEF Growth

LEMMA SealGrows ==
  ASSUME LedgerOK, SealCheckpoint
  PROVE  LedgerOK' /\ Growth
<1>1. PICK e \in log \ Sealed, v \in Versions :
        /\ prefixes' = prefixes \cup {{f \in log : f.seq <= e.seq}}
        /\ signedBy' = [p \in prefixes' |-> IF p \in prefixes THEN signedBy[p] ELSE v]
  BY DEF SealCheckpoint
<1>2. UNCHANGED log
  BY DEF SealCheckpoint, SealPrefix
<1> DEFINE S == {f \in log : f.seq <= e.seq}
<1>3. IsLog(log) /\ IsChain(log, prefixes) /\ \A f \in log : f.seq \in Nat
  BY LedgerIsChain DEF IsLog
<1>4. e \in S
  BY <1>3
<1>5. \A p \in prefixes : p \subseteq S /\ p # S
  <2> SUFFICES ASSUME NEW p \in prefixes PROVE p \subseteq S /\ p # S
    OBVIOUS
  <2>1. PICK g \in p : p = {f \in log : f.seq <= g.seq}
    BY DEF LedgerOK, PrefixesHaveEnds
  <2>2. g \in log /\ e \notin p
    BY <1>1, <2>1 DEF Sealed
  <2>3. ~ (e.seq <= g.seq)
    BY <1>1, <2>1, <2>2
  <2>4. \A f \in log : f.seq <= g.seq => f.seq <= e.seq
    BY <1>1, <1>3, <2>2, <2>3
  <2> QED
    BY <1>4, <2>1, <2>2, <2>4
<1>6. prefixes' = prefixes \cup {S} /\ S \subseteq log
  BY <1>1
<1>7. \A p \in prefixes' : \E g \in p : p = {f \in log' : f.seq <= g.seq}
  <2>1. \A p \in prefixes : \E g \in p : p = {f \in log : f.seq <= g.seq}
    BY DEF LedgerOK, PrefixesHaveEnds
  <2>2. S = {f \in log : f.seq <= e.seq}
    OBVIOUS
  <2> HIDE DEF S
  <2> QED
    BY <1>2, <1>4, <1>6, <2>1, <2>2
<1> HIDE DEF S
<1>8. /\ Cardinality(prefixes') = Cardinality(prefixes) + 1
      /\ \A n \in 0 .. Cardinality(prefixes) : BoundaryIn(prefixes', n) = BoundaryIn(prefixes, n)
  BY <1>3, <1>5, <1>6, ChainGrows
<1>9. LogIsOfLines'
  BY <1>2 DEF LedgerOK, LogIsOfLines
<1>10. signedBy' \in [prefixes' -> Versions]
  BY <1>1 DEF LedgerOK
<1>11. LedgerOK'
  BY <1>2, <1>6, <1>7, <1>9, <1>10 DEF LedgerOK, PrefixesHaveEnds
<1>12. /\ ChainLength \in Nat /\ ChainLength = Cardinality(prefixes)
       /\ ChainLength' = Cardinality(prefixes')
  BY Boundaries DEF ChainLength
<1>13. \A n \in 0 .. ChainLength : Boundary(n)' = Boundary(n)
  BY <1>8, <1>12 DEF Boundary, BoundaryIn
<1>14. \A n \in 1 .. ChainLength : signedBy'[Boundary(n)] = signedBy[Boundary(n)]
  BY <1>1, Boundaries
<1> QED
  BY <1>2, <1>8, <1>11, <1>12, <1>13, <1>14 DEF Growth

\* The ledger of two successive states, whoever acted.
LEMMA LedgerStepsGrow ==
  ASSUME LedgerOK, CommitEvent \/ SealCheckpoint \/ UNCHANGED ledgerVars
  PROVE  LedgerOK' /\ Growth
<1>1. CASE UNCHANGED ledgerVars
  <2>1. LedgerOK'
    BY <1>1 DEF ledgerVars, LedgerOK, LogIsOfLines, PrefixesHaveEnds
  <2>2. ChainLength' = ChainLength /\ ChainLength \in Nat /\ \A n : Boundary(n)' = Boundary(n)
    BY <1>1, Boundaries DEF ledgerVars, ChainLength, Boundary
  <2> QED
    BY <1>1, <2>1, <2>2 DEF ledgerVars, Growth
<1> QED
  BY <1>1, CommitGrows, SealGrows

-----------------------------------------------------------------------------
(***************************************************************************)
(* What was true of a request or an answer stays true while the ledger     *)
(* grows.                                                                  *)
(***************************************************************************)

LEMMA PlacesStay ==
  ASSUME LedgerOK, Growth
  PROVE  /\ ChainLength \in Nat /\ ChainLength' \in Nat
         /\ \A n \in 1 .. ChainLength :
              /\ n \in 1 .. ChainLength' /\ n \in 0 .. ChainLength /\ n - 1 \in 0 .. ChainLength
              /\ Boundary(n)' = Boundary(n) /\ Boundary(n - 1)' = Boundary(n - 1)
              /\ Increment(n)' = Increment(n) /\ IncrementStart(n)' = IncrementStart(n)
<1>1. ChainLength \in Nat /\ ChainLength' \in Nat /\ ChainLength <= ChainLength'
  BY Boundaries DEF Growth
<1>2. \A n \in 1 .. ChainLength :
        n \in 1 .. ChainLength' /\ n \in 0 .. ChainLength /\ n - 1 \in 0 .. ChainLength
  BY <1>1
<1>3. \A n \in 0 .. ChainLength : Boundary(n)' = Boundary(n)
  BY DEF Growth
<1>4. ASSUME NEW n \in 1 .. ChainLength
      PROVE  /\ Boundary(n)' = Boundary(n) /\ Boundary(n - 1)' = Boundary(n - 1)
             /\ Increment(n)' = Increment(n) /\ IncrementStart(n)' = IncrementStart(n)
  BY <1>2, <1>3 DEF Increment, IncrementStart
<1> QED
  BY <1>1, <1>2, <1>4

LEMMA WitnessesStay ==
  ASSUME LedgerOK, Growth, NEW i, i.checkpoint \in 0 .. ChainLength, Witnessed(i)
  PROVE  Witnessed(i)'
BY DEF Growth, Witnessed

LEMMA CollectedStays ==
  ASSUME LedgerOK, Growth, NEW q, q.at \in 1 .. ChainLength
  PROVE  Collected(q)' = Collected(q)
BY PlacesStay DEF Collected

LEMMA QueriesStayExact ==
  ASSUME LedgerOK, Growth, NEW label, NEW q, QueryIsExact(label, q)
  PROVE  QueryIsExact(label, q)'
<1>1. q.asked.kind \in Serves(label)
      /\ (q.asked.kind \in {"checkpoint", "page", "bundle"} => q.at = q.asked.at)
  BY DEF QueryIsExact
<1>2. label = "newest" => WithSeq(q.asked.subject)' # {}
  BY DEF QueryIsExact, WithSeq, Growth
<1>3. ASSUME q.asked.kind = "bundle" PROVE BundleIsExact(label, q)'
  <2>1. BundleIsExact(label, q) /\ q.at = q.asked.at
    BY <1>1, <1>3 DEF QueryIsExact
  <2>2. q.at \in 1 .. ChainLength /\ q.at \in 1 .. ChainLength' /\ q.at \in 0 .. ChainLength
    BY <2>1, PlacesStay DEF BundleIsExact
  <2>3. Collected(q.asked)' = Collected(q.asked)
    BY <2>1, <2>2, CollectedStays
  <2>4. label \in {"prefix", "previous"} => \A i \in q.items : i.checkpoint = q.at /\ Witnessed(i)'
    BY <2>1, <2>2, WitnessesStay DEF BundleIsExact
  <2> QED
    BY <2>1, <2>2, <2>3, <2>4 DEF BundleIsExact
<1>4. ASSUME label \in {"prefix", "previous"}
      PROVE  /\ q.at \in 1 .. ChainLength'
             /\ q.asked.kind = "receipt" => \E e \in Boundary(q.at)' : e.seq = q.asked.subject
             /\ ~ Misplaced(q.asked)'
             /\ Boundary(q.at)' = Boundary(q.at)
  <2>1. q.at \in 1 .. ChainLength /\ ~ Misplaced(q.asked)
        /\ (q.asked.kind = "receipt" => \E e \in Boundary(q.at) : e.seq = q.asked.subject)
    BY <1>4 DEF QueryIsExact
  <2>2. q.at \in 1 .. ChainLength' /\ Boundary(q.at)' = Boundary(q.at)
        /\ IncrementStart(q.at)' = IncrementStart(q.at)
    BY <2>1, PlacesStay
  <2>3. ~ Misplaced(q.asked)'
    <3>1. CASE q.asked.kind # "page"
      BY <3>1 DEF Misplaced
    <3>2. CASE q.asked.kind = "page"
      <4>1. q.asked.at = q.at
        BY <1>1, <3>2
      <4> QED
        BY <2>1, <2>2, <4>1 DEF Misplaced, Cursor
    <3> QED
      BY <3>1, <3>2
  <2> QED
    BY <2>1, <2>2, <2>3
<1>5. q.asked.kind # "bundle" => q.rest = {} /\ q.items = {}
  BY DEF QueryIsExact
<1>6. label = "previous" => q.at # 1 /\ q.prefix = Boundary(q.at)
  BY DEF QueryIsExact
<1> QED
  BY <1>1, <1>2, <1>3, <1>4, <1>5, <1>6 DEF QueryIsExact

LEMMA HistoriesStay ==
  ASSUME LedgerOK, LedgerOK', Growth, NEW subject, NEW last, NEW events,
         events = {e \in log : e.record = subject /\ e.seq <= last},
         \E e \in events : e.seq = last, HistoryIsLine(subject, events, last)
  PROVE  /\ HistoryIsLine(subject, events, last)'
         /\ events = {e \in log' : e.record = subject /\ e.seq <= last}
<1>1. PICK g \in events : g.seq = last
  OBVIOUS
<1>2. /\ \A e \in log' \ log, f \in log : f.record = e.record => f.seq < e.seq
      /\ log \subseteq log' /\ IsLog(log')
  BY ReadsAssumption DEF Growth, LedgerOK, LogIsOfLines, IsLog
<1>3. events = {e \in log' : e.record = subject /\ e.seq <= last}
  <2>1. ASSUME NEW e \in log' \ log, e.record = subject PROVE ~ (e.seq <= last)
    <3>1. g.seq < e.seq /\ g \in log' /\ e \in log'
      BY <1>1, <1>2, <2>1
    <3> QED
      BY <1>1, <1>2, <3>1 DEF IsLog
  <2> QED
    BY <1>2, <2>1
<1>4. ASSUME NEW e \in events, e.type = "revocation", NEW f \in log'
      PROVE  f.parent # e.seq
  <2>1. e \in log' /\ e.seq # 0
    BY <1>2 DEF IsLog
  <2>2. \A p, h \in log' : p.seq = h.seq => p = h
    BY <1>2 DEF IsLog
  <2>3. f.parent # 0 => \E p \in log' : p.seq = f.parent /\ p.type # "revocation"
    BY DEF LedgerOK, LogIsOfLines
  <2> QED
    BY <1>4, <2>1, <2>2, <2>3
<1>5. \A e \in events : e.seq # last => \E f \in events : f.parent = e.seq
  BY DEF HistoryIsLine
<1>6. HistoryIsLine(subject, events, last)'
  BY <1>3, <1>4, <1>5 DEF HistoryIsLine
<1> QED
  BY <1>3, <1>6

LEMMA AnswersStayExact ==
  ASSUME LedgerOK, LedgerOK', Growth, NEW a, AnswerIsTrue(a), AnswerIsPlaced(a),
         \A i \in a.items : i.checkpoint \in 0 .. ChainLength
  PROVE  AnswerIsTrue(a)' /\ AnswerIsPlaced(a)'
<1> DEFINE q == a.asked
           events == {i.event : i \in a.items}
<1> SUFFICES ASSUME a.status = "ok" PROVE AnswerIsTrue(a)' /\ AnswerIsPlaced(a)'
  BY DEF AnswerIsTrue, AnswerIsPlaced
<1>1. /\ q.kind # "record" => \A i \in a.items : i.checkpoint # 0 => Witnessed(i)
      /\ q.kind = "page" => PageIsExact(q, events, a.last)
      /\ q.kind = "bundle" => events = Collected(q)
      /\ q.kind = "record" => HistoryIsLine(q.subject, events, a.last)
  BY DEF AnswerIsTrue
<1>2. /\ q.kind \in {"page", "bundle"} => q.at \in 1 .. ChainLength
      /\ q.kind = "receipt" => \E i \in a.items : a.items = {i} /\ i.event.seq = q.subject
      /\ q.kind = "record" => /\ events = {e \in log : e.record = q.subject /\ e.seq <= a.last}
                              /\ \E e \in events : e.seq = a.last
  BY DEF AnswerIsPlaced
<1>3. q.kind # "record" => \A i \in a.items : i.checkpoint # 0 => Witnessed(i)'
  BY <1>1, WitnessesStay
<1>4. q.kind = "page" => PageIsExact(q, events, a.last)'
  <2> SUFFICES ASSUME q.kind = "page" PROVE PageIsExact(q, events, a.last)'
    OBVIOUS
  <2>1. Increment(q.at)' = Increment(q.at) /\ PageIsExact(q, events, a.last)
    BY <1>1, <1>2, PlacesStay
  <2> HIDE DEF q, events
  <2> QED
    BY <2>1 DEF PageIsExact, Asked
<1>5. q.kind = "bundle" => Collected(q)' = Collected(q)
  BY <1>2, CollectedStays
<1> HIDE DEF events
<1>6. q.kind = "record" =>
        /\ HistoryIsLine(q.subject, events, a.last)'
        /\ events = {e \in log' : e.record = q.subject /\ e.seq <= a.last}
  BY <1>1, <1>2, HistoriesStay
<1>7. q.kind \in {"page", "bundle"} => q.at \in 1 .. ChainLength'
  BY <1>2, PlacesStay
<1> USE DEF events
<1>8. AnswerIsTrue(a)'
  BY <1>1, <1>3, <1>4, <1>5, <1>6 DEF AnswerIsTrue
<1>9. AnswerIsPlaced(a)'
  BY <1>2, <1>6, <1>7 DEF AnswerIsPlaced
<1> QED
  BY <1>8, <1>9

LEMMA LacksStay ==
  ASSUME LedgerOK, Growth, NEW r \in Readers, NEW n \in Nat, LacksKey(r, n)
  PROVE  LacksKey(r, n)'
<1>1. PICK c \in {n - 1, n} \cap 1 .. ChainLength : signedBy[Boundary(c)] \notin Keyring[r]
  BY DEF LacksKey
<1>2. /\ c \in 1 .. ChainLength' /\ Boundary(c)' = Boundary(c)
      /\ signedBy'[Boundary(c)] = signedBy[Boundary(c)]
  BY PlacesStay DEF Growth
<1> QED
  BY <1>1, <1>2 DEF LacksKey

LEMMA AlarmsStayTrue ==
  ASSUME LedgerOK, Growth, NEW r \in Readers, NEW a, a.asked.at \in Nat, IsNoFalseAlarm(r, a)
  PROVE  IsNoFalseAlarm(r, a)'
<1>1. ASSUME a.asked.kind = "receipt", NEW n \in 1 .. ChainLength, LacksKey(r, n)
      PROVE  n \in 1 .. ChainLength' /\ LacksKey(r, n)'
  BY <1>1, PlacesStay, LacksStay
<1>2. LacksKey(r, a.asked.at) => LacksKey(r, a.asked.at)'
  BY LacksStay
<1> QED
  BY <1>1, <1>2 DEF IsNoFalseAlarm

-----------------------------------------------------------------------------
(***************************************************************************)
(* The statements of a reader.  The ledger stands still meanwhile, so what *)
(* a statement leaves behind is judged by the ledger it has read.          *)
(***************************************************************************)

ReaderOK(r, label, q, a) ==
  /\ label \in Labels /\ q \in Querying /\ a \in Answering
  /\ QueryIsExact(label, q)
  /\ IsNoFalseAlarm(r, a) /\ AnswerIsTrue(a) /\ AnswerIsPlaced(a)
  /\ NextWitnessIsNewer(label, q, a)

IsReader(r) == ReaderOK(r, rpc[r], query[r], answer[r])

\* What the reader has after its step.
LeavesReader(r) == ReaderOK(r, rpc'[r], query'[r], answer'[r])

Functions(r) == r \in DOMAIN rpc /\ r \in DOMAIN query /\ r \in DOMAIN answer

LEMMA NothingIsAsked == Started(Nothing) \in Querying /\ QueryIsExact("idle", Started(Nothing))
BY DEF Started, Nothing, Question, Querying, Asking, Kinds, Subjects, None, QueryIsExact, Serves

LEMMA Replied ==
  ASSUME NEW r \in Readers, Functions(r), IsReader(r),
         NEW status \in Statuses, NEW items \in SUBSET Receipts, NEW last \in Nat,
         Reply(r, status, items, last),
         NEW a, a = [asked |-> query[r].asked, status |-> status, items |-> items, last |-> last],
         IsNoFalseAlarm(r, a), AnswerIsTrue(a), AnswerIsPlaced(a)
  PROVE  LeavesReader(r)
<1>1. rpc'[r] = "idle" /\ query'[r] = Started(Nothing) /\ answer'[r] = a
  BY DEF Reply, Functions
<1>2. a \in Answering
  BY DEF IsReader, ReaderOK, Querying, Answering
<1>3. NextWitnessIsNewer("idle", Started(Nothing), a)
  BY DEF NextWitnessIsNewer
<1> QED
  BY <1>1, <1>2, <1>3, NothingIsAsked DEF LeavesReader, ReaderOK, Labels

LEMMA Refused ==
  ASSUME NEW r \in Readers, Functions(r), IsReader(r), NEW status \in Statuses, Refuse(r, status),
         \/ status \in {"NOT_FOUND", "INVALID_CURSOR", "lost"}
         \/ /\ status = "UNKNOWN_KEY_VERSION"
            /\ IF query[r].asked.kind = "receipt" THEN \E n \in 1 .. ChainLength : LacksKey(r, n)
               ELSE LacksKey(r, query[r].asked.at)
  PROVE  LeavesReader(r)
<1> DEFINE a == [asked |-> query[r].asked, status |-> status, items |-> {}, last |-> 0]
<1>1. IsNoFalseAlarm(r, a)
  BY DEF IsNoFalseAlarm
<1>2. AnswerIsTrue(a) /\ AnswerIsPlaced(a)
  BY DEF AnswerIsTrue, AnswerIsPlaced
<1>3. Reply(r, status, {}, 0)
  BY DEF Refuse
<1> HIDE DEF a
<1>4. a = [asked |-> query[r].asked, status |-> status, items |-> {}, last |-> 0]
  BY DEF a
<1> QED
  BY <1>1, <1>2, <1>3, <1>4, Replied

LEMMA Answered ==
  ASSUME NEW r \in Readers, Functions(r), IsReader(r),
         NEW items \in SUBSET Receipts, NEW last \in Nat, Reply(r, "ok", items, last),
         NEW a, a = [asked |-> query[r].asked, status |-> "ok", items |-> items, last |-> last],
         AnswerIsTrue(a), AnswerIsPlaced(a)
  PROVE  LeavesReader(r)
<1>1. IsNoFalseAlarm(r, a)
  BY DEF IsNoFalseAlarm
<1> QED
  BY <1>1, Replied DEF Statuses

LEMMA WentOn ==
  ASSUME NEW r \in Readers, Functions(r), IsReader(r), NEW label \in Labels, Goto(r, label),
         NEW q \in Querying, query'[r] = q, QueryIsExact(label, q),
         NextWitnessIsNewer(label, q, answer[r])
  PROVE  LeavesReader(r)
<1>1. rpc'[r] = label /\ answer'[r] = answer[r]
  BY DEF Goto, Functions
<1> QED
  BY <1>1 DEF IsReader, LeavesReader, ReaderOK

LEMMA EventIsFound ==
  ASSUME LedgerOK, NEW r \in Readers, NEW e \in log, e.seq = query[r].asked.subject
  PROVE  EventOf(r) = e
<1>1. \A f \in log : f.seq = query[r].asked.subject => f = e
  BY DEF LedgerOK, LogIsOfLines
<1> QED
  BY <1>1 DEF EventOf

LEMMA FindEventIsExact ==
  ASSUME LedgerOK, NEW r \in Readers, Functions(r), IsReader(r), FindEvent(r)
  PROVE  LeavesReader(r)
<1>1. CASE Refuse(r, "NOT_FOUND")
  BY <1>1, Refused DEF Statuses
<1>2. CASE WithSeq(query[r].asked.subject) # {} /\ Goto(r, "newest") /\ UNCHANGED query
  <2>1. query[r] \in Querying /\ QueryIsExact("event", query[r])
    BY DEF IsReader, ReaderOK, FindEvent
  <2>2. QueryIsExact("newest", query[r])
    BY <1>2, <2>1 DEF QueryIsExact, Serves
  <2>3. NextWitnessIsNewer("newest", query[r], answer[r])
    BY DEF NextWitnessIsNewer
  <2> QED
    BY <1>2, <2>1, <2>2, <2>3, WentOn DEF Labels
<1> QED
  BY <1>1, <1>2 DEF FindEvent

\* A checkpoint that witnesses an event covers its number.
LEMMA WitnessCovers ==
  ASSUME LedgerOK, NEW i, NEW n \in 1 .. ChainLength, i.checkpoint = n, Witnessed(i)
  PROVE  n \in Covering(i.event.seq)
<1>1. i.event \in Boundary(n) /\ IsLog(Boundary(n))
  BY Boundaries DEF Witnessed
<1>2. i.event.seq <= LastSeq(Boundary(n)) /\ i.event.seq \in Nat /\ LastSeq(Boundary(n)) \in Nat
  BY <1>1, LastSeqIsLast DEF IsLog
<1> QED
  BY <1>2 DEF Covering

\* A caller that was given a receipt at a checkpoint holds one of an event it covers.
LEMMA GivenWitness ==
  ASSUME LedgerOK, NEW a \in Answering, AnswerIsTrue(a), AnswerIsPlaced(a),
         a.status = "ok", a.asked.kind = "receipt", NEW n \in WitnessOf(a), n # 0
  PROVE  n \in Covering(a.asked.subject)
<1>1. PICK i \in a.items : i.checkpoint = n
  BY DEF WitnessOf
<1>2. i.event.seq = a.asked.subject
  BY <1>1 DEF AnswerIsPlaced
<1>3. Witnessed(i) /\ n \in 1 .. ChainLength
  BY <1>1, Boundaries DEF AnswerIsTrue, Answering, Receipts
<1> QED
  BY <1>1, <1>2, <1>3, WitnessCovers

LEMMA FindNewestIsExact ==
  ASSUME LedgerOK, NEW r \in Readers, Functions(r), IsReader(r), FindNewest(r)
  PROVE  LeavesReader(r)
<1> DEFINE q == query[r]
<1>1. q \in Querying /\ QueryIsExact("newest", q)
  BY DEF IsReader, ReaderOK, FindNewest
<1>2. PICK e \in log : e.seq = q.asked.subject
  BY <1>1 DEF QueryIsExact, WithSeq
<1>3. q.asked.kind = "receipt" /\ EventOf(r) = e
  BY <1>1, <1>2, EventIsFound DEF QueryIsExact, Serves
<1>4. ASSUME Reply(r, "ok", {Unwitnessed(EventOf(r))}, 0)
      PROVE  LeavesReader(r)
  <2> DEFINE items == {Unwitnessed(e)}
             a == [asked |-> q.asked, status |-> "ok", items |-> items, last |-> 0]
  <2>1. items \in SUBSET Receipts
    BY Boundaries DEF Unwitnessed, Receipts
  <2>2. AnswerIsTrue(a)
    BY <1>3 DEF AnswerIsTrue, Unwitnessed
  <2>3. AnswerIsPlaced(a)
    BY <1>2, <1>3 DEF AnswerIsPlaced, Unwitnessed
  <2>4. Reply(r, "ok", items, 0)
    BY <1>3, <1>4
  <2> HIDE DEF items
  <2>5. a = [asked |-> query[r].asked, status |-> "ok", items |-> items, last |-> 0]
    OBVIOUS
  <2> HIDE DEF a
  <2> QED
    BY <2>1, <2>2, <2>3, <2>4, <2>5, Answered
<1>5. ASSUME NEW c \in ByLeafCount(Covering(q.asked.subject)),
             query' = [query EXCEPT ![r].at = c], Goto(r, "prefix")
      PROVE  LeavesReader(r)
  <2> DEFINE new == [q EXCEPT !.at = c]
  <2>1. /\ c \in 1 .. ChainLength /\ LastSeq(Boundary(c)) >= e.seq
        /\ \A d \in Covering(q.asked.subject) : Cardinality(Boundary(d)) <= Cardinality(Boundary(c))
    BY <1>2, <1>5 DEF ByLeafCount, Covering
  <2>2. /\ query'[r] = new /\ new \in Querying /\ new.at = c /\ new.asked = q.asked
        /\ new.rest = q.rest /\ new.items = q.items
    BY <1>1, <1>5, <2>1, Boundaries DEF Functions, Querying
  <2>3. e \in Boundary(c)
    <3>1. PrefixRows(c) = Boundary(c) /\ IsLog(log) /\ IsLog(Boundary(c))
      BY <2>1, Boundaries, LedgerIsChain
    <3>2. e.seq <= LastSeq(Boundary(c))
      BY <2>1, <3>1, LastSeqIsLast DEF IsLog
    <3> QED
      BY <3>1, <3>2 DEF PrefixRows
  <2> HIDE DEF new
  <2>4. QueryIsExact("prefix", new)
    BY <1>1, <1>2, <1>3, <2>1, <2>2, <2>3 DEF QueryIsExact, Serves, Misplaced
  <2>5. NextWitnessIsNewer("prefix", new, answer[r])
    <3> SUFFICES ASSUME answer[r].status = "ok", answer[r].asked = q.asked,
                        NEW n \in WitnessOf(answer[r])
                 PROVE  n <= c
      BY <2>2 DEF NextWitnessIsNewer
    <3>1. answer[r] \in Answering /\ AnswerIsTrue(answer[r]) /\ AnswerIsPlaced(answer[r])
      BY DEF IsReader, ReaderOK
    <3>2. n \in 0 .. ChainLength /\ ChainLength \in Nat
      BY <3>1, Boundaries DEF WitnessOf, Answering, Receipts
    <3>3. CASE n = 0
      BY <2>1, <3>2, <3>3
    <3>4. CASE n # 0
      <4>1. n \in Covering(q.asked.subject)
        BY <1>3, <3>1, <3>4, GivenWitness
      <4>2. Cardinality(Boundary(n)) <= Cardinality(Boundary(c))
        BY <2>1, <4>1
      <4>3. c < n => Cardinality(Boundary(c)) < Cardinality(Boundary(n))
        BY <2>1, <3>2, Boundaries
      <4>4. Cardinality(Boundary(n)) \in Nat /\ Cardinality(Boundary(c)) \in Nat
        BY <2>1, <3>2, Boundaries
      <4> QED
        BY <2>1, <3>2, <4>2, <4>3, <4>4
    <3> QED
      BY <3>3, <3>4
  <2> QED
    BY <1>5, <2>2, <2>4, <2>5, WentOn DEF Labels
<1> QED
  BY <1>4, <1>5 DEF FindNewest

LEMMA FindTargetIsExact ==
  ASSUME LedgerOK, NEW r \in Readers, Functions(r), IsReader(r), FindTarget(r)
  PROVE  LeavesReader(r)
<1> DEFINE q == query[r]
<1>1. q \in Querying /\ QueryIsExact("target", q)
  BY DEF IsReader, ReaderOK, FindTarget
<1>2. CASE Refuse(r, "NOT_FOUND") \/ Refuse(r, "INVALID_CURSOR")
  BY <1>2, Refused DEF Statuses
<1>3. ASSUME IsKnown(q.asked.at), ~ Misplaced(q.asked), UNCHANGED query,
             NEW label, label = IF q.asked.kind = "bundle" THEN "instrument" ELSE "prefix",
             Goto(r, label)
      PROVE  LeavesReader(r)
  <2>1. q.asked.kind \in {"checkpoint", "page", "bundle"} /\ q.at = q.asked.at
        /\ q.at \in 1 .. ChainLength
    BY <1>1, <1>3 DEF QueryIsExact, Serves, IsKnown
  <2>2. QueryIsExact(label, q)
    <3>1. CASE q.asked.kind = "bundle"
      BY <1>1, <1>3, <2>1, <3>1 DEF QueryIsExact, Serves, BundleIsExact
    <3>2. CASE q.asked.kind # "bundle"
      BY <1>1, <1>3, <2>1, <3>2 DEF QueryIsExact, Serves
    <3> QED
      BY <3>1, <3>2
  <2>3. NextWitnessIsNewer(label, q, answer[r])
    BY <2>1 DEF NextWitnessIsNewer
  <2>4. label \in Labels
    BY <1>3 DEF Labels
  <2> QED
    BY <1>1, <1>3, <2>2, <2>3, <2>4, WentOn
<1> QED
  BY <1>2, <1>3 DEF FindTarget

LEMMA InstrumentIsCollected ==
  ASSUME LedgerOK, NEW q, q.at \in 1 .. ChainLength
  PROVE  InstrumentEvents(q.subject, q.at) = Collected(q)
<1>1. PrefixRows(q.at) = Boundary(q.at)
  BY PlacesStay, Boundaries
<1> QED
  BY <1>1 DEF PrefixRows, InstrumentEvents, Collected

LEMMA ReadInstrumentIsExact ==
  ASSUME LedgerOK, NEW r \in Readers, Functions(r), IsReader(r), ReadInstrument(r)
  PROVE  LeavesReader(r)
<1> DEFINE q == query[r]
           rows == InstrumentEvents(q.asked.subject, q.at)
           new == [q EXCEPT !.rest = rows]
<1>1. q \in Querying /\ QueryIsExact("instrument", q)
  BY DEF IsReader, ReaderOK, ReadInstrument
<1>2. q.asked.kind = "bundle" /\ q.at = q.asked.at /\ BundleIsExact("instrument", q)
  BY <1>1 DEF QueryIsExact, Serves
<1>3. q.at \in 1 .. ChainLength /\ q.items = {} /\ Collected(q.asked) # {}
  BY <1>2 DEF BundleIsExact
<1>4. rows = Collected(q.asked)
  BY <1>2, <1>3, InstrumentIsCollected
<1>5. query' = [query EXCEPT ![r].rest = rows] /\ Goto(r, "prefix")
  BY <1>3, <1>4 DEF ReadInstrument
<1>6. /\ query'[r] = new /\ new \in Querying /\ new.at = q.at /\ new.asked = q.asked
      /\ new.rest = rows /\ new.items = q.items
  <2>1. rows \in SUBSET log
    BY DEF InstrumentEvents
  <2> QED
    BY <1>1, <1>5, <2>1 DEF Functions, Querying
<1> HIDE DEF new, rows
<1>7. BundleIsExact("prefix", new)
  BY <1>3, <1>4, <1>6 DEF BundleIsExact
<1>8. QueryIsExact("prefix", new)
  BY <1>2, <1>3, <1>6, <1>7 DEF QueryIsExact, Serves, Misplaced
<1>9. NextWitnessIsNewer("prefix", new, answer[r])
  BY <1>2, <1>6 DEF NextWitnessIsNewer
<1> QED
  BY <1>5, <1>6, <1>8, <1>9, WentOn DEF Labels

\* A page is cut exactly, and its cursor is the last event it holds.
LEMMA PagesAreExact ==
  ASSUME LedgerOK, NEW q \in Asking, q.kind = "page", q.at \in 1 .. ChainLength, ~ Misplaced(q),
         NEW rows, rows = Boundary(q.at), NEW page, page = Oldest(q.limit, Candidates(q, rows))
  PROVE  /\ page \subseteq rows
         /\ NextAfter(q, rows, page) \in Nat
         /\ PageIsExact(q, page, NextAfter(q, rows, page))
<1> DEFINE S == Candidates(q, rows)
<1>1. ChainLength \in Nat /\ q.at - 1 \in 0 .. ChainLength /\ q.at \in 0 .. ChainLength
  BY Boundaries
<1>2. IsLog(log) /\ rows \in SUBSET log /\ IsLog(rows)
  BY <1>1, LedgerIsChain, Boundaries
<1>3. S \in SUBSET rows /\ IsLog(S)
  BY <1>2, PartOfLog DEF Candidates
<1>4. IncrementStart(q.at) \in Nat /\ LastSeq(rows) \in Nat
  BY <1>1, <1>2, Boundaries, LastSeqIsLast DEF IncrementStart
<1>5. Increment(q.at) = {e \in rows : e.seq > IncrementStart(q.at)}
  <2>1. /\ Boundary(q.at - 1) = {e \in log : e.seq <= IncrementStart(q.at)}
    BY <1>1, Boundaries DEF PrefixRows, IncrementStart
  <2>2. \A e \in rows : e \in log /\ e.seq \in Nat
    BY <1>2 DEF IsLog
  <2>3. \A e \in rows : e \notin Boundary(q.at - 1) <=> e.seq > IncrementStart(q.at)
    BY <1>4, <2>1, <2>2
  <2> QED
    BY <2>3 DEF Increment
<1>6. S = Asked(q)
  <2>1. CASE q.after = None
    BY <1>5, <2>1 DEF Candidates, Asked, Cursor
  <2>2. CASE q.after # None
    <3>1. Cursor(q) = q.after /\ q.after >= IncrementStart(q.at) /\ q.after \in Nat
      BY <1>4, <2>2 DEF Misplaced, Cursor, Asking
    <3>2. \A e \in rows : e.seq \in Nat
      BY <1>2 DEF IsLog
    <3>3. \A e \in rows : e.seq > q.after <=> e \in Asked(q)
      BY <1>4, <1>5, <2>2, <3>1, <3>2 DEF Asked
    <3>4. Asked(q) \subseteq rows
      BY <1>5 DEF Asked
    <3> QED
      BY <3>1, <3>3, <3>4 DEF Candidates
  <2> QED
    BY <2>1, <2>2
<1>7. q.limit \in Nat \ {0}
  BY DEF Asking
<1> HIDE DEF S
<1>8. /\ page \subseteq S /\ Cardinality(page) <= q.limit
      /\ \A e \in page, f \in S : f.seq <= e.seq => f \in page
      /\ S # {} => page # {}
      /\ Cardinality(S) <= q.limit => page = S
  <2>1. page = Oldest(q.limit, S)
    BY DEF S
  <2> QED
    BY <1>3, <1>7, <2>1, OldestAreFirst
<1>9. IsLog(page)
  BY <1>3, <1>8, PartOfLog
<1>10. LastSeq(page) \in Nat /\ (\A e \in page : e.seq <= LastSeq(page))
       /\ (page # {} => \E e \in page : e.seq = LastSeq(page))
  BY <1>9, LastSeqIsLast
<1>11. IsFiniteSet(S) /\ Cardinality(S) \in Nat
  BY <1>3, FS_CardinalityType DEF IsLog
<1>12. NextAfter(q, rows, page) = IF Cardinality(S) > q.limit THEN LastSeq(page) ELSE 0
  BY DEF NextAfter, S
<1>13. CASE Cardinality(S) > q.limit
  <2>1. S # {} /\ page # {}
    BY <1>7, <1>8, <1>11, <1>13, FS_EmptySet
  <2>2. PICK e \in page : e.seq = LastSeq(page)
    BY <1>10, <2>1
  <2>3. LastSeq(page) # 0
    BY <1>9, <2>2 DEF IsLog
  <2>4. page = {f \in S : f.seq <= LastSeq(page)}
    BY <1>8, <1>10, <2>2
  <2>5. NextAfter(q, rows, page) = LastSeq(page)
    BY <1>12, <1>13
  <2> QED
    BY <1>3, <1>6, <1>8, <1>10, <2>2, <2>3, <2>4, <2>5 DEF PageIsExact
<1>14. CASE ~ (Cardinality(S) > q.limit)
  <2>1. page = S
    BY <1>7, <1>8, <1>11, <1>14
  <2> QED
    BY <1>3, <1>6, <1>8, <1>12, <1>14, <2>1 DEF PageIsExact
<1> QED
  BY <1>13, <1>14

\* A receipt that is rendered from the boundary of its checkpoint witnesses its event.
LEMMA ReceiptsWitness ==
  ASSUME LedgerOK, NEW n \in 1 .. ChainLength, NEW e \in Boundary(n)
  PROVE  /\ Receipt(e, n, Boundary(n)) \in Receipts
         /\ Receipt(e, n, Boundary(n)).event = e
         /\ Receipt(e, n, Boundary(n)).checkpoint = n
         /\ Witnessed(Receipt(e, n, Boundary(n)))
<1>1. n \in 0 .. ChainLength
  BY Boundaries
<1>2. Boundary(n) \in SUBSET log /\ IsLog(Boundary(n))
  BY <1>1, Boundaries
<1>3. Cardinality(Before(e.seq, Boundary(n))) \in Nat
  BY <1>2, FS_Subset, FS_CardinalityType DEF IsLog, Before
<1> QED
  BY <1>1, <1>2, <1>3 DEF Receipt, Receipts, Witnessed, Before

LEMMA RenderPageIsExact ==
  ASSUME LedgerOK, NEW r \in Readers, Functions(r), IsReader(r),
         rpc[r] \in {"prefix", "previous"}, query[r].asked.kind = "page",
         ReplyPage(r, query[r].asked, Boundary(query[r].at))
  PROVE  LeavesReader(r)
<1> DEFINE q == query[r].asked
           rows == Boundary(q.at)
           page == Oldest(q.limit, Candidates(q, rows))
           items == {Receipt(e, q.at, rows) : e \in page}
           last == NextAfter(q, rows, page)
           a == [asked |-> q, status |-> "ok", items |-> items, last |-> last]
<1>1. q \in Asking /\ query[r].at = q.at /\ q.at \in 1 .. ChainLength /\ ~ Misplaced(q)
  BY DEF IsReader, ReaderOK, QueryIsExact, Querying
<1>2. page \subseteq rows /\ last \in Nat /\ PageIsExact(q, page, last)
  BY <1>1, PagesAreExact
<1>3. \A e \in rows : /\ Receipt(e, q.at, rows) \in Receipts
                      /\ Receipt(e, q.at, rows).event = e
                      /\ Witnessed(Receipt(e, q.at, rows))
  BY <1>1, ReceiptsWitness
<1>4. Reply(r, "ok", items, last)
  BY <1>1 DEF ReplyPage
<1> HIDE DEF page, last, rows, q
<1>5. items \in SUBSET Receipts /\ \A i \in items : Witnessed(i)
  BY <1>2, <1>3
<1>6. {i.event : i \in items} = page
  BY <1>2, <1>3
<1> HIDE DEF items
<1>7. q.kind = "page"
  BY DEF q
<1>8. AnswerIsTrue(a) /\ AnswerIsPlaced(a)
  BY <1>1, <1>2, <1>5, <1>6, <1>7 DEF AnswerIsTrue, AnswerIsPlaced
<1>9. a = [asked |-> query[r].asked, status |-> "ok", items |-> items, last |-> last]
  BY DEF q
<1> HIDE DEF a
<1> QED
  BY <1>2, <1>4, <1>5, <1>8, <1>9, Answered

LEMMA RenderReceiptIsExact ==
  ASSUME LedgerOK, NEW r \in Readers, Functions(r), IsReader(r),
         rpc[r] \in {"prefix", "previous"}, query[r].asked.kind = "receipt",
         Render(r, Boundary(query[r].at))
  PROVE  LeavesReader(r)
<1> DEFINE q == query[r]
           n == q.at
<1>1. q \in Querying /\ n \in 1 .. ChainLength /\ q.rest = {} /\ q.items = {}
  BY DEF IsReader, ReaderOK, QueryIsExact
<1>2. PICK e \in Boundary(n) : e.seq = q.asked.subject
  BY DEF IsReader, ReaderOK, QueryIsExact
<1>3. EventOf(r) = e
  <2>1. n \in 0 .. ChainLength
    BY <1>1, PlacesStay, Boundaries
  <2>2. e \in log
    BY <2>1, Boundaries
  <2> QED
    BY <1>2, <2>2, EventIsFound
<1> DEFINE items == {Receipt(e, n, Boundary(n))}
           a == [asked |-> q.asked, status |-> "ok", items |-> items, last |-> 0]
<1>4. Reply(r, "ok", items, 0)
  <2>1. q.items \cup items = items /\ q.rest \subseteq {e}
    BY <1>1
  <2> QED
    BY <1>2, <1>3, <2>1 DEF Render
<1>5. items \in SUBSET Receipts /\ (\A i \in items : Witnessed(i) /\ i.event = e)
  BY <1>1, ReceiptsWitness
<1>6. \E i \in items : items = {i}
  OBVIOUS
<1> HIDE DEF items
<1>7. AnswerIsTrue(a)
  BY <1>5 DEF AnswerIsTrue
<1>8. AnswerIsPlaced(a)
  BY <1>2, <1>5, <1>6 DEF AnswerIsPlaced
<1>9. a = [asked |-> query[r].asked, status |-> "ok", items |-> items, last |-> 0]
  OBVIOUS
<1> HIDE DEF a
<1> QED
  BY <1>4, <1>5, <1>7, <1>8, <1>9, Answered

LEMMA RenderBundleIsExact ==
  ASSUME LedgerOK, NEW r \in Readers, Functions(r), IsReader(r),
         rpc[r] \in {"prefix", "previous"}, query[r].asked.kind = "bundle",
         Render(r, Boundary(query[r].at))
  PROVE  LeavesReader(r)
<1> DEFINE q == query[r]
           n == q.at
           e == CHOOSE f \in q.rest : \A g \in q.rest : f.seq <= g.seq
           receipt == Receipt(e, n, Boundary(n))
           items == q.items \cup {receipt}
<1>1. /\ q \in Querying /\ n \in 1 .. ChainLength /\ q.asked.at = n
      /\ BundleIsExact("prefix", q)
  BY DEF IsReader, ReaderOK, QueryIsExact, BundleIsExact
<1>2. /\ q.rest # {} /\ Collected(q.asked) = q.rest \cup {i.event : i \in q.items}
      /\ \A i \in q.items : i.checkpoint = q.at /\ Witnessed(i)
  BY <1>1 DEF BundleIsExact
<1>3. e \in q.rest
  <2>1. q.rest \in SUBSET log
    BY <1>1 DEF Querying
  <2>2. \E f \in q.rest : \A g \in q.rest : f.seq <= g.seq
    BY <1>2, <2>1, LedgerIsChain, PartOfLog, HasEnds
  <2> QED
    BY <2>2
<1> HIDE DEF e
<1>4. e \in Boundary(n)
  BY <1>1, <1>2, <1>3 DEF Collected
<1>5. /\ receipt \in Receipts /\ receipt.event = e /\ receipt.checkpoint = n
      /\ Witnessed(receipt)
  BY <1>1, <1>4, ReceiptsWitness
<1>6. \/ q.rest \subseteq {e} /\ Reply(r, "ok", items, 0)
      \/ /\ q.rest # {e} /\ Goto(r, "prefix")
         /\ query' = [query EXCEPT ![r].items = @ \cup {receipt}, ![r].rest = @ \ {e},
                                   ![r].prefix = {}]
  BY <1>4 DEF Render, e
<1> HIDE DEF receipt
<1>7. items \in SUBSET Receipts /\ \A i \in items : i.checkpoint = n /\ Witnessed(i)
  BY <1>1, <1>2, <1>5 DEF Querying
<1>8. {i.event : i \in items} = {i.event : i \in q.items} \cup {e}
  BY <1>5
<1> HIDE DEF items
<1>9. ASSUME q.rest \subseteq {e}, Reply(r, "ok", items, 0)
      PROVE  LeavesReader(r)
  <2> DEFINE a == [asked |-> q.asked, status |-> "ok", items |-> items, last |-> 0]
  <2>1. {i.event : i \in items} = Collected(q.asked)
    BY <1>2, <1>3, <1>8, <1>9
  <2>2. AnswerIsTrue(a)
    BY <1>7, <2>1 DEF AnswerIsTrue
  <2>3. AnswerIsPlaced(a)
    BY <1>1 DEF AnswerIsPlaced
  <2>4. a = [asked |-> query[r].asked, status |-> "ok", items |-> items, last |-> 0]
    OBVIOUS
  <2> HIDE DEF a
  <2> QED
    BY <1>7, <1>9, <2>2, <2>3, <2>4, Answered
<1>10. ASSUME q.rest # {e}, Goto(r, "prefix"),
              query' = [query EXCEPT ![r].items = @ \cup {receipt}, ![r].rest = @ \ {e},
                                     ![r].prefix = {}]
       PROVE  LeavesReader(r)
  <2> DEFINE new == [q EXCEPT !.items = @ \cup {receipt}, !.rest = @ \ {e}, !.prefix = {}]
  <2>1. query'[r] = new
    BY <1>10 DEF Functions
  <2>2. /\ new.at = q.at /\ new.asked = q.asked /\ new.rest = q.rest \ {e}
        /\ new.items = items
    BY <1>1 DEF Querying, items
  <2>3. new \in Querying
    <3>1. q.items \cup {receipt} \in SUBSET Receipts
      BY <1>7 DEF items
    <3>2. q.rest \ {e} \in SUBSET log
      BY <1>1 DEF Querying
    <3> QED
      BY <1>1, <3>1, <3>2 DEF Querying
  <2> HIDE DEF new
  <2>4. BundleIsExact("prefix", new)
    <3>1. new.rest # {}
      BY <1>3, <1>10, <2>2
    <3>2. Collected(new.asked) = new.rest \cup {i.event : i \in new.items}
      BY <1>2, <1>3, <1>8, <2>2
    <3>3. Collected(new.asked) # {}
      BY <3>1, <3>2
    <3> QED
      BY <1>1, <1>7, <2>2, <3>1, <3>2, <3>3 DEF BundleIsExact
  <2>5. QueryIsExact("prefix", new)
    BY <1>1, <2>2, <2>4 DEF QueryIsExact, Serves, Misplaced
  <2>6. NextWitnessIsNewer("prefix", new, answer[r])
    BY <2>2 DEF NextWitnessIsNewer
  <2> QED
    BY <1>10, <2>1, <2>3, <2>5, <2>6, WentOn DEF Labels
<1> QED
  BY <1>6, <1>9, <1>10

LEMMA RenderIsExact ==
  ASSUME LedgerOK, NEW r \in Readers, Functions(r), IsReader(r),
         rpc[r] \in {"prefix", "previous"}, Render(r, Boundary(query[r].at))
  PROVE  LeavesReader(r)
<1> DEFINE q == query[r]
<1>1. q.asked.kind \in {"receipt", "checkpoint", "page", "bundle"}
  BY DEF IsReader, ReaderOK, QueryIsExact, Serves
<1>2. CASE q.asked.kind = "checkpoint"
  <2> DEFINE a == [asked |-> q.asked, status |-> "ok", items |-> {}, last |-> 0]
  <2>1. Reply(r, "ok", {}, 0)
    BY <1>2 DEF Render
  <2>2. AnswerIsTrue(a) /\ AnswerIsPlaced(a)
    BY <1>2 DEF AnswerIsTrue, AnswerIsPlaced
  <2>3. a = [asked |-> query[r].asked, status |-> "ok", items |-> {}, last |-> 0]
    OBVIOUS
  <2> HIDE DEF a
  <2> QED
    BY <2>1, <2>2, <2>3, Answered
<1>3. CASE q.asked.kind = "page"
  <2>1. ReplyPage(r, q.asked, Boundary(q.at))
    BY <1>3 DEF Render
  <2> QED
    BY <1>3, <2>1, RenderPageIsExact
<1> QED
  BY <1>1, <1>2, <1>3, RenderReceiptIsExact, RenderBundleIsExact

\* The rows of a checkpoint that exists always pass the checks of _validated_prefix,
\* but for the key.
LEMMA RowsAreValid ==
  ASSUME LedgerOK, NEW r \in Readers, NEW n \in 1 .. ChainLength
  PROVE  /\ PrefixRows(n) = Boundary(n)
         /\ \/ Validation(r, n, Boundary(n)) = "ok"
            \/ /\ Validation(r, n, Boundary(n)) = "UNKNOWN_KEY_VERSION"
               /\ signedBy[Boundary(n)] \notin Keyring[r]
<1>1. n \in 0 .. ChainLength /\ Boundary(n) # {}
  BY Boundaries
<1>2. PrefixRows(n) = Boundary(n)
  BY <1>1, Boundaries
<1> QED
  BY <1>1, <1>2 DEF Validation

\* A request that is refused for want of a key needs one its process does not have.
LEMMA KeyIsMissing ==
  ASSUME LedgerOK, NEW r \in Readers, Functions(r), IsReader(r),
         rpc[r] \in {"prefix", "previous"}, NEW c \in 1 .. ChainLength,
         c \in {query[r].at - 1, query[r].at}, signedBy[Boundary(c)] \notin Keyring[r],
         Refuse(r, "UNKNOWN_KEY_VERSION")
  PROVE  LeavesReader(r)
<1>1. /\ query[r].at \in 1 .. ChainLength
      /\ query[r].asked.kind # "receipt" => query[r].asked.at = query[r].at
  BY DEF IsReader, ReaderOK, QueryIsExact, Serves
<1>2. LacksKey(r, query[r].at)
  BY DEF LacksKey
<1> QED
  BY <1>1, <1>2, Refused DEF Statuses

LEMMA ReadPrefixIsExact ==
  ASSUME LedgerOK, NEW r \in Readers, Functions(r), IsReader(r), ReadPrefix(r)
  PROVE  LeavesReader(r)
<1> DEFINE q == query[r]
           rows == Boundary(q.at)
           new == [q EXCEPT !.prefix = rows]
<1>1. /\ rpc[r] = "prefix" /\ q \in Querying /\ QueryIsExact("prefix", q)
      /\ q.at \in 1 .. ChainLength
  BY DEF ReadPrefix, IsReader, ReaderOK, QueryIsExact
<1>2. /\ PrefixRows(q.at) = rows
      /\ \/ Validation(r, q.at, rows) = "ok"
         \/ /\ Validation(r, q.at, rows) = "UNKNOWN_KEY_VERSION"
            /\ signedBy[rows] \notin Keyring[r]
  BY <1>1, RowsAreValid
<1>3. CASE Validation(r, q.at, rows) = "UNKNOWN_KEY_VERSION"
  <2>1. Refuse(r, "UNKNOWN_KEY_VERSION")
    BY <1>2, <1>3 DEF ReadPrefix
  <2>2. signedBy[rows] \notin Keyring[r]
    BY <1>2, <1>3
  <2> QED
    BY <1>1, <2>1, <2>2, KeyIsMissing
<1>4. CASE Validation(r, q.at, rows) = "ok" /\ q.at = 1
  <2>1. Render(r, rows)
    BY <1>2, <1>4 DEF ReadPrefix
  <2> QED
    BY <1>1, <2>1, RenderIsExact
<1>5. CASE Validation(r, q.at, rows) = "ok" /\ q.at # 1
  <2>1. query' = [query EXCEPT ![r].prefix = rows] /\ Goto(r, "previous")
    BY <1>2, <1>5 DEF ReadPrefix
  <2>2. rows \in SUBSET log
    BY <1>1, Boundaries
  <2>3. /\ query'[r] = new /\ new \in Querying /\ new.at = q.at /\ new.asked = q.asked
        /\ new.rest = q.rest /\ new.items = q.items /\ new.prefix = rows
    BY <1>1, <2>1, <2>2 DEF Functions, Querying
  <2> HIDE DEF new
  <2>4. q.asked.kind = "bundle" => BundleIsExact("previous", new)
    BY <1>1, <2>3 DEF QueryIsExact, BundleIsExact
  <2>5. QueryIsExact("previous", new)
    BY <1>1, <1>5, <2>3, <2>4 DEF QueryIsExact, Serves
  <2>6. NextWitnessIsNewer("previous", new, answer[r])
    BY <1>1, <2>3 DEF IsReader, ReaderOK, NextWitnessIsNewer
  <2> QED
    BY <2>1, <2>3, <2>5, <2>6, WentOn DEF Labels
<1> QED
  BY <1>2, <1>3, <1>4, <1>5

LEMMA ReadPreviousIsExact ==
  ASSUME LedgerOK, NEW r \in Readers, Functions(r), IsReader(r), ReadPrevious(r)
  PROVE  LeavesReader(r)
<1> DEFINE q == query[r]
           n == q.at - 1
<1>1. rpc[r] = "previous" /\ q.at \in 1 .. ChainLength /\ q.at # 1 /\ q.prefix = Boundary(q.at)
  BY DEF ReadPrevious, IsReader, ReaderOK, QueryIsExact
<1>2. n \in 1 .. ChainLength
  BY <1>1, Boundaries
<1>3. /\ PrefixRows(n) = Boundary(n)
      /\ \/ Validation(r, n, Boundary(n)) = "ok"
         \/ /\ Validation(r, n, Boundary(n)) = "UNKNOWN_KEY_VERSION"
            /\ signedBy[Boundary(n)] \notin Keyring[r]
  BY <1>2, RowsAreValid
<1>4. CASE Validation(r, n, Boundary(n)) = "UNKNOWN_KEY_VERSION"
  <2>1. Refuse(r, "UNKNOWN_KEY_VERSION") /\ signedBy[Boundary(n)] \notin Keyring[r]
    BY <1>3, <1>4 DEF ReadPrevious
  <2> QED
    BY <1>1, <1>2, <2>1, KeyIsMissing
<1>5. CASE Validation(r, n, Boundary(n)) = "ok"
  <2>1. Render(r, Boundary(q.at))
    BY <1>1, <1>3, <1>5 DEF ReadPrevious
  <2> QED
    BY <1>1, <2>1, RenderIsExact
<1> QED
  BY <1>3, <1>4, <1>5

LEMMA ReadRecordIsExact ==
  ASSUME LedgerOK, NEW r \in Readers, Functions(r), IsReader(r), ReadRecord(r)
  PROVE  LeavesReader(r)
<1> DEFINE q == query[r]
           subject == q.asked.subject
           rows == {e \in log : e.record = subject}
           items == {Unwitnessed(e) : e \in rows}
           last == LastSeq(rows)
           a == [asked |-> q.asked, status |-> "ok", items |-> items, last |-> last]
<1>1. rpc[r] = "record" /\ q.asked.kind = "record"
  BY DEF ReadRecord, IsReader, ReaderOK, QueryIsExact, Serves
<1>2. CASE Refuse(r, "NOT_FOUND")
  BY <1>2, Refused DEF Statuses
<1>3. ASSUME rows # {}, Reply(r, "ok", items, last)
      PROVE  LeavesReader(r)
  <2>1. IsLog(log) /\ IsLog(rows)
    BY LedgerIsChain, PartOfLog
  <2>2. last \in Nat /\ (\A e \in rows : e.seq <= last) /\ \E e \in rows : e.seq = last
    BY <1>3, <2>1, LastSeqIsLast
  <2>3. PICK g \in rows : g.seq = last
    BY <2>2
  <2> HIDE DEF last
  <2>4. rows = {e \in log : e.record = subject /\ e.seq <= last}
    BY <2>2
  <2>5. ASSUME NEW e \in rows, e.seq # last PROVE \E f \in rows : f.parent = e.seq
    <3>1. e.seq < g.seq /\ e.record = g.record
      BY <2>1, <2>2, <2>3, <2>5 DEF IsLog
    <3>2. \E h \in log : h.parent = e.seq /\ h.record = e.record
      BY <3>1 DEF LedgerOK, LogIsOfLines
    <3> QED
      BY <3>2
  <2>6. ASSUME NEW e \in rows, e.type = "revocation", NEW f \in log PROVE f.parent # e.seq
    <3>1. e.seq # 0 /\ \A p \in log : p.seq = e.seq => p = e
      BY <2>1 DEF IsLog
    <3>2. f.parent # 0 => \E p \in log : p.seq = f.parent /\ p.type # "revocation"
      BY DEF LedgerOK, LogIsOfLines
    <3> QED
      BY <2>6, <3>1, <3>2
  <2>7. HistoryIsLine(subject, rows, last)
    BY <2>5, <2>6 DEF HistoryIsLine
  <2>8. {i.event : i \in items} = rows
    <3>1. \A e : Unwitnessed(e).event = e
      BY DEF Unwitnessed
    <3> HIDE DEF rows
    <3> QED
      BY <3>1
  <2>9. items \in SUBSET Receipts
    BY Boundaries DEF Unwitnessed, Receipts
  <2> HIDE DEF items, rows
  <2>10. AnswerIsTrue(a)
    BY <1>1, <2>7, <2>8 DEF AnswerIsTrue
  <2>11. AnswerIsPlaced(a)
    BY <1>1, <2>3, <2>4, <2>8 DEF AnswerIsPlaced
  <2>12. a = [asked |-> query[r].asked, status |-> "ok", items |-> items, last |-> last]
    OBVIOUS
  <2> HIDE DEF a
  <2> QED
    BY <1>3, <2>2, <2>9, <2>10, <2>11, <2>12, Answered
<1> QED
  BY <1>2, <1>3 DEF ReadRecord

LEMMA FaultIsExact ==
  ASSUME NEW r \in Readers, Functions(r), IsReader(r), Fault(r)
  PROVE  LeavesReader(r)
BY Refused DEF Fault, Statuses

LEMMA QuestionsAreTyped ==
  ASSUME LedgerOK, NEW q \in Questions
  PROVE  /\ q \in Asking
         /\ q.kind \in {"receipt", "record", "checkpoint", "page", "bundle"}
         /\ q.kind = "bundle" => q.at \in 1 .. ChainLength /\ Collected(q) # {}
<1>1. ChainLength \in Nat /\ LastSeq(log) \in Nat /\ log \subseteq Rows
      /\ Limits \subseteq Nat \ {0} /\ \A e \in log : e.seq \in Nat
  BY Boundaries, LedgerIsChain, LastSeqIsLast, ReadsAssumption DEF LedgerOK, IsLog
<1>2. \A e \in log : {e.seq, e.record, e.instrument} \subseteq Subjects
  BY <1>1 DEF Subjects
<1>3. CASE \E n \in {e.seq : e \in log} \cup {0} : q = Question("receipt", n, 0, None, 1)
  <2>1. 0 \in Subjects
    BY DEF Subjects
  <2> QED
    BY <1>2, <1>3, <2>1 DEF Question, Asking, Kinds
<1>4. CASE \E e \in log : q = Question("record", e.record, 0, None, 1)
  BY <1>2, <1>4 DEF Question, Asking, Kinds
<1>5. CASE \E n \in 1 .. ChainLength + 1 : q = Question("checkpoint", 0, n, None, 1)
  BY <1>1, <1>5 DEF Question, Asking, Kinds, Subjects
<1>6. CASE \E n \in 1 .. ChainLength + 1, after \in {None} \cup 0 .. LastSeq(log) + 1, limit \in Limits :
             q = Question("page", 0, n, after, limit)
  BY <1>1, <1>6 DEF Question, Asking, Kinds, Subjects
<1>7. CASE \E n \in 1 .. ChainLength : \E e \in Boundary(n) :
             q = Question("bundle", e.instrument, n, None, 1)
  <2> PICK n \in 1 .. ChainLength : \E e \in Boundary(n) :
             q = Question("bundle", e.instrument, n, None, 1)
    BY <1>7
  <2>1. PICK e \in Boundary(n) : q = Question("bundle", e.instrument, n, None, 1)
    OBVIOUS
  <2>2. n \in 0 .. ChainLength
    BY <1>1
  <2>3. e \in log
    BY <2>2, Boundaries
  <2>4. q.at = n /\ q.kind = "bundle" /\ q.subject = e.instrument /\ q \in Asking
    BY <1>1, <1>2, <2>1, <2>3 DEF Question, Asking, Kinds
  <2>5. e \in Collected(q)
    BY <2>4 DEF Collected
  <2> QED
    BY <2>4, <2>5
<1> QED
  BY <1>3, <1>4, <1>5, <1>6, <1>7 DEF Questions

LEMMA RequestIsExact ==
  ASSUME LedgerOK, NEW r \in Readers, Functions(r), IsReader(r), NEW q, Request(r, q),
         q \in Asking, q.kind \in {"receipt", "record", "checkpoint", "page", "bundle"},
         q.kind = "bundle" => q.at \in 1 .. ChainLength /\ Collected(q) # {}
  PROVE  LeavesReader(r)
<1> DEFINE label == FirstStatement(q.kind)
           new == Started(q)
<1>1. rpc'[r] = label /\ query'[r] = new /\ answer'[r] = answer[r]
  BY DEF Request, Functions
<1>2. /\ new \in Querying /\ new.asked = q /\ new.at = q.at
      /\ new.rest = {} /\ new.items = {}
  BY DEF Started, Querying, Asking
<1>3. /\ label \in {"event", "record", "target"}
      /\ q.kind \in Serves(label)
  BY DEF FirstStatement, Serves
<1> HIDE DEF new, label
<1>4. q.kind = "bundle" => BundleIsExact(label, new)
  BY <1>2, <1>3 DEF BundleIsExact
<1>5. QueryIsExact(label, new)
  BY <1>2, <1>3, <1>4 DEF QueryIsExact
<1>6. NextWitnessIsNewer(label, new, answer[r])
  BY <1>3 DEF NextWitnessIsNewer
<1> QED
  BY <1>1, <1>2, <1>3, <1>5, <1>6 DEF IsReader, LeavesReader, ReaderOK, Labels

LEMMA AskIsExact ==
  ASSUME LedgerOK, NEW r \in Readers, Functions(r), IsReader(r), Ask(r)
  PROVE  LeavesReader(r)
<1>1. PICK q \in Questions : Request(r, q)
  BY DEF Ask
<1> QED
  BY <1>1, QuestionsAreTyped, RequestIsExact

-----------------------------------------------------------------------------
(***************************************************************************)
(* Every step.                                                             *)
(***************************************************************************)

ReaderActs(r) == Ask(r) \/ ReaderRuns(r) \/ Fault(r)

\* The request of reader r changes, and no other.
Changes(r) ==
  /\ rpc' = [rpc EXCEPT ![r] = rpc'[r]]
  /\ query' = [query EXCEPT ![r] = query'[r]]
  /\ answer' = [answer EXCEPT ![r] = answer'[r]]

LEMMA RepliesChange ==
  ASSUME TypeOK, NEW r \in Readers, NEW status, NEW items, NEW last, Reply(r, status, items, last)
  PROVE  Changes(r)
BY DEF Reply, Changes, TypeOK

LEMMA RefusalsChange ==
  ASSUME TypeOK, NEW r \in Readers, NEW status, Refuse(r, status)
  PROVE  Changes(r)
BY RepliesChange DEF Refuse

LEMMA GotosChange ==
  ASSUME TypeOK, NEW r \in Readers, NEW label, Goto(r, label),
         NEW q, (query' = query \/ query' = [query EXCEPT ![r] = q])
  PROVE  Changes(r)
BY DEF Goto, Changes, TypeOK

LEMMA ActingChanges ==
  ASSUME TypeOK, NEW r \in Readers, ReaderActs(r)
  PROVE  Changes(r) /\ UNCHANGED ledgerVars
<1>1. UNCHANGED ledgerVars
  BY DEF ReaderActs, Ask, Request, ReaderRuns, FindEvent, FindNewest, FindTarget, ReadInstrument,
         ReadPrefix, ReadPrevious, ReadRecord, Fault
<1>2. ASSUME NEW rows, Render(r, rows) PROVE Changes(r)
  BY <1>2, RepliesChange, RefusalsChange, GotosChange DEF Render, ReplyPage
<1>3. CASE Ask(r)
  BY <1>3 DEF Ask, Request, Changes, TypeOK
<1>4. CASE Fault(r)
  BY <1>4, RefusalsChange DEF Fault
<1>5. CASE FindEvent(r)
  BY <1>5, RefusalsChange, GotosChange DEF FindEvent
<1>6. CASE FindNewest(r)
  BY <1>6, RepliesChange, GotosChange DEF FindNewest
<1>7. CASE FindTarget(r)
  BY <1>7, RefusalsChange, GotosChange DEF FindTarget
<1>8. CASE ReadInstrument(r)
  BY <1>8, RefusalsChange, GotosChange DEF ReadInstrument
<1>9. CASE ReadPrefix(r)
  BY <1>2, <1>9, RefusalsChange, GotosChange DEF ReadPrefix
<1>10. CASE ReadPrevious(r)
  BY <1>2, <1>10, RefusalsChange DEF ReadPrevious
<1>11. CASE ReadRecord(r)
  BY <1>11, RefusalsChange, RepliesChange DEF ReadRecord
<1> QED
  BY <1>1, <1>3, <1>4, <1>5, <1>6, <1>7, <1>8, <1>9, <1>10, <1>11 DEF ReaderActs, ReaderRuns

LEMMA ActingIsExact ==
  ASSUME LedgerOK, NEW r \in Readers, Functions(r), IsReader(r), ReaderActs(r)
  PROVE  LeavesReader(r)
BY FindEventIsExact, FindNewestIsExact, FindTargetIsExact, ReadInstrumentIsExact,
   ReadPrefixIsExact, ReadPreviousIsExact, ReadRecordIsExact, FaultIsExact, AskIsExact
   DEF ReaderActs, ReaderRuns

LEMMA ReadersStayExact ==
  ASSUME LedgerOK, LedgerOK', Growth, NEW r \in Readers
  PROVE  \A label, q, a : ReaderOK(r, label, q, a) => ReaderOK(r, label, q, a)'
<1> SUFFICES ASSUME NEW label, NEW q, NEW a, ReaderOK(r, label, q, a)
             PROVE  ReaderOK(r, label, q, a)'
  OBVIOUS
<1>1. Receipts \subseteq Receipts' /\ log \subseteq log'
  BY PlacesStay DEF Receipts, Growth
<1>2. q \in Querying' /\ a \in Answering'
  BY <1>1 DEF ReaderOK, Querying, Answering
<1>3. a.asked.at \in Nat /\ \A i \in a.items : i.checkpoint \in 0 .. ChainLength
  BY DEF ReaderOK, Answering, Receipts, Asking
<1>4. QueryIsExact(label, q)'
  BY QueriesStayExact DEF ReaderOK
<1>5. IsNoFalseAlarm(r, a)'
  BY <1>3, AlarmsStayTrue DEF ReaderOK
<1>6. AnswerIsTrue(a)' /\ AnswerIsPlaced(a)'
  BY <1>3, AnswersStayExact DEF ReaderOK
<1>7. NextWitnessIsNewer(label, q, a)'
  BY DEF ReaderOK, NextWitnessIsNewer, WitnessOf
<1> QED
  BY <1>2, <1>4, <1>5, <1>6, <1>7 DEF ReaderOK

-----------------------------------------------------------------------------
(***************************************************************************)
(* The invariant.                                                          *)
(***************************************************************************)

LEMMA InvariantGives ==
  ASSUME ReadsAreInductive
  PROVE  TypeOK /\ LedgerOK /\ \A r \in Readers : Functions(r) /\ IsReader(r)
BY DEF ReadsAreInductive, TypeOK, NoFalseAlarms, LedgerOK, Functions, IsReader, ReaderOK

\* Who acts in a step, and what becomes of the ledger.
LEMMA StepsActOrGrow ==
  ASSUME TypeOK, [ReadsNext]_vars
  PROVE  /\ CommitEvent \/ SealCheckpoint \/ UNCHANGED ledgerVars
         /\ UNCHANGED readVars \/ \E r \in Readers : ReaderActs(r)
<1>1. ASSUME NEW r \in Readers, ReaderActs(r) PROVE UNCHANGED ledgerVars
  BY <1>1, ActingChanges
<1>2. CASE CommitEvent
  BY <1>2 DEF CommitEvent
<1>3. CASE SealCheckpoint
  BY <1>3 DEF SealCheckpoint
<1>4. CASE \E r \in Readers : Ask(r) \/ ReaderRuns(r) \/ Fault(r)
  BY <1>1, <1>4 DEF ReaderActs
<1>5. CASE UNCHANGED vars
  BY <1>5 DEF vars, ledgerVars, readVars
<1> QED
  BY <1>2, <1>3, <1>4, <1>5 DEF ReadsNext

LEMMA CountersAreBounded ==
  ASSUME TypeOK, [ReadsNext]_vars
  PROVE  queries' \in 0 .. MaxQueries /\ faults' \in 0 .. MaxFaults
<1>1. /\ MaxQueries \in Nat /\ MaxFaults \in Nat
      /\ queries \in 0 .. MaxQueries /\ faults \in 0 .. MaxFaults
  BY ReadsAssumption DEF TypeOK
<1>2. CASE CommitEvent \/ SealCheckpoint \/ UNCHANGED vars
  BY <1>1, <1>2 DEF CommitEvent, SealCheckpoint, vars
<1>3. ASSUME NEW r \in Readers, Ask(r) PROVE queries' \in 0 .. MaxQueries /\ faults' \in 0 .. MaxFaults
  BY <1>1, <1>3 DEF Ask
<1>4. ASSUME NEW r \in Readers, Fault(r) PROVE queries' \in 0 .. MaxQueries /\ faults' \in 0 .. MaxFaults
  BY <1>1, <1>4 DEF Fault
<1>5. ASSUME NEW r \in Readers, ReaderRuns(r) PROVE UNCHANGED <<queries, faults>>
  BY <1>5 DEF ReaderRuns, FindEvent, FindNewest, FindTarget, ReadInstrument, ReadPrefix,
              ReadPrevious, ReadRecord
<1> QED
  BY <1>1, <1>2, <1>3, <1>4, <1>5 DEF ReadsNext

\* Every reader leaves a step with facts that hold of the ledger as it was.
AllLeave ==
  /\ \A r \in Readers : LeavesReader(r)
  /\ rpc' = [r \in Readers |-> rpc'[r]]
  /\ query' = [r \in Readers |-> query'[r]]
  /\ answer' = [r \in Readers |-> answer'[r]]

LEMMA NoReaderMoves ==
  ASSUME ReadsAreInductive, UNCHANGED readVars
  PROVE  AllLeave
<1>1. TypeOK /\ LedgerOK /\ \A r \in Readers : Functions(r) /\ IsReader(r)
  BY InvariantGives
<1>2. rpc' = rpc /\ query' = query /\ answer' = answer
  BY DEF readVars
<1>3. \A r \in Readers : LeavesReader(r)
  BY <1>1, <1>2 DEF LeavesReader, IsReader
<1> QED
  BY <1>1, <1>2, <1>3 DEF AllLeave, TypeOK

LEMMA OneReaderMoves ==
  ASSUME ReadsAreInductive, NEW s \in Readers, Changes(s), LeavesReader(s)
  PROVE  AllLeave
<1>1. TypeOK /\ LedgerOK /\ \A r \in Readers : Functions(r) /\ IsReader(r)
  BY InvariantGives
<1>2. \A r \in Readers \ {s} : rpc'[r] = rpc[r] /\ query'[r] = query[r] /\ answer'[r] = answer[r]
  BY <1>1 DEF Changes, TypeOK
<1>3. \A r \in Readers \ {s} : LeavesReader(r)
  BY <1>1, <1>2 DEF LeavesReader, IsReader
<1> QED
  BY <1>1, <1>3 DEF AllLeave, Changes, TypeOK

LEMMA StepsLeaveReaders ==
  ASSUME ReadsAreInductive, [ReadsNext]_vars
  PROVE  AllLeave
<1>1. TypeOK /\ LedgerOK /\ \A r \in Readers : Functions(r) /\ IsReader(r)
  BY InvariantGives
<1>2. CASE UNCHANGED readVars
  BY <1>2, NoReaderMoves
<1>3. ASSUME NEW s \in Readers, ReaderActs(s) PROVE AllLeave
  BY <1>1, <1>3, ActingChanges, ActingIsExact, OneReaderMoves
<1> QED
  BY <1>1, <1>2, <1>3, StepsActOrGrow

LEMMA ReadsInitially == ReadsInit => ReadsAreInductive
<1> SUFFICES ASSUME ReadsInit PROVE ReadsAreInductive
  OBVIOUS
<1>1. log = {} /\ prefixes = {} /\ signedBy = [p \in {} |-> ""] /\ queries = 0 /\ faults = 0
  BY DEF ReadsInit, Init
<1>2. IsFiniteSet(log)
  BY <1>1, FS_EmptySet
<1>3. LogIsOfLines /\ PrefixesHaveEnds
  BY <1>1, <1>2 DEF LogIsOfLines, PrefixesHaveEnds
<1>4. signedBy \in [prefixes -> Versions]
  BY <1>1
<1>5. Started(Nothing) \in Querying /\ QueryIsExact("idle", Started(Nothing))
  BY NothingIsAsked
<1>6. /\ NoAnswer \in Answering
      /\ AnswerIsTrue(NoAnswer) /\ AnswerIsPlaced(NoAnswer)
      /\ \A r \in Readers : IsNoFalseAlarm(r, NoAnswer)
  BY DEF NoAnswer, Nothing, Question, Answering, Asking, Kinds, Subjects, None, Statuses,
         AnswerIsTrue, AnswerIsPlaced, IsNoFalseAlarm
<1>7. \A r \in Readers : rpc[r] = "idle" /\ query[r] = Started(Nothing) /\ answer[r] = NoAnswer
  BY DEF ReadsInit
<1>8. /\ rpc \in [Readers -> Labels]
      /\ query \in [Readers -> Querying]
      /\ answer \in [Readers -> Answering]
  BY <1>5, <1>6 DEF ReadsInit, Labels
<1>9. TypeOK
  BY <1>1, <1>4, <1>8, ReadsAssumption DEF TypeOK
<1>10. \A r \in Readers : NextWitnessIsNewer(rpc[r], query[r], answer[r])
  BY <1>7 DEF NextWitnessIsNewer
<1> QED
  BY <1>3, <1>5, <1>6, <1>7, <1>9, <1>10 DEF ReadsAreInductive, NoFalseAlarms

\* However the ledger grows, if every reader leaves its step with facts that hold, they
\* hold of what the ledger has become.
LEMMA ReadsGoOn ==
  ASSUME ReadsAreInductive,
         CommitEvent \/ SealCheckpoint \/ UNCHANGED ledgerVars,
         AllLeave,
         queries' \in 0 .. MaxQueries, faults' \in 0 .. MaxFaults
  PROVE  ReadsAreInductive'
<1>1. TypeOK /\ LedgerOK
  BY InvariantGives
<1>2. LedgerOK' /\ Growth
  BY <1>1, LedgerStepsGrow
<1>3. ASSUME NEW r \in Readers
      PROVE  IsReader(r)'
  <2>1. ReaderOK(r, rpc'[r], query'[r], answer'[r])
    BY DEF AllLeave, LeavesReader
  <2> QED
    BY <1>1, <1>2, <2>1, ReadersStayExact DEF IsReader
<1>4. /\ rpc' \in [Readers -> Labels']
      /\ query' \in [Readers -> Querying']
      /\ answer' \in [Readers -> Answering']
  BY <1>3 DEF AllLeave, IsReader, ReaderOK
<1>5. TypeOK'
  BY <1>1, <1>2, <1>4 DEF TypeOK, LedgerOK
<1> QED
  BY <1>2, <1>3, <1>5 DEF ReadsAreInductive, NoFalseAlarms, LedgerOK, IsReader, ReaderOK

LEMMA ReadsStep == ReadsAreInductive /\ [ReadsNext]_vars => ReadsAreInductive'
BY InvariantGives, StepsActOrGrow, StepsLeaveReaders, CountersAreBounded, ReadsGoOn

-----------------------------------------------------------------------------
(***************************************************************************)
(* The theorems.                                                           *)
(***************************************************************************)

\* What requests rely on without a lock or a snapshot holds in every state.
THEOREM ReadsInvariant == ReadsSpec => []ReadsAreInductive
<1> QED
  BY ReadsInitially, ReadsStep, PTL DEF ReadsSpec

\* What a request holds and answers is committed, at a checkpoint that exists.
THEOREM TypeCorrect == ReadsSpec => []TypeOK
<1>1. ReadsAreInductive => TypeOK
  BY DEF ReadsAreInductive
<1> QED BY <1>1, ReadsInvariant, PTL

\* _validated_prefix, build_receipt and _load_bundle never take the honest ledger for
\* a damaged one, however many events and checkpoints are committed between two of
\* their statements.
THEOREM HonestLedgersAreNotRefused == ReadsSpec => []NoFalseAlarms
<1>1. ReadsAreInductive => NoFalseAlarms
  BY DEF ReadsAreInductive
<1> QED BY <1>1, ReadsInvariant, PTL

\* A receipt, a page, an archive or a history that was answered stays exact for good.
THEOREM AnswersAreExactForGood == ReadsSpec => []AnswersStayTrue
<1>1. ReadsAreInductive => AnswersStayTrue
  BY DEF ReadsAreInductive, AnswersStayTrue
<1> QED BY <1>1, ReadsInvariant, PTL

-----------------------------------------------------------------------------
(***************************************************************************)
(* Receipts that are asked for again.                                      *)
(***************************************************************************)

\* The answer that r is given is no older than the one it had, if both are receipts
\* of one event.
GivesNewer(r) ==
  LET old == answer[r]
      new == answer'[r]
  IN  old.asked.kind = "receipt" /\ new.asked = old.asked /\ old.status = "ok" /\ new.status = "ok"
      => \A m \in WitnessOf(old), n \in WitnessOf(new) : m <= n

\* A step that answers nothing keeps the one checkpoint there is.
LEMMA KeptAnswers ==
  ASSUME LedgerOK, NEW r \in Readers, IsReader(r), answer'[r] = answer[r]
  PROVE  GivesNewer(r)
<1> DEFINE a == answer[r]
<1> SUFFICES ASSUME a.asked.kind = "receipt", a.status = "ok",
                    NEW m \in WitnessOf(a), NEW n \in WitnessOf(a)
             PROVE  m <= n
  BY DEF GivesNewer
<1>1. a \in Answering /\ AnswerIsPlaced(a)
  BY DEF IsReader, ReaderOK
<1>2. PICK i \in a.items : a.items = {i}
  BY <1>1 DEF AnswerIsPlaced
<1>3. m = i.checkpoint /\ n = i.checkpoint
  BY <1>2 DEF WitnessOf
<1>4. i.checkpoint \in 0 .. ChainLength /\ ChainLength \in Nat
  BY <1>1, <1>2, Boundaries DEF Answering, Receipts
<1> QED
  BY <1>3, <1>4

LEMMA AnswerGiven ==
  ASSUME NEW r \in Readers, Functions(r), NEW status, NEW items, NEW last, Reply(r, status, items, last)
  PROVE  /\ answer'[r].asked = query[r].asked
         /\ answer'[r].status = status
         /\ answer'[r].items = items
BY DEF Reply, Functions

LEMMA RefusalsAreNoReceipts ==
  ASSUME NEW r \in Readers, Functions(r), NEW status, status # "ok", Refuse(r, status)
  PROVE  GivesNewer(r)
BY AnswerGiven DEF Refuse, GivesNewer

\* An answer about anything else is no receipt either.
LEMMA OthersAreNoReceipts ==
  ASSUME NEW r \in Readers, Functions(r), query[r].asked.kind # "receipt",
         NEW status, NEW items, NEW last, Reply(r, status, items, last)
  PROVE  GivesNewer(r)
BY AnswerGiven DEF GivesNewer

LEMMA PendingIsNewer ==
  ASSUME LedgerOK, NEW r \in Readers, Functions(r), IsReader(r),
         rpc[r] = "newest", Covering(query[r].asked.subject) = {},
         NEW e, Reply(r, "ok", {Unwitnessed(e)}, 0)
  PROVE  GivesNewer(r)
<1> DEFINE a == answer[r]
<1>1. answer'[r].asked = query[r].asked /\ answer'[r].items = {Unwitnessed(e)}
  BY AnswerGiven
<1> SUFFICES ASSUME a.asked.kind = "receipt", a.asked = query[r].asked, a.status = "ok",
                    NEW m \in WitnessOf(a)
             PROVE  m = 0
  BY <1>1 DEF GivesNewer, WitnessOf, Unwitnessed
<1>2. a \in Answering /\ AnswerIsTrue(a) /\ AnswerIsPlaced(a)
  BY DEF IsReader, ReaderOK
<1>3. CASE m # 0
  BY <1>2, <1>3, GivenWitness
<1> QED
  BY <1>3

LEMMA RenderedIsNewer ==
  ASSUME LedgerOK, NEW r \in Readers, Functions(r), IsReader(r),
         rpc[r] \in {"prefix", "previous"}, NEW rows, Render(r, rows)
  PROVE  GivesNewer(r)
<1> DEFINE q == query[r]
           a == answer[r]
           receipt == Receipt(EventOf(r), q.at, rows)
<1>1. CASE q.asked.kind = "receipt"
  <2>1. q.items = {}
    BY <1>1 DEF IsReader, ReaderOK, QueryIsExact
  <2>2. CASE Refuse(r, "CHECKPOINT_CORRUPT")
    BY <2>2, RefusalsAreNoReceipts
  <2>3. CASE Reply(r, "ok", {receipt}, 0)
    <3>1. answer'[r].asked = q.asked /\ WitnessOf(answer'[r]) = {q.at}
      <4>1. answer'[r].asked = q.asked /\ answer'[r].items = {receipt}
        BY <2>3, AnswerGiven
      <4>2. receipt.checkpoint = q.at
        BY DEF Receipt
      <4> HIDE DEF receipt
      <4> QED
        BY <4>1, <4>2 DEF WitnessOf
    <3>2. a.status = "ok" /\ a.asked = q.asked => \A n \in WitnessOf(a) : n <= q.at
      BY <1>1 DEF IsReader, ReaderOK, NextWitnessIsNewer
    <3> QED
      BY <3>1, <3>2 DEF GivesNewer
  <2>4. Refuse(r, "CHECKPOINT_CORRUPT") \/ Reply(r, "ok", {receipt}, 0)
    BY <1>1, <2>1 DEF Render
  <2> QED
    BY <2>2, <2>3, <2>4
<1>2. CASE q.asked.kind # "receipt"
  <2>1. ASSUME Goto(r, "prefix") PROVE GivesNewer(r)
    BY <2>1, KeptAnswers DEF Goto
  <2> QED
    BY <1>2, <2>1, OthersAreNoReceipts, RefusalsAreNoReceipts DEF Render, ReplyPage
<1> QED
  BY <1>1, <1>2

LEMMA ActingGivesNewer ==
  ASSUME LedgerOK, NEW r \in Readers, Functions(r), IsReader(r), ReaderActs(r)
  PROVE  GivesNewer(r)
<1>1. ASSUME NEW label, Goto(r, label) PROVE GivesNewer(r)
  BY <1>1, KeptAnswers DEF Goto
<1>2. CASE Ask(r)
  BY <1>2, KeptAnswers DEF Ask, Request
<1>3. CASE Fault(r)
  BY <1>3, RefusalsAreNoReceipts DEF Fault
<1>4. CASE FindEvent(r)
  BY <1>1, <1>4, RefusalsAreNoReceipts DEF FindEvent
<1>5. CASE FindNewest(r)
  BY <1>1, <1>5, PendingIsNewer DEF FindNewest
<1>6. CASE FindTarget(r)
  BY <1>1, <1>6, RefusalsAreNoReceipts DEF FindTarget
<1>7. CASE ReadInstrument(r)
  BY <1>1, <1>7, RefusalsAreNoReceipts DEF ReadInstrument
<1>8. CASE ReadPrefix(r)
  <2>1. ASSUME NEW verdict, verdict # "ok", Refuse(r, verdict) PROVE GivesNewer(r)
    BY <2>1, RefusalsAreNoReceipts
  <2>2. ASSUME NEW rows, Render(r, rows) PROVE GivesNewer(r)
    BY <1>8, <2>2, RenderedIsNewer DEF ReadPrefix
  <2> QED
    BY <1>1, <1>8, <2>1, <2>2 DEF ReadPrefix
<1>9. CASE ReadPrevious(r)
  <2>1. ASSUME NEW verdict, verdict # "ok", Refuse(r, verdict) PROVE GivesNewer(r)
    BY <2>1, RefusalsAreNoReceipts
  <2>2. ASSUME NEW rows, Render(r, rows) PROVE GivesNewer(r)
    BY <1>9, <2>2, RenderedIsNewer DEF ReadPrevious
  <2> QED
    BY <1>9, <2>1, <2>2 DEF ReadPrevious
<1>10. CASE ReadRecord(r)
  <2>1. query[r].asked.kind = "record"
    BY <1>10 DEF ReadRecord, IsReader, ReaderOK, QueryIsExact, Serves
  <2> QED
    BY <1>10, <2>1, OthersAreNoReceipts, RefusalsAreNoReceipts DEF ReadRecord
<1> QED
  BY <1>2, <1>3, <1>4, <1>5, <1>6, <1>7, <1>8, <1>9, <1>10 DEF ReaderActs, ReaderRuns

LEMMA StepsGiveNewer ==
  ASSUME ReadsAreInductive, [ReadsNext]_vars
  PROVE  \A r \in Readers : GivesNewer(r)
<1>1. TypeOK /\ LedgerOK /\ \A r \in Readers : Functions(r) /\ IsReader(r)
  BY InvariantGives
<1>2. CASE UNCHANGED readVars
  BY <1>1, <1>2, KeptAnswers DEF readVars
<1>3. ASSUME NEW s \in Readers, ReaderActs(s), NEW r \in Readers PROVE GivesNewer(r)
  <2>1. CASE r = s
    BY <1>1, <1>3, <2>1, ActingGivesNewer
  <2>2. CASE r # s
    <3>1. answer'[r] = answer[r]
      BY <1>1, <1>3, <2>2, ActingChanges DEF Changes, TypeOK
    <3> QED
      BY <1>1, <3>1, KeptAnswers
  <2> QED
    BY <2>1, <2>2
<1> QED
  BY <1>1, <1>2, <1>3, StepsActOrGrow

\* The newest covering checkpoint that build_receipt takes is never older than the
\* one it took before: a sealed event is not pending again.
THEOREM ReceiptsOnlyGetNewer == ReadsSpec => WitnessesAreNeverWithdrawn
<1>1. ReadsAreInductive /\ [ReadsNext]_vars
      => [\A r \in Readers : GivesNewer(r)]_vars
  BY StepsGiveNewer
<1>2. ReadsSpec => [][\A r \in Readers : GivesNewer(r)]_vars
  BY <1>1, ReadsInvariant, PTL DEF ReadsSpec
<1> QED
  BY <1>2 DEF WitnessesAreNeverWithdrawn, GivesNewer

=============================================================================
