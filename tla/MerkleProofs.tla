---------------------------- MODULE MerkleProofs ----------------------------
(***************************************************************************)
(* Theorems about the trees of merkle.py and the receipts over them, for   *)
(* trees of every size: inclusion, consistency, the trees of a growing     *)
(* ledger, and receipts.                                                   *)
(***************************************************************************)
EXTENDS MCReceipts, SequenceTheorems, TLAPS

-----------------------------------------------------------------------------
(***************************************************************************)
(* The recursive functions of MerkleTree exist: each satisfies the         *)
(* equation it is defined by.                                              *)
(***************************************************************************)

LEMMA Halves ==
  ASSUME NEW n \in Nat
  PROVE  /\ Half(n) \in Nat
         /\ n >= 1 => Half(n) < n
         /\ n >= 2 => Half(n) >= 1
         /\ Odd(n) => n = 2 * Half(n) + 1
         /\ ~ Odd(n) => n = 2 * Half(n)
BY DEF Half, Odd

LeadingPowerBody(p, f, n) == IF n <= 1 THEN n ELSE 2 * f[Half(n)]

LeadingPowers == INSTANCE Recursion WITH Body <- LeadingPowerBody

LEMMA LeadingPowerValue ==
  ASSUME NEW n \in Nat
  PROVE  LeadingPower[n] = IF n <= 1 THEN n ELSE 2 * LeadingPower[Half(n)]
<1>1. ASSUME NEW f, NEW g, NEW k \in Nat, \A i \in 0 .. k - 1 : f[i] = g[i]
      PROVE  LeadingPowerBody(0, f, k) = LeadingPowerBody(0, g, k)
  BY <1>1, Halves DEF LeadingPowerBody
<1>2. LeadingPowers!DependsOnSmaller
  BY <1>1 DEF LeadingPowers!DependsOnSmaller, LeadingPowerBody
<1>3. LeadingPower = LeadingPowers!Defined(0)
  BY Zenon DEF LeadingPower, LeadingPowers!Defined, LeadingPowerBody
<1>4. \A k \in Nat : LeadingPowers!Defined(0)[k] = LeadingPowerBody(0, LeadingPowers!Defined(0), k)
  BY <1>2, LeadingPowers!RecursiveFunction
<1> QED
  BY <1>3, <1>4 DEF LeadingPowerBody

RootsBody(leaves, root, n) ==
  [lo \in Nat |->
    CASE n = 0 -> EmptyRoot
      [] n = 1 -> leaves[lo + 1]
      [] OTHER -> NodeHash(root[Split(n)][lo], root[n - Split(n)][lo + Split(n)])]

RootFunctions == INSTANCE Recursion WITH Body <- RootsBody

WalksBody(leaves, walk, n) ==
  [lo \in Nat |-> [index \in 0 .. n - 1 |->
    IF n = 1 THEN <<>>
    ELSE LET k == Split(n)
         IN  IF index < k
               THEN Append(walk[k][lo][index], Step("right", Roots(leaves)[n - k][lo + k]))
               ELSE Append(walk[n - k][lo + k][index - k], Step("left", Roots(leaves)[k][lo]))]]

WalkFunctions == INSTANCE Recursion WITH Body <- WalksBody

SidesBody(p, sides, n) ==
  [index \in 0 .. n - 1 |->
    IF n = 1 THEN <<>>
    ELSE LET k == Split(n)
         IN  IF index < k THEN Append(sides[k][index], "right")
                          ELSE Append(sides[n - k][index - k], "left")]

SideFunctions == INSTANCE Recursion WITH Body <- SidesBody

SubproofsBody(leaves, subproof, n) ==
  [lo \in Nat |-> [m \in 1 .. n |-> [complete \in BOOLEAN |->
    IF m = n THEN SharedSubtree(Roots(leaves)[n][lo], complete)
    ELSE LET k == Split(n)
         IN  IF m <= k
               THEN Append(subproof[k][lo][m][complete], Roots(leaves)[n - k][lo + k])
               ELSE Append(subproof[n - k][lo + k][m - k][FALSE], Roots(leaves)[k][lo])]]]

SubproofFunctions == INSTANCE Recursion WITH Body <- SubproofsBody

SkipRightBody(p, skip, fn) ==
  [sn \in Nat |-> IF Odd(fn) THEN skip[Half(fn)][Half(sn)] ELSE [fn |-> fn, sn |-> sn]]

SkipFunctions == INSTANCE Recursion WITH Body <- SkipRightBody

ClimbBody(p, climb, fn) ==
  [sn \in Nat |-> IF fn = 0 \/ Odd(fn) THEN [fn |-> fn, sn |-> sn] ELSE climb[Half(fn)][Half(sn)]]

ClimbFunctions == INSTANCE Recursion WITH Body <- ClimbBody

\* A loop over a proof: where it starts and, for the rounds of a consistency proof or
\* the steps of an inclusion proof, what it is over.
PathBody(loop, current, i) ==
  IF i = 0 THEN loop.leaf ELSE Joined(current[i - 1], loop.proof[i])

PathFunctions == INSTANCE Recursion WITH Body <- PathBody

RoundsBody(loop, at, i) ==
  IF i = 0 THEN loop.start ELSE Round(at[i - 1], loop.items[i])

RoundFunctions == INSTANCE Recursion WITH Body <- RoundsBody

-----------------------------------------------------------------------------
(***************************************************************************)
(* Powers of two, and how a tree is split.                                 *)
(***************************************************************************)

IsPower(w) == w \in Nat \ {0} /\ LeadingPower[w] = w

LEMMA PowersDouble ==
  /\ IsPower(1)
  /\ \A w : IsPower(w) => IsPower(2 * w)
<1>1. IsPower(1)
  BY LeadingPowerValue DEF IsPower
<1>2. ASSUME NEW w, IsPower(w)
      PROVE  IsPower(2 * w)
  <2>1. w \in Nat \ {0} /\ 2 * w \in Nat \ {0} /\ Half(2 * w) = w /\ ~ 2 * w <= 1
    BY <1>2 DEF IsPower, Half
  <2> QED
    BY <1>2, <2>1, LeadingPowerValue DEF IsPower
<1> QED
  BY <1>1, <1>2

LEMMA LeadingPowerIsLeading ==
  \A n \in Nat \ {0} : IsPower(LeadingPower[n]) /\ LeadingPower[n] <= n /\ n < 2 * LeadingPower[n]
<1> DEFINE S == {n \in Nat : n # 0 => /\ IsPower(LeadingPower[n])
                                      /\ LeadingPower[n] <= n /\ n < 2 * LeadingPower[n]}
<1>1. ASSUME NEW n \in Nat, \A i \in 0 .. n - 1 : i \in S
      PROVE  n \in S
  <2>1. CASE n <= 1
    <3>1. n # 0 => LeadingPower[n] = 1 /\ n = 1
      BY <2>1, LeadingPowerValue
    <3> QED
      BY <2>1, <3>1, PowersDouble
  <2>2. CASE n > 1
    <3>1. Half(n) \in S /\ Half(n) # 0 /\ (n = 2 * Half(n) \/ n = 2 * Half(n) + 1)
      BY <1>1, <2>2, Halves
    <3>2. LeadingPower[n] = 2 * LeadingPower[Half(n)]
      BY <2>2, LeadingPowerValue
    <3>3. LeadingPower[Half(n)] \in Nat
      BY <3>1 DEF IsPower
    <3> QED
      BY <2>2, <3>1, <3>2, <3>3, PowersDouble, Halves
  <2> QED
    BY <2>1, <2>2
<1> HIDE DEF S
<1>2. \A n \in Nat : n \in S
  BY <1>1, LeadingPowers!Induction
<1> QED
  BY <1>2 DEF S

LEMMA HalfOfPower ==
  ASSUME NEW w, IsPower(w), w >= 2
  PROVE  IsPower(Half(w)) /\ w = 2 * Half(w)
<1>1. w \in Nat /\ Half(w) \in Nat \ {0} /\ (w = 2 * Half(w) \/ w = 2 * Half(w) + 1)
  BY Halves DEF IsPower
<1>2. w = 2 * LeadingPower[Half(w)]
  BY <1>1, LeadingPowerValue DEF IsPower
<1>3. LeadingPower[Half(w)] \in Nat /\ LeadingPower[Half(w)] <= Half(w)
  BY <1>1, LeadingPowerIsLeading DEF IsPower
<1> QED
  BY <1>1, <1>2, <1>3 DEF IsPower

\* A number has one leading power of two.
LEMMA LeadingPowerIsUnique ==
  \A n \in Nat : \A w : IsPower(w) /\ w <= n /\ n < 2 * w => LeadingPower[n] = w
<1> DEFINE S == {n \in Nat : \A w : IsPower(w) /\ w <= n /\ n < 2 * w => LeadingPower[n] = w}
<1>1. ASSUME NEW n \in Nat, \A i \in 0 .. n - 1 : i \in S
      PROVE  n \in S
  <2> SUFFICES ASSUME NEW w, IsPower(w), w <= n, n < 2 * w
               PROVE  LeadingPower[n] = w
    OBVIOUS
  <2>0. w \in Nat \ {0}
    BY DEF IsPower
  <2>1. CASE n <= 1
    <3>1. w = n
      BY <2>0, <2>1
    <3> QED
      BY <2>1, <3>1, LeadingPowerValue
  <2>2. CASE n > 1
    <3>1. IsPower(Half(w)) /\ w = 2 * Half(w)
      BY <2>0, <2>2, HalfOfPower
    <3>2. Half(n) \in S /\ (n = 2 * Half(n) \/ n = 2 * Half(n) + 1)
      BY <1>1, <2>2, Halves
    <3>3. Half(w) <= Half(n) /\ Half(n) < 2 * Half(w)
      BY <2>0, <3>1, <3>2, Halves
    <3>4. LeadingPower[Half(n)] = Half(w)
      BY <3>1, <3>2, <3>3
    <3> QED
      BY <2>2, <3>1, <3>4, LeadingPowerValue
  <2> QED
    BY <2>1, <2>2
<1> HIDE DEF S
<1>2. \A n \in Nat : n \in S
  BY <1>1, LeadingPowers!Induction
<1> QED
  BY <1>2 DEF S

LEMMA PowersOrder ==
  ASSUME NEW u, NEW w, IsPower(u), IsPower(w), u < w
  PROVE  2 * u <= w
<1>1. u \in Nat /\ w \in Nat /\ LeadingPower[w] = w
  BY DEF IsPower
<1>2. CASE w < 2 * u
  BY <1>1, <1>2, LeadingPowerIsUnique
<1> QED
  BY <1>1, <1>2

\* _split, for every size it may be called with.
LEMMA SplitIsPower ==
  ASSUME NEW n \in Nat, n >= 2
  PROVE  /\ IsPower(Split(n))
         /\ Split(n) \in 1 .. n - 1
         /\ n <= 2 * Split(n)
<1>1. n - 1 \in Nat \ {0}
  OBVIOUS
<1> QED
  BY <1>1, LeadingPowerIsLeading DEF Split, IsPower

\* A slice of more than one leaf has two smaller parts.
LEMMA SplitParts ==
  ASSUME NEW n \in Nat, n >= 2
  PROVE  \E k \in 1 .. n - 1 : /\ k = Split(n) /\ IsPower(k) /\ n <= 2 * k
                               /\ k \in 0 .. n - 1 /\ n - k \in 0 .. n - 1 /\ n - k >= 1
BY SplitIsPower

LEMMA SplitIsUnique ==
  ASSUME NEW n \in Nat, NEW w, IsPower(w), w < n, n <= 2 * w
  PROVE  Split(n) = w
<1>1. n - 1 \in Nat /\ w <= n - 1 /\ n - 1 < 2 * w
  BY DEF IsPower
<1> QED
  BY <1>1, LeadingPowerIsUnique DEF Split

-----------------------------------------------------------------------------
(***************************************************************************)
(* What the recursive functions are at each argument.                      *)
(***************************************************************************)

LEMMA RootValue ==
  ASSUME NEW leaves, NEW n \in Nat, NEW lo \in Nat
  PROVE  /\ n = 0 => Roots(leaves)[n][lo] = EmptyRoot
         /\ n = 1 => Roots(leaves)[n][lo] = leaves[lo + 1]
         /\ n >= 2 => Roots(leaves)[n][lo]
              = NodeHash(Roots(leaves)[Split(n)][lo], Roots(leaves)[n - Split(n)][lo + Split(n)])
<1>1. ASSUME NEW p, NEW f, NEW g, NEW k \in Nat, \A i \in 0 .. k - 1 : f[i] = g[i]
      PROVE  RootsBody(p, f, k) = RootsBody(p, g, k)
  <2>1. CASE k <= 1
    <3>1. k = 0 \/ k = 1
      BY <2>1
    <3> QED
      BY <3>1 DEF RootsBody
  <2>2. CASE k >= 2
    <3>1. f[Split(k)] = g[Split(k)] /\ f[k - Split(k)] = g[k - Split(k)]
      BY <1>1, <2>2, SplitIsPower
    <3> QED
      BY <2>2, <3>1 DEF RootsBody
  <2> QED
    BY <2>1, <2>2
<1>2. RootFunctions!DependsOnSmaller
  BY <1>1 DEF RootFunctions!DependsOnSmaller, RootsBody
<1>3. Roots(leaves) = RootFunctions!Defined(leaves)
  BY Zenon DEF Roots, RootFunctions!Defined, RootsBody
<1>4. Roots(leaves)[n] = RootsBody(leaves, Roots(leaves), n)
  BY <1>2, <1>3, RootFunctions!RecursiveFunction
<1> DEFINE roots == Roots(leaves)
<1>5. roots[n] = RootsBody(leaves, roots, n)
  BY <1>4
<1> HIDE DEF roots
<1>6. /\ n = 0 => roots[n][lo] = EmptyRoot
      /\ n = 1 => roots[n][lo] = leaves[lo + 1]
      /\ n >= 2 => roots[n][lo]
           = NodeHash(roots[Split(n)][lo], roots[n - Split(n)][lo + Split(n)])
  BY <1>5 DEF RootsBody
<1> QED
  BY <1>6 DEF roots

LEMMA WalkValue ==
  ASSUME NEW leaves, NEW n \in Nat, NEW lo \in Nat, NEW index \in 0 .. n - 1
  PROVE  /\ n = 1 => Walks(leaves)[n][lo][index] = <<>>
         /\ n >= 2 /\ index < Split(n) =>
              Walks(leaves)[n][lo][index]
                = Append(Walks(leaves)[Split(n)][lo][index],
                         Step("right", Roots(leaves)[n - Split(n)][lo + Split(n)]))
         /\ n >= 2 /\ index >= Split(n) =>
              Walks(leaves)[n][lo][index]
                = Append(Walks(leaves)[n - Split(n)][lo + Split(n)][index - Split(n)],
                         Step("left", Roots(leaves)[Split(n)][lo]))
<1>1. ASSUME NEW p, NEW f, NEW g, NEW k \in Nat, \A i \in 0 .. k - 1 : f[i] = g[i]
      PROVE  WalksBody(p, f, k) = WalksBody(p, g, k)
  <2>1. CASE k <= 1
    <3>1. \A i \in 0 .. k - 1 : k = 1
      BY <2>1
    <3> QED
      BY <3>1 DEF WalksBody
  <2>2. CASE k >= 2
    <3>1. f[Split(k)] = g[Split(k)] /\ f[k - Split(k)] = g[k - Split(k)]
      BY <1>1, <2>2, SplitIsPower
    <3> QED
      BY <2>2, <3>1 DEF WalksBody
  <2> QED
    BY <2>1, <2>2
<1>2. WalkFunctions!DependsOnSmaller
  BY <1>1 DEF WalkFunctions!DependsOnSmaller, WalksBody
<1>3. Walks(leaves) = WalkFunctions!Defined(leaves)
  BY Zenon DEF Walks, WalkFunctions!Defined, WalksBody
<1>4. Walks(leaves)[n] = WalksBody(leaves, Walks(leaves), n)
  BY <1>2, <1>3, WalkFunctions!RecursiveFunction
<1> DEFINE walks == Walks(leaves)
<1>5. walks[n] = WalksBody(leaves, walks, n)
  BY <1>4
<1> HIDE DEF walks
<1>6. n >= 2 => Split(n) \in 1 .. n - 1
  BY SplitIsPower
<1>7. walks[n][lo][index]
        = IF n = 1 THEN <<>>
          ELSE IF index < Split(n)
                 THEN Append(walks[Split(n)][lo][index],
                             Step("right", Roots(leaves)[n - Split(n)][lo + Split(n)]))
                 ELSE Append(walks[n - Split(n)][lo + Split(n)][index - Split(n)],
                             Step("left", Roots(leaves)[Split(n)][lo]))
  BY <1>5 DEF WalksBody
<1>8. /\ n = 1 => ~ n >= 2
      /\ n >= 2 => n # 1
      /\ n >= 2 => (index >= Split(n) <=> ~ index < Split(n))
  BY <1>6
<1> QED
  BY <1>7, <1>8, Zenon DEF walks

LEMMA SidesValue ==
  ASSUME NEW n \in Nat, NEW index \in 0 .. n - 1
  PROVE  /\ n = 1 => Sides[n][index] = <<>>
         /\ n >= 2 /\ index < Split(n) => Sides[n][index] = Append(Sides[Split(n)][index], "right")
         /\ n >= 2 /\ index >= Split(n) =>
              Sides[n][index] = Append(Sides[n - Split(n)][index - Split(n)], "left")
<1>1. ASSUME NEW f, NEW g, NEW k \in Nat, \A i \in 0 .. k - 1 : f[i] = g[i]
      PROVE  SidesBody(0, f, k) = SidesBody(0, g, k)
  <2>1. CASE k <= 1
    <3>1. \A i \in 0 .. k - 1 : k = 1
      BY <2>1
    <3> QED
      BY <3>1 DEF SidesBody
  <2>2. CASE k >= 2
    <3>1. f[Split(k)] = g[Split(k)] /\ f[k - Split(k)] = g[k - Split(k)]
      BY <1>1, <2>2, SplitIsPower
    <3> QED
      BY <2>2, <3>1 DEF SidesBody
  <2> QED
    BY <2>1, <2>2
<1>2. SideFunctions!DependsOnSmaller
  BY <1>1 DEF SideFunctions!DependsOnSmaller, SidesBody
<1>3. Sides = SideFunctions!Defined(0)
  BY Zenon DEF Sides, SideFunctions!Defined, SidesBody
<1>4. Sides[n] = SidesBody(0, Sides, n)
  BY <1>2, <1>3, SideFunctions!RecursiveFunction
<1>5. n >= 2 => Split(n) \in 1 .. n - 1
  BY SplitIsPower
<1>6. Sides[n][index]
        = IF n = 1 THEN <<>>
          ELSE IF index < Split(n) THEN Append(Sides[Split(n)][index], "right")
                                   ELSE Append(Sides[n - Split(n)][index - Split(n)], "left")
  BY <1>4 DEF SidesBody
<1>7. /\ n = 1 => ~ n >= 2
      /\ n >= 2 => n # 1
      /\ n >= 2 => (index >= Split(n) <=> ~ index < Split(n))
  BY <1>5
<1> QED
  BY <1>6, <1>7, Zenon

LEMMA LeafHasNoSides ==
  ASSUME NEW leaves, NEW n \in Nat, NEW lo \in Nat, NEW index \in 0 .. n - 1
  PROVE  n = 1 => Walks(leaves)[n][lo][index] = <<>> /\ Sides[n][index] = <<>>
<1>1. n = 1 => Walks(leaves)[n][lo][index] = <<>>
  BY WalkValue
<1>2. n = 1 => Sides[n][index] = <<>>
  BY SidesValue
<1> QED
  BY <1>1, <1>2

SubproofHasParts(leaves, n, lo, m, complete, k) ==
  /\ m <= k => Subproofs(leaves)[n][lo][m][complete]
                 = Append(Subproofs(leaves)[k][lo][m][complete], Roots(leaves)[n - k][lo + k])
  /\ m > k => Subproofs(leaves)[n][lo][m][complete]
                = Append(Subproofs(leaves)[n - k][lo + k][m - k][FALSE], Roots(leaves)[k][lo])

SubproofIsWhole(leaves, n, lo, complete) ==
  Subproofs(leaves)[n][lo][n][complete] = SharedSubtree(Roots(leaves)[n][lo], complete)

LEMMA SubproofValue ==
  ASSUME NEW leaves, NEW n \in Nat, NEW lo \in Nat, NEW m \in 1 .. n, NEW complete \in BOOLEAN
  PROVE  /\ m = n => SubproofIsWhole(leaves, n, lo, complete)
         /\ m # n => SubproofHasParts(leaves, n, lo, m, complete, Split(n))
<1>1. ASSUME NEW p, NEW f, NEW g, NEW k \in Nat, \A i \in 0 .. k - 1 : f[i] = g[i]
      PROVE  SubproofsBody(p, f, k) = SubproofsBody(p, g, k)
  <2>1. CASE k <= 1
    <3>1. \A i \in 1 .. k : i = k
      BY <2>1
    <3> QED
      BY <3>1 DEF SubproofsBody
  <2>2. CASE k >= 2
    <3>1. f[Split(k)] = g[Split(k)] /\ f[k - Split(k)] = g[k - Split(k)]
      BY <1>1, <2>2, SplitIsPower
    <3> QED
      BY <2>2, <3>1 DEF SubproofsBody
  <2> QED
    BY <2>1, <2>2
<1>2. SubproofFunctions!DependsOnSmaller
  BY <1>1 DEF SubproofFunctions!DependsOnSmaller, SubproofsBody
<1>3. Subproofs(leaves) = SubproofFunctions!Defined(leaves)
  BY Zenon DEF Subproofs, SubproofFunctions!Defined, SubproofsBody
<1>4. Subproofs(leaves)[n] = SubproofsBody(leaves, Subproofs(leaves), n)
  BY <1>2, <1>3, SubproofFunctions!RecursiveFunction
<1> DEFINE sub == Subproofs(leaves)
<1>5. sub[n] = SubproofsBody(leaves, sub, n)
  BY <1>4
<1> HIDE DEF sub
<1>6. m # n => Split(n) \in 1 .. n - 1
  BY SplitIsPower
<1>7. sub[n][lo][m][complete]
        = IF m = n THEN SharedSubtree(Roots(leaves)[n][lo], complete)
          ELSE IF m <= Split(n)
                 THEN Append(sub[Split(n)][lo][m][complete],
                             Roots(leaves)[n - Split(n)][lo + Split(n)])
                 ELSE Append(sub[n - Split(n)][lo + Split(n)][m - Split(n)][FALSE],
                             Roots(leaves)[Split(n)][lo])
  BY <1>5 DEF SubproofsBody
<1>8. m # n => (m > Split(n) <=> ~ m <= Split(n))
  BY <1>6
<1>9. CASE m = n
  BY <1>7, <1>9, Zenon DEF SubproofIsWhole, sub
<1>10. CASE m # n
  BY <1>7, <1>8, <1>10, Zenon DEF SubproofHasParts, sub
<1> QED
  BY <1>9, <1>10

LEMMA SubproofOfParts ==
  ASSUME NEW leaves, NEW n \in Nat, NEW lo \in Nat, NEW m \in 1 .. n, m # n,
         NEW complete \in BOOLEAN
  PROVE  SubproofHasParts(leaves, n, lo, m, complete, Split(n))
BY SubproofValue

LEMMA SubproofOfWhole ==
  ASSUME NEW leaves, NEW n \in Nat \ {0}, NEW lo \in Nat, NEW complete \in BOOLEAN
  PROVE  Subproofs(leaves)[n][lo][n][complete] = SharedSubtree(Roots(leaves)[n][lo], complete)
<1>1. n \in Nat /\ n \in 1 .. n
  OBVIOUS
<1>2. SubproofIsWhole(leaves, n, lo, complete)
  BY <1>1, SubproofValue
<1> QED
  BY <1>2, Zenon DEF SubproofIsWhole

LEMMA SkipRightValue ==
  ASSUME NEW fn \in Nat, NEW sn \in Nat
  PROVE  /\ ~ Odd(fn) => SkipRight[fn][sn] = [fn |-> fn, sn |-> sn]
         /\ Odd(fn) => SkipRight[fn][sn] = SkipRight[Half(fn)][Half(sn)]
<1>1. ASSUME NEW f, NEW g, NEW k \in Nat, \A i \in 0 .. k - 1 : f[i] = g[i]
      PROVE  SkipRightBody(0, f, k) = SkipRightBody(0, g, k)
  <2>1. Odd(k) => f[Half(k)] = g[Half(k)]
    BY <1>1, Halves
  <2> QED
    BY <2>1 DEF SkipRightBody
<1>2. SkipFunctions!DependsOnSmaller
  BY <1>1 DEF SkipFunctions!DependsOnSmaller, SkipRightBody
<1>3. SkipRight = SkipFunctions!Defined(0)
  BY Zenon DEF SkipRight, SkipFunctions!Defined, SkipRightBody
<1>4. SkipRight[fn] = SkipRightBody(0, SkipRight, fn)
  BY <1>2, <1>3, SkipFunctions!RecursiveFunction
<1> QED
  BY <1>4 DEF SkipRightBody

LEMMA ClimbValue ==
  ASSUME NEW fn \in Nat, NEW sn \in Nat
  PROVE  /\ fn = 0 \/ Odd(fn) => Climb[fn][sn] = [fn |-> fn, sn |-> sn]
         /\ ~ (fn = 0 \/ Odd(fn)) => Climb[fn][sn] = Climb[Half(fn)][Half(sn)]
<1>1. ASSUME NEW f, NEW g, NEW k \in Nat, \A i \in 0 .. k - 1 : f[i] = g[i]
      PROVE  ClimbBody(0, f, k) = ClimbBody(0, g, k)
  <2>1. k # 0 => f[Half(k)] = g[Half(k)]
    BY <1>1, Halves
  <2> QED
    BY <2>1 DEF ClimbBody
<1>2. ClimbFunctions!DependsOnSmaller
  BY <1>1 DEF ClimbFunctions!DependsOnSmaller, ClimbBody
<1>3. Climb = ClimbFunctions!Defined(0)
  BY Zenon DEF Climb, ClimbFunctions!Defined, ClimbBody
<1>4. Climb[fn] = ClimbBody(0, Climb, fn)
  BY <1>2, <1>3, ClimbFunctions!RecursiveFunction
<1> QED
  BY <1>4 DEF ClimbBody

LEMMA PathValue ==
  ASSUME NEW leaf, NEW proof, NEW i \in Nat
  PROVE  Path(leaf, proof)[i] = IF i = 0 THEN leaf ELSE Joined(Path(leaf, proof)[i - 1], proof[i])
<1> DEFINE loop == [leaf |-> leaf, proof |-> proof]
<1>1. ASSUME NEW p, NEW f, NEW g, NEW k \in Nat, \A j \in 0 .. k - 1 : f[j] = g[j]
      PROVE  PathBody(p, f, k) = PathBody(p, g, k)
  <2>1. k # 0 => f[k - 1] = g[k - 1]
    BY <1>1
  <2> QED
    BY <2>1 DEF PathBody
<1>2. PathFunctions!DependsOnSmaller
  BY <1>1 DEF PathFunctions!DependsOnSmaller
<1>3. \A f, k : PathBody(loop, f, k) = IF k = 0 THEN leaf ELSE Joined(f[k - 1], proof[k])
  BY DEF PathBody
<1> HIDE DEF loop
<1> DEFINE d == PathFunctions!Defined(loop)
<1>4. DOMAIN d = Nat /\ \A k \in Nat : d[k] = PathBody(loop, d, k)
  BY <1>2, PathFunctions!RecursiveFunction
<1> HIDE DEF d
<1>5. \E f : f = [k \in Nat |-> IF k = 0 THEN leaf ELSE Joined(f[k - 1], proof[k])]
  <2> DEFINE f == [k \in Nat |-> d[k]]
  <2>1. \A k \in Nat : f[k] = IF k = 0 THEN leaf ELSE Joined(f[k - 1], proof[k])
    BY <1>3, <1>4
  <2>2. f = [k \in Nat |-> IF k = 0 THEN leaf ELSE Joined(f[k - 1], proof[k])]
    BY <2>1
  <2> QED
    BY <2>2, Zenon
<1> DEFINE r == Path(leaf, proof)
<1>6. r = [k \in Nat |-> IF k = 0 THEN leaf ELSE Joined(r[k - 1], proof[k])]
  BY <1>5, Zenon DEF Path
<1> HIDE DEF r
<1>7. r[i] = IF i = 0 THEN leaf ELSE Joined(r[i - 1], proof[i])
  BY <1>6
<1> QED
  BY <1>7 DEF r

LEMMA RoundsValue ==
  ASSUME NEW start, NEW items, NEW i \in Nat
  PROVE  Rounds(start, items)[i]
           = IF i = 0 THEN start ELSE Round(Rounds(start, items)[i - 1], items[i])
<1> DEFINE loop == [start |-> start, items |-> items]
<1>1. ASSUME NEW p, NEW f, NEW g, NEW k \in Nat, \A j \in 0 .. k - 1 : f[j] = g[j]
      PROVE  RoundsBody(p, f, k) = RoundsBody(p, g, k)
  <2>1. k # 0 => f[k - 1] = g[k - 1]
    BY <1>1
  <2> QED
    BY <2>1 DEF RoundsBody
<1>2. RoundFunctions!DependsOnSmaller
  BY <1>1 DEF RoundFunctions!DependsOnSmaller
<1>3. \A f, k : RoundsBody(loop, f, k) = IF k = 0 THEN start ELSE Round(f[k - 1], items[k])
  BY DEF RoundsBody
<1> HIDE DEF loop
<1> DEFINE d == RoundFunctions!Defined(loop)
<1>4. DOMAIN d = Nat /\ \A k \in Nat : d[k] = RoundsBody(loop, d, k)
  BY <1>2, RoundFunctions!RecursiveFunction
<1> HIDE DEF d
<1>5. \E f : f = [k \in Nat |-> IF k = 0 THEN start ELSE Round(f[k - 1], items[k])]
  <2> DEFINE f == [k \in Nat |-> d[k]]
  <2>1. \A k \in Nat : f[k] = IF k = 0 THEN start ELSE Round(f[k - 1], items[k])
    BY <1>3, <1>4
  <2>2. f = [k \in Nat |-> IF k = 0 THEN start ELSE Round(f[k - 1], items[k])]
    BY <2>1
  <2> QED
    BY <2>2, Zenon
<1> DEFINE r == Rounds(start, items)
<1>6. r = [k \in Nat |-> IF k = 0 THEN start ELSE Round(r[k - 1], items[k])]
  BY <1>5, Zenon DEF Rounds
<1> HIDE DEF r
<1>7. r[i] = IF i = 0 THEN start ELSE Round(r[i - 1], items[i])
  BY <1>6
<1> QED
  BY <1>7 DEF r

-----------------------------------------------------------------------------
(***************************************************************************)
(* Sequences of whatever values.                                           *)
(***************************************************************************)

IsSequence(s) == \E S : s \in Seq(S)

LEMMA Appended ==
  ASSUME NEW s, NEW e, IsSequence(s)
  PROVE  /\ IsSequence(Append(s, e))
         /\ Len(s) \in Nat /\ DOMAIN s = 1 .. Len(s)
         /\ Len(Append(s, e)) = Len(s) + 1
         /\ \A i \in 1 .. Len(s) : Append(s, e)[i] = s[i]
         /\ Append(s, e)[Len(s) + 1] = e
<1>1. PICK S : s \in Seq(S)
  BY DEF IsSequence
<1>2. s \in Seq(S \cup {e}) /\ e \in S \cup {e}
  BY <1>1
<1>3. Append(s, e) \in Seq(S \cup {e})
  BY <1>2
<1> QED
  BY <1>2, <1>3 DEF IsSequence

LEMMA SequenceFacts ==
  ASSUME NEW s, IsSequence(s)
  PROVE  Len(s) \in Nat /\ DOMAIN s = 1 .. Len(s)
BY DEF IsSequence

LEMMA SameRange ==
  ASSUME NEW a \in Nat, NEW b \in Nat, 1 .. a = 1 .. b
  PROVE  a = b
<1>1. (a >= 1 => a \in 1 .. a) /\ (b >= 1 => b \in 1 .. b)
  OBVIOUS
<1>2. (a >= 1 => a \in 1 .. b) /\ (b >= 1 => b \in 1 .. a)
  BY <1>1
<1> QED
  BY <1>2

LEMMA SequencesEqual ==
  ASSUME NEW s, NEW t, IsSequence(s), IsSequence(t), Len(s) = Len(t),
         \A i \in 1 .. Len(s) : s[i] = t[i]
  PROVE  s = t
<1>1. PICK S, T : s \in Seq(S) /\ t \in Seq(T)
  BY DEF IsSequence
<1>2. s \in Seq(S \cup T) /\ t \in Seq(S \cup T)
  BY <1>1
<1> QED
  BY <1>2

LEMMA ShortSequences ==
  /\ IsSequence(<<>>) /\ Len(<<>>) = 0
  /\ \A e : IsSequence(<<e>>) /\ Len(<<e>>) = 1 /\ <<e>>[1] = e
<1>1. <<>> \in Seq({})
  OBVIOUS
<1>2. ASSUME NEW e
      PROVE  <<e>> \in Seq({e}) /\ Len(<<e>>) = 1 /\ <<e>>[1] = e
  OBVIOUS
<1> QED
  BY <1>1, <1>2 DEF IsSequence

-----------------------------------------------------------------------------
(***************************************************************************)
(* A root decides the leaves.                                              *)
(***************************************************************************)

LEMMA NodeParts ==
  ASSUME NEW a, NEW b, NEW c, NEW d, NodeHash(a, b) = NodeHash(c, d)
  PROVE  a = c /\ b = d
BY DEF NodeHash

LEMMA RootOfParts ==
  ASSUME NEW leaves, NEW n \in Nat, n >= 2, NEW lo \in Nat, NEW k, k = Split(n)
  PROVE  Roots(leaves)[n][lo] = NodeHash(Roots(leaves)[k][lo], Roots(leaves)[n - k][lo + k])
BY RootValue

LEMMA NodesDiffer ==
  /\ \A a, b, c, d : NodeHash(a, b) = NodeHash(c, d) => a = c /\ b = d
  /\ \A a, b, c : NodeHash(a, b) # LeafHash(c) /\ NodeHash(a, b) # EmptyRoot
  /\ \A a, b : LeafHash(a) # EmptyRoot /\ (LeafHash(a) = LeafHash(b) => a = b)
BY DEF NodeHash, LeafHash, EmptyRoot

SameLeaves(s, lo, t, to, n) == \A i \in 1 .. n : s[lo + i] = t[to + i]

LEMMA SameLeavesInParts ==
  ASSUME NEW s, NEW t, NEW lo \in Nat, NEW to \in Nat, NEW n \in Nat, NEW k \in 1 .. n - 1
  PROVE  SameLeaves(s, lo, t, to, n)
           <=> SameLeaves(s, lo, t, to, k) /\ SameLeaves(s, lo + k, t, to + k, n - k)
<1>1. ASSUME SameLeaves(s, lo, t, to, n), NEW i \in 1 .. n - k
      PROVE  s[(lo + k) + i] = t[(to + k) + i]
  <2>1. k + i \in 1 .. n /\ (lo + k) + i = lo + (k + i) /\ (to + k) + i = to + (k + i)
    OBVIOUS
  <2> QED
    BY <1>1, <2>1 DEF SameLeaves
<1>2. ASSUME SameLeaves(s, lo + k, t, to + k, n - k), NEW i \in k + 1 .. n
      PROVE  s[lo + i] = t[to + i]
  <2>1. i - k \in 1 .. n - k /\ (lo + k) + (i - k) = lo + i /\ (to + k) + (i - k) = to + i
    OBVIOUS
  <2>2. s[(lo + k) + (i - k)] = t[(to + k) + (i - k)]
    BY <1>2, <2>1 DEF SameLeaves
  <2> QED
    BY <2>1, <2>2
<1> QED
  BY <1>1, <1>2 DEF SameLeaves

\* Slices of one size have the same root if and only if they have the same leaves.
LEMMA RootsDecideSlices ==
  ASSUME NEW leaves, NEW others
  PROVE  \A n \in Nat : \A lo, to \in Nat :
           Roots(leaves)[n][lo] = Roots(others)[n][to] <=> SameLeaves(leaves, lo, others, to, n)
<1> DEFINE S == {n \in Nat : \A lo, to \in Nat :
           Roots(leaves)[n][lo] = Roots(others)[n][to] <=> SameLeaves(leaves, lo, others, to, n)}
<1>1. ASSUME NEW n \in Nat, \A i \in 0 .. n - 1 : i \in S
      PROVE  n \in S
  <2> SUFFICES ASSUME NEW lo \in Nat, NEW to \in Nat
               PROVE  Roots(leaves)[n][lo] = Roots(others)[n][to]
                        <=> SameLeaves(leaves, lo, others, to, n)
    OBVIOUS
  <2>0. \A m \in 0 .. n - 1 : \A a, b \in Nat :
          Roots(leaves)[m][a] = Roots(others)[m][b] <=> SameLeaves(leaves, a, others, b, m)
    BY <1>1
  <2>1. CASE n = 0
    BY <2>1, RootValue DEF SameLeaves
  <2>2. CASE n = 1
    BY <2>2, RootValue DEF SameLeaves
  <2>3. CASE n >= 2
    <3>1. PICK k \in 1 .. n - 1 : k = Split(n) /\ k \in 0 .. n - 1 /\ n - k \in 0 .. n - 1
      BY <2>3, SplitParts
    <3>2. lo + k \in Nat /\ to + k \in Nat
      OBVIOUS
    <3> DEFINE a == Roots(leaves)[k][lo]
               b == Roots(leaves)[n - k][lo + k]
               c == Roots(others)[k][to]
               d == Roots(others)[n - k][to + k]
    <3>3. /\ a = c <=> SameLeaves(leaves, lo, others, to, k)
          /\ b = d <=> SameLeaves(leaves, lo + k, others, to + k, n - k)
      BY <2>0, <3>1, <3>2
    <3>4. /\ Roots(leaves)[n][lo] = NodeHash(a, b)
          /\ Roots(others)[n][to] = NodeHash(c, d)
      BY <2>3, <3>1, RootOfParts
    <3> HIDE DEF a, b, c, d
    <3>5. NodeHash(a, b) = NodeHash(c, d) <=> a = c /\ b = d
      BY NodeParts
    <3> QED
      BY <3>3, <3>4, <3>5, SameLeavesInParts
  <2> QED
    BY <2>1, <2>2, <2>3
<1> HIDE DEF S
<1>2. \A n \in Nat : n \in S
  BY <1>1, LeadingPowers!Induction
<1> QED
  BY <1>2 DEF S

AreLeaves(s, lo, n) == \A i \in 1 .. n : \E d : s[lo + i] = LeafHash(d)

LEMMA LeavesOfPart ==
  ASSUME NEW s, NEW lo \in Nat, NEW n \in Nat, NEW k \in 1 .. n - 1, AreLeaves(s, lo, n)
  PROVE  AreLeaves(s, lo, k) /\ AreLeaves(s, lo + k, n - k)
<1>1. ASSUME NEW i \in 1 .. n - k
      PROVE  \E d : s[(lo + k) + i] = LeafHash(d)
  <2>1. k + i \in 1 .. n /\ (lo + k) + i = lo + (k + i)
    OBVIOUS
  <2>2. \E d : s[lo + (k + i)] = LeafHash(d)
    BY <2>1 DEF AreLeaves
  <2> QED
    BY <2>1, <2>2
<1> QED
  BY <1>1 DEF AreLeaves

\* The hash of a slice of leaves tells none, one and several of them apart.
LEMMA RootOfLeaves ==
  ASSUME NEW leaves, NEW n \in Nat, NEW lo \in Nat, AreLeaves(leaves, lo, n)
  PROVE  /\ n = 0 => Roots(leaves)[n][lo] = EmptyRoot
         /\ n = 1 => \E d : Roots(leaves)[n][lo] = LeafHash(d)
         /\ n >= 2 => \E a, b : Roots(leaves)[n][lo] = NodeHash(a, b)
<1>1. n = 0 => Roots(leaves)[n][lo] = EmptyRoot
  BY RootValue
<1>2. ASSUME n = 1
      PROVE  \E d : Roots(leaves)[n][lo] = LeafHash(d)
  <2>1. Roots(leaves)[n][lo] = leaves[lo + 1]
    BY <1>2, RootValue
  <2>2. \E d : leaves[lo + 1] = LeafHash(d)
    BY <1>2 DEF AreLeaves
  <2> QED
    BY <2>1, <2>2, Zenon
<1>3. ASSUME n >= 2
      PROVE  \E a, b : Roots(leaves)[n][lo] = NodeHash(a, b)
  <2>1. Roots(leaves)[n][lo]
          = NodeHash(Roots(leaves)[Split(n)][lo], Roots(leaves)[n - Split(n)][lo + Split(n)])
    BY <1>3, RootValue
  <2> QED
    BY <2>1, Zenon
<1> QED
  BY <1>1, <1>2, <1>3, Zenon

LEMMA RootsTellSizes ==
  ASSUME NEW leaves, NEW others
  PROVE  \A n \in Nat : \A k, lo, to \in Nat :
           /\ AreLeaves(leaves, lo, n)
           /\ AreLeaves(others, to, k)
           /\ Roots(leaves)[n][lo] = Roots(others)[k][to]
           => n = k
<1> DEFINE S == {n \in Nat : \A k, lo, to \in Nat :
           /\ AreLeaves(leaves, lo, n)
           /\ AreLeaves(others, to, k)
           /\ Roots(leaves)[n][lo] = Roots(others)[k][to]
           => n = k}
<1>1. ASSUME NEW n \in Nat, \A i \in 0 .. n - 1 : i \in S
      PROVE  n \in S
  <2> SUFFICES ASSUME NEW k \in Nat, NEW lo \in Nat, NEW to \in Nat,
                      AreLeaves(leaves, lo, n), AreLeaves(others, to, k),
                      Roots(leaves)[n][lo] = Roots(others)[k][to]
               PROVE  n = k
    OBVIOUS
  <2>0. \A m \in 0 .. n - 1 : \A j, a, b \in Nat :
           AreLeaves(leaves, a, m) /\ AreLeaves(others, b, j)
           /\ Roots(leaves)[m][a] = Roots(others)[j][b]
           => m = j
    BY <1>1
  <2>1. /\ n = 0 => Roots(leaves)[n][lo] = EmptyRoot
        /\ n = 1 => \E d : Roots(leaves)[n][lo] = LeafHash(d)
        /\ n >= 2 => \E a, b : Roots(leaves)[n][lo] = NodeHash(a, b)
    BY RootOfLeaves
  <2>2. /\ k = 0 => Roots(others)[k][to] = EmptyRoot
        /\ k = 1 => \E d : Roots(others)[k][to] = LeafHash(d)
        /\ k >= 2 => \E a, b : Roots(others)[k][to] = NodeHash(a, b)
    BY RootOfLeaves
  <2>3. n = k \/ (n >= 2 /\ k >= 2)
    BY <2>1, <2>2, NodesDiffer
  <2>4. CASE n >= 2 /\ k >= 2
    <3>0. PICK p \in 1 .. n - 1 : p = Split(n) /\ p \in 0 .. n - 1 /\ n - p \in 0 .. n - 1
      BY <2>4, SplitParts
    <3>1. PICK q \in 1 .. k - 1 : q = Split(k) /\ q \in Nat /\ k - q \in Nat
      BY <2>4, SplitParts
    <3>2. /\ Roots(leaves)[p][lo] = Roots(others)[q][to]
          /\ Roots(leaves)[n - p][lo + p] = Roots(others)[k - q][to + q]
      <4>1. /\ Roots(leaves)[n][lo] = NodeHash(Roots(leaves)[p][lo], Roots(leaves)[n - p][lo + p])
            /\ Roots(others)[k][to] = NodeHash(Roots(others)[q][to], Roots(others)[k - q][to + q])
        <5>1. Roots(leaves)[n][lo] = NodeHash(Roots(leaves)[p][lo], Roots(leaves)[n - p][lo + p])
          BY <2>4, <3>0, RootOfParts
        <5>2. Roots(others)[k][to] = NodeHash(Roots(others)[q][to], Roots(others)[k - q][to + q])
          BY <2>4, <3>1, RootOfParts
        <5> QED
          BY <5>1, <5>2
      <4> DEFINE a == Roots(leaves)[p][lo]
                 b == Roots(leaves)[n - p][lo + p]
                 c == Roots(others)[q][to]
                 d == Roots(others)[k - q][to + q]
      <4>2. NodeHash(a, b) = NodeHash(c, d)
        BY <4>1
      <4> HIDE DEF a, b, c, d
      <4>3. a = c /\ b = d
        BY <4>2, NodeParts
      <4> QED
        BY <4>3 DEF a, b, c, d
    <3>3. p = q
      <4>1. AreLeaves(leaves, lo, p) /\ AreLeaves(others, to, q)
        BY <3>0, <3>1, LeavesOfPart
      <4> QED
        BY <2>0, <3>0, <3>1, <3>2, <4>1
    <3>4. AreLeaves(leaves, lo + p, n - p) /\ AreLeaves(others, to + q, k - q)
      BY <3>0, <3>1, LeavesOfPart
    <3>5. n - p = k - q
      <4>1. lo + p \in Nat /\ to + q \in Nat
        OBVIOUS
      <4> QED
        BY <2>0, <3>0, <3>1, <3>2, <3>4, <4>1
    <3> QED
      BY <3>1, <3>3, <3>5
  <2> QED
    BY <2>3, <2>4
<1> HIDE DEF S
<1>2. \A n \in Nat : n \in S
  BY <1>1, LeadingPowers!Induction
<1> QED
  BY <1>2 DEF S

\* Two sequences of leaves with one root are the same (merkle_root; README.md:130-131:
\* "changing a report digest, swapping leaves, or deleting history changes the root").
THEOREM RootsDecideLeaves ==
  ASSUME NEW D, NEW leaves \in Seq({LeafHash(d) : d \in D}),
         NEW others \in Seq({LeafHash(d) : d \in D}),
         MerkleRoot(leaves) = MerkleRoot(others)
  PROVE  leaves = others
<1>1. AreLeaves(leaves, 0, Len(leaves)) /\ AreLeaves(others, 0, Len(others))
  BY DEF AreLeaves
<1>2. /\ Len(leaves) \in Nat /\ Len(others) \in Nat /\ 0 \in Nat
      /\ Roots(leaves)[Len(leaves)][0] = Roots(others)[Len(others)][0]
  BY DEF MerkleRoot
<1>3. Len(leaves) = Len(others)
  BY <1>1, <1>2, RootsTellSizes
<1>4. Roots(leaves)[Len(leaves)][0] = Roots(others)[Len(leaves)][0]
  BY <1>2, <1>3
<1>5. SameLeaves(leaves, 0, others, 0, Len(leaves))
  BY <1>2, <1>4, RootsDecideSlices
<1>6. \A i \in 1 .. Len(leaves) : leaves[i] = others[i]
  BY <1>5 DEF SameLeaves
<1> QED
  BY <1>3, <1>6

-----------------------------------------------------------------------------
(***************************************************************************)
(* Inclusion.                                                              *)
(***************************************************************************)

\* proof begins with the steps of walk.
Begins(walk, proof) ==
  Len(walk) <= Len(proof) /\ \A i \in 1 .. Len(walk) : proof[i] = walk[i]

LEMMA BeginsBefore ==
  ASSUME NEW s, NEW e, NEW proof, IsSequence(s), IsSequence(proof), Begins(Append(s, e), proof)
  PROVE  /\ Begins(s, proof)
         /\ Len(s) + 1 \in 1 .. Len(proof)
         /\ proof[Len(s) + 1] = e
BY Appended, SequenceFacts DEF Begins

\* The steps of walk stand on these sides.
HasSides(walk, sides) ==
  /\ IsSequence(walk) /\ IsSequence(sides) /\ Len(sides) = Len(walk)
  /\ \A i \in 1 .. Len(sides) :
       \E h : walk[i] = Step(sides[i], h) /\ sides[i] \in {"left", "right"}

\* A proof that inclusion_proof builds has the sides that verify_inclusion expects.
LEMMA WalksHaveSides ==
  ASSUME NEW leaves
  PROVE  \A n \in Nat : \A lo \in Nat, index \in 0 .. n - 1 :
           HasSides(Walks(leaves)[n][lo][index], Sides[n][index])
<1> DEFINE S == {n \in Nat : \A lo \in Nat, index \in 0 .. n - 1 :
                   HasSides(Walks(leaves)[n][lo][index], Sides[n][index])}
<1>0. ASSUME NEW w, NEW s, NEW h, NEW side \in {"left", "right"}, HasSides(w, s)
      PROVE  HasSides(Append(w, Step(side, h)), Append(s, side))
  <2>0. /\ IsSequence(w) /\ IsSequence(s) /\ Len(s) = Len(w)
        /\ \A i \in 1 .. Len(s) : \E g : w[i] = Step(s[i], g) /\ s[i] \in {"left", "right"}
    BY <1>0 DEF HasSides
  <2>1. /\ IsSequence(Append(w, Step(side, h))) /\ IsSequence(Append(s, side))
        /\ Len(Append(w, Step(side, h))) = Len(w) + 1 /\ Len(Append(s, side)) = Len(s) + 1
        /\ Len(s) \in Nat /\ Len(s) = Len(w)
    BY <2>0, Appended
  <2>2. ASSUME NEW i \in 1 .. Len(s) + 1
        PROVE  \E g : /\ Append(w, Step(side, h))[i] = Step(Append(s, side)[i], g)
                      /\ Append(s, side)[i] \in {"left", "right"}
    <3>1. CASE i = Len(s) + 1
      BY <2>0, <2>1, <3>1, Appended
    <3>2. CASE i \in 1 .. Len(s)
      BY <2>0, <2>1, <3>2, Appended
    <3> QED
      BY <2>1, <3>1, <3>2
  <2> QED
    BY <2>1, <2>2 DEF HasSides
<1>1. ASSUME NEW n \in Nat, \A i \in 0 .. n - 1 : i \in S
      PROVE  n \in S
  <2> SUFFICES ASSUME NEW lo \in Nat, NEW index \in 0 .. n - 1
               PROVE  HasSides(Walks(leaves)[n][lo][index], Sides[n][index])
    OBVIOUS
  <2>0. \A m \in 0 .. n - 1 : \A a \in Nat, i \in 0 .. m - 1 :
          HasSides(Walks(leaves)[m][a][i], Sides[m][i])
    BY <1>1
  <2>1. CASE n = 1
    <3>1. Walks(leaves)[n][lo][index] = <<>> /\ Sides[n][index] = <<>>
      BY <2>1, LeafHasNoSides
    <3> QED
      BY <3>1, ShortSequences DEF HasSides
  <2>2. CASE n >= 2
    <3>1. PICK k \in 1 .. n - 1 : k = Split(n) /\ k \in 0 .. n - 1 /\ n - k \in 0 .. n - 1
      BY <2>2, SplitParts
    <3>2. CASE index < k
      <4>1. /\ Walks(leaves)[n][lo][index]
                 = Append(Walks(leaves)[k][lo][index], Step("right", Roots(leaves)[n - k][lo + k]))
            /\ Sides[n][index] = Append(Sides[k][index], "right")
        BY <2>2, <3>1, <3>2, WalkValue, SidesValue
      <4>2. HasSides(Walks(leaves)[k][lo][index], Sides[k][index])
        BY <2>0, <3>1, <3>2
      <4> QED
        BY <1>0, <4>1, <4>2
    <3>3. CASE index >= k
      <4>1. /\ Walks(leaves)[n][lo][index]
                 = Append(Walks(leaves)[n - k][lo + k][index - k], Step("left", Roots(leaves)[k][lo]))
            /\ Sides[n][index] = Append(Sides[n - k][index - k], "left")
        BY <2>2, <3>1, <3>3, WalkValue, SidesValue
      <4>2. lo + k \in Nat /\ index - k \in 0 .. (n - k) - 1
        BY <3>3
      <4>3. HasSides(Walks(leaves)[n - k][lo + k][index - k], Sides[n - k][index - k])
        BY <2>0, <3>1, <4>2
      <4> QED
        BY <1>0, <4>1, <4>3
    <3> QED
      BY <3>1, <3>2, <3>3
  <2> QED
    BY <2>1, <2>2
<1> HIDE DEF S
<1>2. \A n \in Nat : n \in S
  BY <1>1, LeadingPowers!Induction
<1> QED
  BY <1>2 DEF S

LeadsToRoot(leaves, proof, n, lo, index) ==
  Begins(Walks(leaves)[n][lo][index], proof)
    => Path(leaves[lo + index + 1], proof)[Len(Walks(leaves)[n][lo][index])] = Roots(leaves)[n][lo]

\* Along the steps of such a proof, the loop of verify_inclusion computes the root.
LEMMA PathsLeadToRoots ==
  ASSUME NEW leaves, NEW proof, IsSequence(proof)
  PROVE  \A n \in Nat : \A lo \in Nat, index \in 0 .. n - 1 : LeadsToRoot(leaves, proof, n, lo, index)
<1> DEFINE Leads(n, lo, index) == LeadsToRoot(leaves, proof, n, lo, index)
<1> DEFINE S == {n \in Nat : \A lo \in Nat, index \in 0 .. n - 1 : Leads(n, lo, index)}
<1>0. ASSUME NEW w, IsSequence(w), NEW side, NEW h, NEW leaf, Begins(Append(w, Step(side, h)), proof)
      PROVE  /\ Begins(w, proof)
             /\ Path(leaf, proof)[Len(Append(w, Step(side, h)))]
                  = Joined(Path(leaf, proof)[Len(w)], Step(side, h))
  <2>1. /\ Begins(w, proof) /\ Len(w) \in Nat
        /\ Len(Append(w, Step(side, h))) = Len(w) + 1
        /\ proof[Len(w) + 1] = Step(side, h)
    BY <1>0, BeginsBefore, Appended
  <2>2. Path(leaf, proof)[Len(w) + 1] = Joined(Path(leaf, proof)[(Len(w) + 1) - 1], proof[Len(w) + 1])
    BY <2>1, PathValue
  <2>3. (Len(w) + 1) - 1 = Len(w)
    BY <2>1
  <2> QED
    BY <2>1, <2>2, <2>3
<1>1. ASSUME NEW n \in Nat, \A i \in 0 .. n - 1 : i \in S
      PROVE  n \in S
  <2> SUFFICES ASSUME NEW lo \in Nat, NEW index \in 0 .. n - 1,
                      Begins(Walks(leaves)[n][lo][index], proof)
               PROVE  Path(leaves[lo + index + 1], proof)[Len(Walks(leaves)[n][lo][index])]
                        = Roots(leaves)[n][lo]
    BY DEF LeadsToRoot
  <2>0. \A m \in 0 .. n - 1 : \A a \in Nat, i \in 0 .. m - 1 : Leads(m, a, i)
    BY <1>1
  <2> HIDE DEF Leads
  <2>1. CASE n = 1
    <3>1. Walks(leaves)[n][lo][index] = <<>> /\ index = 0
      BY <2>1, LeafHasNoSides
    <3>2. Roots(leaves)[n][lo] = leaves[lo + 1]
      BY <2>1, RootValue
    <3>3. Path(leaves[lo + index + 1], proof)[0] = leaves[lo + index + 1]
      BY PathValue
    <3> QED
      BY <3>1, <3>2, <3>3
  <2>2. CASE n >= 2
    <3>1. PICK k \in 1 .. n - 1 : k = Split(n) /\ k \in 0 .. n - 1 /\ n - k \in 0 .. n - 1
      BY <2>2, SplitParts
    <3>2. Roots(leaves)[n][lo] = NodeHash(Roots(leaves)[k][lo], Roots(leaves)[n - k][lo + k])
      BY <2>2, <3>1, RootOfParts
    <3>3. CASE index < k
      <4> DEFINE w == Walks(leaves)[k][lo][index]
      <4>1. Walks(leaves)[n][lo][index] = Append(w, Step("right", Roots(leaves)[n - k][lo + k]))
        BY <2>2, <3>1, <3>3, WalkValue
      <4>2. IsSequence(w)
        <5>1. k \in Nat /\ index \in 0 .. k - 1
          BY <3>3
        <5> QED
          BY <5>1, WalksHaveSides DEF HasSides
      <4>3. Leads(k, lo, index)
        BY <2>0, <3>1, <3>3
      <4>4. Begins(w, proof) => Path(leaves[lo + index + 1], proof)[Len(w)] = Roots(leaves)[k][lo]
        BY <4>3 DEF Leads, LeadsToRoot
      <4> HIDE DEF w
      <4>5. /\ Begins(w, proof)
            /\ Path(leaves[lo + index + 1], proof)[Len(Walks(leaves)[n][lo][index])]
                 = Joined(Path(leaves[lo + index + 1], proof)[Len(w)],
                          Step("right", Roots(leaves)[n - k][lo + k]))
        BY <1>0, <4>1, <4>2
      <4> QED
        BY <3>2, <4>4, <4>5 DEF Joined, Step
    <3>4. CASE index >= k
      <4> DEFINE w == Walks(leaves)[n - k][lo + k][index - k]
      <4>1. Walks(leaves)[n][lo][index] = Append(w, Step("left", Roots(leaves)[k][lo]))
        BY <2>2, <3>1, <3>4, WalkValue
      <4>2. lo + k \in Nat /\ index - k \in 0 .. (n - k) - 1 /\ (lo + k) + (index - k) + 1 = lo + index + 1
        BY <3>4
      <4>3. IsSequence(w)
        <5>1. n - k \in Nat
          BY <3>1
        <5> QED
          BY <4>2, <5>1, WalksHaveSides DEF HasSides
      <4>4. Leads(n - k, lo + k, index - k)
        BY <2>0, <3>1, <4>2
      <4>5. Begins(w, proof)
              => Path(leaves[lo + index + 1], proof)[Len(w)] = Roots(leaves)[n - k][lo + k]
        BY <4>2, <4>4 DEF Leads, LeadsToRoot
      <4> HIDE DEF w
      <4>6. /\ Begins(w, proof)
            /\ Path(leaves[lo + index + 1], proof)[Len(Walks(leaves)[n][lo][index])]
                 = Joined(Path(leaves[lo + index + 1], proof)[Len(w)], Step("left", Roots(leaves)[k][lo]))
        BY <1>0, <4>1, <4>3
      <4> QED
        BY <3>2, <4>5, <4>6 DEF Joined, Step
    <3> QED
      BY <3>1, <3>3, <3>4
  <2> QED
    BY <2>1, <2>2
<1> HIDE DEF S
<1>2. \A n \in Nat : n \in S
  BY <1>1, LeadingPowers!Induction
<1> QED
  BY <1>2 DEF S

SameSides(p, q, n) == \A i \in 1 .. n : p[i].side = q[i].side
SameHashes(p, q, n) == \A i \in 1 .. n : p[i].hash = q[i].hash

\* Two runs of the loop with the same sides end alike only if they are alike.
LEMMA PathsDiffer ==
  ASSUME NEW leaf, NEW other, NEW p, NEW q
  PROVE  \A n \in Nat :
           SameSides(p, q, n) /\ Path(leaf, p)[n] = Path(other, q)[n]
             => leaf = other /\ SameHashes(p, q, n)
<1> DEFINE Differ(n) ==
      SameSides(p, q, n) /\ Path(leaf, p)[n] = Path(other, q)[n]
        => leaf = other /\ SameHashes(p, q, n)
<1> DEFINE S == {n \in Nat : Differ(n)}
<1>1. ASSUME NEW n \in Nat, \A i \in 0 .. n - 1 : i \in S
      PROVE  n \in S
  <2> SUFFICES ASSUME SameSides(p, q, n),
                      Path(leaf, p)[n] = Path(other, q)[n]
               PROVE  leaf = other /\ SameHashes(p, q, n)
    OBVIOUS
  <2>1. CASE n = 0
    <3>1. Path(leaf, p)[0] = leaf /\ Path(other, q)[0] = other
      BY PathValue
    <3> QED
      BY <2>1, <3>1 DEF SameHashes
  <2>2. CASE n # 0
    <3> DEFINE a == Path(leaf, p)[n - 1]
               b == Path(other, q)[n - 1]
    <3>1. Path(leaf, p)[n] = Joined(a, p[n]) /\ Path(other, q)[n] = Joined(b, q[n])
      BY <2>2, PathValue
    <3>2. n - 1 \in 0 .. n - 1 /\ Differ(n - 1)
      <4>1. n - 1 \in S
        BY <1>1, <2>2
      <4> QED
        BY <2>2, <4>1
    <3>3. a = b => leaf = other /\ SameHashes(p, q, n - 1)
      BY <3>2 DEF SameSides
    <3> HIDE DEF a, b
    <3>4. p[n].side = q[n].side
      BY <2>2 DEF SameSides
    <3>5. a = b /\ p[n].hash = q[n].hash
      <4> DEFINE x == p[n].hash
                 y == q[n].hash
      <4>1. Joined(a, p[n]) = IF p[n].side = "left" THEN NodeHash(x, a) ELSE NodeHash(a, x)
        BY DEF Joined
      <4>2. Joined(b, q[n]) = IF p[n].side = "left" THEN NodeHash(y, b) ELSE NodeHash(b, y)
        BY <3>4 DEF Joined
      <4>3. Joined(a, p[n]) = Joined(b, q[n])
        BY <3>1
      <4> HIDE DEF x, y
      <4>4. a = b /\ x = y
        <5>1. CASE p[n].side = "left"
          <6>1. NodeHash(x, a) = NodeHash(y, b)
            BY <4>1, <4>2, <4>3, <5>1
          <6> QED
            BY <6>1, NodeParts
        <5>2. CASE p[n].side # "left"
          <6>1. NodeHash(a, x) = NodeHash(b, y)
            BY <4>1, <4>2, <4>3, <5>2
          <6> QED
            BY <6>1, NodeParts
        <5> QED
          BY <5>1, <5>2
      <4> QED
        BY <4>4 DEF x, y
    <3> QED
      BY <2>2, <3>3, <3>5 DEF SameHashes
  <2> QED
    BY <2>1, <2>2
<1> HIDE DEF S
<1>2. \A n \in Nat : n \in S
  BY <1>1, LeadingPowers!Induction
<1>3. \A n \in Nat : Differ(n)
  BY <1>2 DEF S
<1> QED
  BY <1>3

LEMMA PathLeadsToRoot ==
  ASSUME NEW leaves, NEW proof, IsSequence(proof), NEW n \in Nat, NEW index \in 0 .. n - 1,
         Begins(Walks(leaves)[n][0][index], proof)
  PROVE  Path(leaves[index + 1], proof)[Len(Walks(leaves)[n][0][index])] = Roots(leaves)[n][0]
<1>1. 0 \in Nat /\ 0 + index + 1 = index + 1
  OBVIOUS
<1>2. LeadsToRoot(leaves, proof, n, 0, index)
  BY <1>1, PathsLeadToRoots
<1> QED
  BY <1>1, <1>2 DEF LeadsToRoot

LeafAt(leaves, index) == leaves[index + 1]

\* proof is a sequence of steps, whatever their hashes are.
AreSteps(proof) ==
  IsSequence(proof) /\ \A i \in 1 .. Len(proof) : proof[i] = Step(proof[i].side, proof[i].hash)

DecidesInclusion(leaves, n, index, proof, leaf) ==
  VerifyInclusion(leaf, index, n, proof, Roots(leaves)[n][0])
    <=> leaf = LeafAt(leaves, index) /\ proof = Walks(leaves)[n][0][index]

\* The same for the leaves of a tree as a slice; the theorem below is in the terms of
\* the code.
LEMMA InclusionOfSlice ==
  ASSUME NEW leaves, NEW n \in Nat, NEW index \in 0 .. n - 1,
         NEW proof, AreSteps(proof), NEW leaf
  PROVE  DecidesInclusion(leaves, n, index, proof, leaf)
<1> DEFINE g == Walks(leaves)[n][0][index]
           sides == Sides[n][index]
           root == Roots(leaves)[n][0]
           own == LeafAt(leaves, index)
<1>1. 0 \in Nat
  OBVIOUS
<1>2. /\ IsSequence(g) /\ IsSequence(sides) /\ Len(sides) = Len(g)
      /\ \A i \in 1 .. Len(sides) : \E h : g[i] = Step(sides[i], h) /\ sides[i] \in {"left", "right"}
  <2>1. HasSides(g, sides)
    BY <1>1, WalksHaveSides
  <2> HIDE DEF g, sides
  <2> QED
    BY <2>1 DEF HasSides
<1>3. Begins(g, g) => Path(own, g)[Len(g)] = root
  BY <1>2, PathLeadsToRoot DEF LeafAt
<1>4. sides = Sides[n][index]
  OBVIOUS
<1> HIDE DEF g, sides, root, own
<1>5. /\ IsSequence(proof) /\ Len(proof) \in Nat /\ DOMAIN proof = 1 .. Len(proof)
      /\ \A i \in 1 .. Len(proof) : proof[i] = Step(proof[i].side, proof[i].hash)
  BY SequenceFacts DEF AreSteps
<1>6. /\ Len(g) \in Nat /\ DOMAIN g = 1 .. Len(g)
      /\ DOMAIN sides = 1 .. Len(g)
  BY <1>2, SequenceFacts
<1>7. \A i \in 1 .. Len(g) : g[i].side = sides[i] /\ g[i] = Step(sides[i], g[i].hash)
                             /\ sides[i] \in {"left", "right"}
  <2> SUFFICES ASSUME NEW i \in 1 .. Len(g)
               PROVE  g[i].side = sides[i] /\ g[i] = Step(sides[i], g[i].hash)
                      /\ sides[i] \in {"left", "right"}
    OBVIOUS
  <2>1. PICK h : g[i] = Step(sides[i], h) /\ sides[i] \in {"left", "right"}
    BY <1>2
  <2>2. Step(sides[i], h).side = sides[i] /\ Step(sides[i], h).hash = h
    BY DEF Step
  <2> QED
    BY <2>1, <2>2
<1>8. Path(own, g)[Len(g)] = root
  <2>1. Begins(g, g)
    BY <1>6 DEF Begins
  <2> QED
    BY <1>3, <2>1
<1>9. SidesMatch(index, n, g)
  <2> DEFINE s == [i \in DOMAIN g |-> g[i].side]
  <2>1. DOMAIN s = 1 .. Len(g) /\ \A i \in 1 .. Len(g) : s[i] = sides[i]
    BY <1>6, <1>7
  <2>2. s \in [1 .. Len(g) -> {"left", "right"}]
    BY <1>6, <1>7
  <2> HIDE DEF s
  <2>3. s \in Seq({"left", "right"}) /\ Len(s) = Len(g)
    BY <1>6, <2>2
  <2>4. s = sides
    BY <1>2, <2>1, <2>3, SequencesEqual DEF IsSequence
  <2> QED
    BY <1>4, <2>4 DEF SidesMatch, s
<1>10. ASSUME VerifyInclusion(leaf, index, n, proof, root)
       PROVE  leaf = own /\ proof = g
  <2>1. [i \in DOMAIN proof |-> proof[i].side] = sides
    BY <1>4, <1>10 DEF VerifyInclusion, SidesMatch
  <2>2. DOMAIN proof = DOMAIN sides /\ \A i \in DOMAIN proof : proof[i].side = sides[i]
    BY <2>1, Zenon
  <2>3. Len(proof) = Len(g)
    <3>1. 1 .. Len(proof) = 1 .. Len(g)
      BY <1>5, <1>6, <2>2
    <3> QED
      BY <1>5, <1>6, <3>1, SameRange
  <2>4. \A i \in 1 .. Len(g) : proof[i].side = g[i].side
    BY <1>6, <1>7, <2>2
  <2>5. Path(leaf, proof)[Len(g)] = Path(own, g)[Len(g)]
    BY <1>8, <1>10, <2>3 DEF VerifyInclusion
  <2>6. leaf = own /\ SameHashes(proof, g, Len(g))
    <3>1. SameSides(proof, g, Len(g))
      BY <2>4 DEF SameSides
    <3>2. \A k \in Nat : SameSides(proof, g, k) /\ Path(leaf, proof)[k] = Path(own, g)[k]
                           => leaf = own /\ SameHashes(proof, g, k)
      BY PathsDiffer
    <3> QED
      BY <1>6, <2>5, <3>1, <3>2
  <2>7. \A i \in 1 .. Len(proof) : proof[i] = g[i]
    <3> SUFFICES ASSUME NEW i \in 1 .. Len(proof)
                 PROVE  proof[i] = g[i]
      OBVIOUS
    <3>1. i \in 1 .. Len(g)
      BY <2>3
    <3>2. proof[i] = Step(proof[i].side, proof[i].hash) /\ g[i] = Step(g[i].side, g[i].hash)
      BY <1>5, <1>7, <3>1
    <3> QED
      BY <2>4, <2>6, <3>1, <3>2 DEF SameHashes
  <2> QED
    BY <1>2, <1>5, <2>3, <2>6, <2>7, SequencesEqual
<1>11. VerifyInclusion(own, index, n, g, root)
  BY <1>8, <1>9 DEF VerifyInclusion
<1> QED
  BY <1>10, <1>11 DEF DecidesInclusion, g, root, own

LEMMA InclusionOfLeaves ==
  ASSUME NEW leaves, IsSequence(leaves), NEW index \in 0 .. Len(leaves) - 1,
         NEW proof, AreSteps(proof), NEW leaf
  PROVE  VerifyInclusion(leaf, index, Len(leaves), proof, MerkleRoot(leaves))
           <=> leaf = leaves[index + 1] /\ proof = InclusionProof(leaves, index)
<1> DEFINE n == Len(leaves)
<1>1. n \in Nat /\ index \in 0 .. n - 1
  BY SequenceFacts
<1> HIDE DEF n
<1>2. DecidesInclusion(leaves, n, index, proof, leaf)
  BY <1>1, InclusionOfSlice
<1> QED
  BY <1>2 DEF DecidesInclusion, n, LeafAt, InclusionProof, MerkleRoot

LEMMA InclusionProofHasSteps ==
  ASSUME NEW leaves, IsSequence(leaves), NEW index \in 0 .. Len(leaves) - 1
  PROVE  AreSteps(InclusionProof(leaves, index))
<1> DEFINE n == Len(leaves)
           g == Walks(leaves)[n][0][index]
           sides == Sides[n][index]
<1>1. n \in Nat /\ index \in 0 .. n - 1 /\ 0 \in Nat
  BY SequenceFacts
<1> HIDE DEF n
<1>2. HasSides(g, sides)
  BY <1>1, WalksHaveSides
<1>3. InclusionProof(leaves, index) = g
  BY DEF InclusionProof, n
<1> HIDE DEF g, sides
<1>4. ASSUME NEW i \in 1 .. Len(g)
      PROVE  g[i] = Step(g[i].side, g[i].hash)
  <2>1. PICK h : g[i] = Step(sides[i], h)
    BY <1>2 DEF HasSides
  <2> QED
    BY <2>1 DEF Step
<1> QED
  BY <1>2, <1>3, <1>4 DEF AreSteps, HasSides

\* The proof that is built for a leaf is accepted for it, and nothing else is: another
\* leaf or another proof is refused, for trees of every size (inclusion_proof and
\* verify_inclusion).
THEOREM InclusionIsDecided ==
  ASSUME NEW D, NEW leaves \in Seq(D), NEW index \in 0 .. Len(leaves) - 1,
         NEW H, NEW proof \in Seq([side : {"left", "right"}, hash : H]), NEW leaf
  PROVE  VerifyInclusion(leaf, index, Len(leaves), proof, MerkleRoot(leaves))
           <=> leaf = leaves[index + 1] /\ proof = InclusionProof(leaves, index)
<1>1. AreSteps(proof)
  <2>1. IsSequence(proof)
    BY DEF IsSequence
  <2>2. Len(proof) \in Nat /\ DOMAIN proof = 1 .. Len(proof)
    OBVIOUS
  <2>3. \A i \in 1 .. Len(proof) : proof[i] \in [side : {"left", "right"}, hash : H]
    BY ElementOfSeq
  <2>4. \A s \in [side : {"left", "right"}, hash : H] : s = [side |-> s.side, hash |-> s.hash]
    OBVIOUS
  <2> QED
    BY <2>1, <2>2, <2>3, <2>4 DEF Step, AreSteps
<1>2. IsSequence(leaves)
  BY DEF IsSequence
<1> QED
  BY <1>1, <1>2, InclusionOfLeaves, Zenon

-----------------------------------------------------------------------------
(***************************************************************************)
(* Consistency: the positions that verify_consistency moves up.            *)
(***************************************************************************)

LEMMA Divisions ==
  ASSUME NEW x \in Nat, NEW u \in Nat \ {0}
  PROVE  /\ x \div u \in Nat
         /\ Half(x \div u) = x \div (2 * u)
         /\ Half(x) \div u = x \div (2 * u)
BY DEF Half

LEMMA Quotient ==
  ASSUME NEW w \in Nat \ {0}, NEW q \in Nat, NEW r \in 0 .. w - 1
  PROVE  (w * q + r) \div w = q
OBVIOUS

\* Dividing by u and then by r is dividing by their product.
DividesTwice(x, u, r) == (x \div u) \div r = x \div (u * r)

LEMMA DividedTwice ==
  ASSUME NEW x \in Nat, NEW u \in Nat \ {0}, NEW r \in Nat \ {0}
  PROVE  DividesTwice(x, u, r)
<1>1. PICK a \in Nat, b \in 0 .. u - 1 : x = u * a + b /\ a = x \div u
  <2>1. x = u * (x \div u) + (x % u) /\ x \div u \in Nat /\ x % u \in 0 .. u - 1
    OBVIOUS
  <2> QED
    BY <2>1
<1>2. PICK c \in Nat, d \in 0 .. r - 1 : a = r * c + d /\ c = a \div r
  <2>1. a = r * (a \div r) + (a % r) /\ a \div r \in Nat /\ a % r \in 0 .. r - 1
    OBVIOUS
  <2> QED
    BY <2>1
<1>3. u * d + b \in 0 .. u * r - 1
  <2>1. u * (r - 1 - d) >= 0
    BY <1>2
  <2>2. u * (r - 1 - d) = u * r - u - u * d
    BY <1>2
  <2>3. u * d >= 0
    BY <1>2
  <2>4. u * d \in Int /\ u * r \in Int /\ b \in 0 .. u - 1
    BY <1>1, <1>2
  <2> QED
    BY <2>1, <2>2, <2>3, <2>4
<1>4. x = (u * r) * c + (u * d + b)
  <2>1. x = u * (r * c + d) + b
    BY <1>1, <1>2
  <2>2. u * (r * c + d) = (u * r) * c + u * d
    <3>1. PICK e \in Nat : e = r * c
      BY <1>2
    <3>2. u * e = (u * r) * c
      BY <1>2, <3>1
    <3>3. u * (e + d) = u * e + u * d
      BY <1>2, <3>1
    <3> QED
      BY <3>1, <3>2, <3>3
  <2>3. u * (r * c + d) \in Int /\ (u * r) * c \in Int /\ u * d \in Int /\ b \in Int
    BY <1>1, <1>2
  <2> QED
    BY <2>1, <2>2, <2>3
<1>5. u * r \in Nat \ {0}
  OBVIOUS
<1>6. x \div (u * r) = c
  BY <1>3, <1>4, <1>5, Quotient
<1> QED
  BY <1>1, <1>2, <1>6 DEF DividesTwice

\* A power of two divides a greater one.
LEMMA PowersDivide ==
  \A w \in Nat : \A u : IsPower(w) /\ IsPower(u) /\ u <= w => \E r : IsPower(r) /\ w = u * r
<1> DEFINE S == {w \in Nat : \A u : IsPower(w) /\ IsPower(u) /\ u <= w
                                      => \E r : IsPower(r) /\ w = u * r}
<1>1. ASSUME NEW w \in Nat, \A i \in 0 .. w - 1 : i \in S
      PROVE  w \in S
  <2> SUFFICES ASSUME NEW u, IsPower(w), IsPower(u), u <= w
               PROVE  \E r : IsPower(r) /\ w = u * r
    OBVIOUS
  <2>0. u \in Nat \ {0}
    BY DEF IsPower
  <2>1. CASE u = w
    BY <2>0, <2>1, PowersDouble
  <2>2. CASE u < w
    <3>1. IsPower(Half(w)) /\ w = 2 * Half(w)
      BY <2>0, <2>2, HalfOfPower
    <3>2. Half(w) \in 0 .. w - 1 /\ u <= Half(w)
      <4>1. 2 * u <= w
        BY <2>2, PowersOrder
      <4>2. Half(w) \in Nat \ {0}
        BY <3>1 DEF IsPower
      <4> QED
        BY <2>0, <3>1, <4>1, <4>2
    <3>3. PICK r : IsPower(r) /\ Half(w) = u * r
      BY <1>1, <3>1, <3>2
    <3>4. IsPower(2 * r) /\ r \in Nat
      BY <3>3, PowersDouble DEF IsPower
    <3>5. w = u * (2 * r)
      BY <2>0, <3>1, <3>3, <3>4
    <3> QED
      BY <3>4, <3>5
  <2> QED
    BY <2>0, <2>1, <2>2
<1> HIDE DEF S
<1>2. \A w \in Nat : w \in S
  BY <1>1, LeadingPowers!Induction
<1> QED
  BY <1>2 DEF S

SkipsTo(r, e, s) == SkipRight[e * r + (r - 1)][s] = [fn |-> e, sn |-> s \div r]

\* The old tree's last leaf is the last one of a subtree of r leaves that is a left
\* child: the verifier starts there.
LEMMA SkipReaches ==
  \A r \in Nat : \A e, s \in Nat : IsPower(r) /\ ~ Odd(e) => SkipsTo(r, e, s)
<1> DEFINE S == {r \in Nat : \A e, s \in Nat : IsPower(r) /\ ~ Odd(e) => SkipsTo(r, e, s)}
<1>1. ASSUME NEW r \in Nat, \A i \in 0 .. r - 1 : i \in S
      PROVE  r \in S
  <2> SUFFICES ASSUME NEW e \in Nat, NEW s \in Nat, IsPower(r), ~ Odd(e)
               PROVE  SkipsTo(r, e, s)
    OBVIOUS
  <2>1. CASE r = 1
    <3>1. e * r + (r - 1) = e /\ s \div r = s
      BY <2>1
    <3> QED
      BY <3>1, SkipRightValue DEF SkipsTo
  <2>2. CASE r >= 2
    <3> DEFINE h == Half(r)
    <3>1. IsPower(h) /\ r = 2 * h
      BY <2>2, HalfOfPower
    <3> HIDE DEF h
    <3>2. h \in Nat \ {0} /\ h \in 0 .. r - 1 /\ Half(s) \in Nat
      <4>1. h \in Nat \ {0}
        BY <3>1 DEF IsPower
      <4> QED
        BY <3>1, <4>1, Halves
    <3>3. SkipRight[e * h + (h - 1)][Half(s)] = [fn |-> e, sn |-> Half(s) \div h]
      <4>1. SkipsTo(h, e, Half(s))
        BY <1>1, <3>1, <3>2
      <4> QED
        BY <4>1 DEF SkipsTo
    <3>4. PICK x \in Nat : x = e * h + (h - 1)
      <4>1. e * h \in Nat /\ h - 1 \in Nat
        BY <3>2
      <4> QED
        BY <4>1
    <3>5. e * r + (r - 1) = 2 * x + 1
      BY <3>1, <3>2, <3>4
    <3>6. PICK y \in Nat : y = 2 * x + 1 /\ Odd(y) /\ Half(y) = x
      BY DEF Odd, Half
    <3>7. SkipRight[y][s] = SkipRight[x][Half(s)]
      <4>1. SkipRight[y][s] = SkipRight[Half(y)][Half(s)]
        BY <3>6, SkipRightValue
      <4> QED
        BY <3>6, <4>1
    <3>8. Half(s) \div h = s \div r
      BY <3>1, <3>2, Divisions
    <3> QED
      BY <3>3, <3>4, <3>5, <3>6, <3>7, <3>8 DEF SkipsTo
  <2>3. r \in Nat \ {0}
    BY DEF IsPower
  <2> QED
    BY <2>1, <2>2, <2>3
<1> HIDE DEF S
<1>2. \A r \in Nat : r \in S
  BY <1>1, LeadingPowers!Induction
<1> QED
  BY <1>2 DEF S

ClimbsTo(r, q, s) == Climb[q * r][s] = [fn |-> q, sn |-> s \div r]

\* From the first node of a row below a right child, the verifier climbs to the child.
LEMMA ClimbReaches ==
  \A r \in Nat : \A q, s \in Nat : IsPower(r) /\ Odd(q) => ClimbsTo(r, q, s)
<1> DEFINE S == {r \in Nat : \A q, s \in Nat : IsPower(r) /\ Odd(q) => ClimbsTo(r, q, s)}
<1>1. ASSUME NEW r \in Nat, \A i \in 0 .. r - 1 : i \in S
      PROVE  r \in S
  <2> SUFFICES ASSUME NEW q \in Nat, NEW s \in Nat, IsPower(r), Odd(q)
               PROVE  ClimbsTo(r, q, s)
    OBVIOUS
  <2>1. CASE r = 1
    <3>1. q * r = q /\ s \div r = s
      BY <2>1
    <3> QED
      BY <3>1, ClimbValue DEF ClimbsTo
  <2>2. CASE r >= 2
    <3> DEFINE h == Half(r)
    <3>1. IsPower(h) /\ r = 2 * h
      BY <2>2, HalfOfPower
    <3> HIDE DEF h
    <3>2. h \in Nat \ {0} /\ h \in 0 .. r - 1 /\ Half(s) \in Nat
      <4>1. h \in Nat \ {0}
        BY <3>1 DEF IsPower
      <4> QED
        BY <3>1, <4>1, Halves
    <3>3. Climb[q * h][Half(s)] = [fn |-> q, sn |-> Half(s) \div h]
      <4>1. ClimbsTo(h, q, Half(s))
        BY <1>1, <3>1, <3>2
      <4> QED
        BY <4>1 DEF ClimbsTo
    <3>4. PICK x \in Nat \ {0} : x = q * h
      <4>1. q \in Nat \ {0}
        BY DEF Odd
      <4>2. q * h \in Nat \ {0}
        BY <3>2, <4>1
      <4> QED
        BY <4>2
    <3>5. q * r = 2 * x
      BY <3>1, <3>2, <3>4
    <3>6. PICK y \in Nat \ {0} : y = 2 * x /\ ~ Odd(y) /\ Half(y) = x
      BY DEF Odd, Half
    <3>7. Climb[y][s] = Climb[x][Half(s)]
      <4>1. ~ (y = 0 \/ Odd(y))
        BY <3>6
      <4>2. Climb[y][s] = Climb[Half(y)][Half(s)]
        BY <4>1, ClimbValue
      <4> QED
        BY <3>6, <4>2
    <3>8. Half(s) \div h = s \div r
      BY <3>1, <3>2, Divisions
    <3> QED
      BY <3>3, <3>4, <3>5, <3>6, <3>7, <3>8 DEF ClimbsTo
  <2>3. r \in Nat \ {0}
    BY DEF IsPower
  <2> QED
    BY <2>1, <2>2, <2>3
<1> HIDE DEF S
<1>2. \A r \in Nat : r \in S
  BY <1>1, LeadingPowers!Induction
<1> QED
  BY <1>2 DEF S

LEMMA QuotientBound ==
  ASSUME NEW w \in Nat \ {0}, NEW q \in Nat, NEW x \in Nat, w * q <= x
  PROVE  q <= x \div w
<1>1. PICK a \in Nat, b \in 0 .. w - 1 : x = w * a + b /\ a = x \div w
  <2>1. x = w * (x \div w) + (x % w) /\ x \div w \in Nat /\ x % w \in 0 .. w - 1
    OBVIOUS
  <2> QED
    BY <2>1
<1>2. CASE a + 1 <= q
  <2>1. w * (q - a - 1) >= 0
    BY <1>2
  <2>2. w * (q - a - 1) = w * q - w * a - w
    OBVIOUS
  <2>3. w * q \in Int /\ w * a \in Int
    OBVIOUS
  <2> QED
    BY <1>1, <2>1, <2>2, <2>3
<1> QED
  BY <1>1, <1>2

\* What a round of verify_consistency starts from and leaves.
State(fn, sn, old, new) == [fn |-> fn, sn |-> sn, old |-> old, new |-> new]

LEMMA RoundOnRight ==
  ASSUME NEW f \in Nat, NEW s \in Nat, ~ Odd(f), f # s, NEW old, NEW new, NEW item
  PROVE  Round(State(f, s, old, new), item) = State(Half(f), Half(s), old, NodeHash(new, item))
BY DEF Round, State, TakesLeft

LEMMA RoundOnLeft ==
  ASSUME NEW f \in Nat, NEW s \in Nat, TakesLeft(f, s), NEW g, NEW t,
         Climb[f][s] = [fn |-> g, sn |-> t], NEW old, NEW new, NEW item
  PROVE  Round(State(f, s, old, new), item)
           = State(Half(g), Half(t), NodeHash(item, old), NodeHash(item, new))
BY DEF Round, State

\* at are the rounds over a proof that m of n leaves are the tree's first ones; the
\* proof's first hash is no round's item unless m leaves make a complete tree.
Follows(leaves, n, m, proof, off, at) ==
  LET start == SkipRight[m - 1][n - 1]
      shared == IF start.fn = 0 THEN Roots(leaves)[m][0] ELSE proof[1]
  IN  /\ IsSequence(proof)
      /\ off = IF start.fn = 0 THEN 0 ELSE 1
      /\ at[0] = State(start.fn, start.sn, shared, shared)
      /\ \A i \in Nat \ {0} : i + off <= Len(proof) => at[i] = Round(at[i - 1], proof[i + off])

\* Round j leaves this state, and no round before it started at the top.
Climbed(at, j, state) == j \in Nat /\ at[j] = state /\ \A i \in 0 .. j - 1 : at[i].sn # 0

LEMMA NextRound ==
  ASSUME NEW leaves, NEW n, NEW m, NEW proof, NEW off, NEW at, Follows(leaves, n, m, proof, off, at),
         NEW w, IsSequence(w), NEW item, Begins(Append(w, item), proof),
         NEW f, NEW s, s # 0, NEW old, NEW new, Climbed(at, Len(w) - off, State(f, s, old, new)),
         NEW next, Round(State(f, s, old, new), item) = next
  PROVE  Climbed(at, Len(Append(w, item)) - off, next)
<1> DEFINE j == Len(w) - off
<1>1. /\ IsSequence(proof) /\ off \in 0 .. 1
      /\ \A i \in Nat \ {0} : i + off <= Len(proof) => at[i] = Round(at[i - 1], proof[i + off])
  BY DEF Follows
<1>2. /\ j \in Nat /\ at[j] = State(f, s, old, new)
      /\ \A i \in 0 .. j - 1 : at[i].sn # 0
  BY DEF Climbed
<1>3. /\ Len(w) \in Nat /\ Len(Append(w, item)) = Len(w) + 1
      /\ proof[Len(w) + 1] = item /\ Len(w) + 1 \in 1 .. Len(proof)
  BY <1>1, BeginsBefore, Appended
<1>4. (j + 1) + off = Len(w) + 1 /\ (j + 1) - 1 = j /\ Len(Append(w, item)) - off = j + 1
  BY <1>1, <1>3
<1> HIDE DEF j
<1>5. at[j + 1] = Round(at[j], item)
  <2>1. j + 1 \in Nat \ {0}
    BY <1>2
  <2>2. at[j + 1] = Round(at[(j + 1) - 1], proof[(j + 1) + off])
    BY <1>1, <1>3, <1>4, <2>1
  <2> QED
    BY <1>3, <1>4, <2>2
<1>6. at[j].sn = s
  BY <1>2 DEF State
<1>7. \A i \in 0 .. (j + 1) - 1 : at[i].sn # 0
  BY <1>2, <1>6
<1> QED
  BY <1>2, <1>4, <1>5, <1>7 DEF Climbed

LEMMA SubproofsAreSequences ==
  ASSUME NEW leaves
  PROVE  \A n \in Nat : \A lo \in Nat, m \in 1 .. n, complete \in BOOLEAN :
           IsSequence(Subproofs(leaves)[n][lo][m][complete])
<1> DEFINE S == {n \in Nat : \A lo \in Nat, m \in 1 .. n, complete \in BOOLEAN :
                   IsSequence(Subproofs(leaves)[n][lo][m][complete])}
<1>1. ASSUME NEW n \in Nat, \A i \in 0 .. n - 1 : i \in S
      PROVE  n \in S
  <2> SUFFICES ASSUME NEW lo \in Nat, NEW m \in 1 .. n, NEW complete \in BOOLEAN
               PROVE  IsSequence(Subproofs(leaves)[n][lo][m][complete])
    OBVIOUS
  <2>0. \A i \in 0 .. n - 1 : \A a \in Nat, j \in 1 .. i, c \in BOOLEAN :
          IsSequence(Subproofs(leaves)[i][a][j][c])
    BY <1>1
  <2>1. CASE m = n
    <3>1. \A r : IsSequence(SharedSubtree(r, complete))
      BY ShortSequences DEF SharedSubtree
    <3>2. Subproofs(leaves)[n][lo][m][complete] = SharedSubtree(Roots(leaves)[n][lo], complete)
      BY <2>1, SubproofOfWhole
    <3> QED
      BY <3>1, <3>2
  <2>2. CASE m # n
    <3>1. PICK k \in 1 .. n - 1 : k = Split(n) /\ k \in 0 .. n - 1 /\ n - k \in 0 .. n - 1
      BY <2>2, SplitParts
    <3>0. SubproofHasParts(leaves, n, lo, m, complete, k)
      BY <2>2, <3>1, SubproofOfParts
    <3>2. CASE m <= k
      <4> DEFINE w == Subproofs(leaves)[k][lo][m][complete]
      <4>1. Subproofs(leaves)[n][lo][m][complete] = Append(w, Roots(leaves)[n - k][lo + k])
        BY <3>0, <3>2, Zenon DEF SubproofHasParts
      <4>2. IsSequence(w)
        BY <2>0, <3>1, <3>2
      <4> HIDE DEF w
      <4> QED
        BY <4>1, <4>2, Appended
    <3>3. CASE m > k
      <4> DEFINE w == Subproofs(leaves)[n - k][lo + k][m - k][FALSE]
      <4>1. Subproofs(leaves)[n][lo][m][complete] = Append(w, Roots(leaves)[k][lo])
        BY <3>0, <3>3, Zenon DEF SubproofHasParts
      <4>2. lo + k \in Nat /\ m - k \in 1 .. n - k
        BY <3>3
      <4>3. IsSequence(w)
        BY <2>0, <3>1, <4>2
      <4> HIDE DEF w
      <4> QED
        BY <4>1, <4>3, Appended
    <3> QED
      BY <3>1, <3>2, <3>3
  <2> QED
    BY <2>1, <2>2
<1> HIDE DEF S
<1>2. \A n \in Nat : n \in S
  BY <1>1, LeadingPowers!Induction
<1> QED
  BY <1>2 DEF S

RightIsNext(n, k, q, old, left, right) ==
  /\ (n - 1) \div k # 0
  /\ Round(State(2 * q, (n - 1) \div k, old, left), right)
       = State(q, (n - 1) \div (2 * k), old, NodeHash(left, right))

\* The right sibling of the subtree that the verifier has is the next item.
LEMMA RightSibling ==
  ASSUME NEW n \in Nat, NEW cnt \in Nat, NEW lo \in Nat, NEW q \in Nat, NEW k \in Nat \ {0},
         lo = (2 * k) * q, k < cnt, lo + cnt <= n, NEW old, NEW left, NEW right
  PROVE  RightIsNext(n, k, q, old, left, right)
<1>1. n - 1 \in Nat /\ lo + k <= n - 1
  OBVIOUS
<1>2. k * (2 * q + 1) = lo + k
  <2>1. k * (2 * q + 1) = k * (2 * q) + k
    OBVIOUS
  <2>2. k * (2 * q) = (2 * k) * q
    OBVIOUS
  <2> QED
    BY <2>1, <2>2
<1>3. 2 * q + 1 <= (n - 1) \div k
  BY <1>1, <1>2, QuotientBound
<1>4. PICK s \in Nat : s = (n - 1) \div k /\ Half(s) = (n - 1) \div (2 * k)
  BY <1>1, Divisions
<1>5. PICK f \in Nat : f = 2 * q /\ ~ Odd(f) /\ Half(f) = q
  BY DEF Odd, Half
<1>6. f # s /\ s # 0
  BY <1>3, <1>4, <1>5
<1>7. Round(State(f, s, old, left), right) = State(Half(f), Half(s), old, NodeHash(left, right))
  BY <1>5, <1>6, RoundOnRight
<1> QED
  BY <1>4, <1>5, <1>6, <1>7 DEF RightIsNext

LeftIsNext(n, k, u, q, r, old, new, item) ==
  /\ (n - 1) \div u # 0
  /\ Round(State((2 * q + 1) * r, (n - 1) \div u, old, new), item)
       = State(q, (n - 1) \div (2 * k), NodeHash(item, old), NodeHash(item, new))

\* The left sibling is the next item: the verifier has a right child, or the last node of
\* a row below one.
LEMMA LeftSibling ==
  ASSUME NEW n \in Nat, NEW cnt \in Nat, NEW lo \in Nat, NEW q \in Nat,
         NEW k \in Nat \ {0}, NEW u \in Nat \ {0}, NEW r \in Nat, IsPower(r), k = u * r,
         lo = (2 * k) * q, cnt - k \in 1 .. u, lo + cnt <= n, r = 1 \/ lo + cnt = n,
         NEW old, NEW new, NEW item
  PROVE  LeftIsNext(n, k, u, q, r, old, new, item)
<1>0. r \in Nat \ {0} /\ n - 1 \in Nat
  BY DEF IsPower
<1>1. PICK x \in Nat \ {0} : x = (2 * q + 1) * r
  BY <1>0
<1>2. u * x = lo + k
  <2>1. PICK y \in Nat : y = 2 * q + 1
    OBVIOUS
  <2>2. u * (y * r) = (u * r) * y
    BY <1>0, <2>1
  <2>3. k * y = k * (2 * q) + k
    BY <2>1
  <2>4. k * (2 * q) = (2 * k) * q
    OBVIOUS
  <2> QED
    BY <1>1, <2>1, <2>2, <2>3, <2>4
<1>3. PICK s \in Nat : s = (n - 1) \div u
  BY <1>0, Divisions
<1>4. x <= s
  <2>1. u * x <= n - 1
    BY <1>2
  <2> QED
    BY <1>0, <1>3, <2>1, QuotientBound
<1>5. PICK g \in Nat : g = 2 * q + 1 /\ Odd(g) /\ Half(g) = q
  BY DEF Odd, Half
<1>6. TakesLeft(x, s)
  <2>1. CASE r = 1
    <3>1. x = g
      BY <1>1, <1>5, <2>1
    <3> QED
      BY <1>5, <3>1 DEF TakesLeft
  <2>2. CASE lo + cnt = n
    <3>1. PICK b \in 0 .. u - 1 : b = cnt - k - 1
      OBVIOUS
    <3>2. n - 1 = u * x + b
      BY <1>2, <2>2, <3>1
    <3>3. s = x
      BY <1>3, <3>2, Quotient
    <3> QED
      BY <3>3 DEF TakesLeft
  <2> QED
    BY <2>1, <2>2
<1>7. Climb[x][s] = [fn |-> g, sn |-> (n - 1) \div k]
  <2>1. ClimbsTo(r, g, s)
    BY <1>5, ClimbReaches
  <2>2. s \div r = (n - 1) \div k
    <3>1. PICK z \in Nat : z = n - 1
      BY <1>0
    <3>2. DividesTwice(z, u, r)
      BY <1>0, <3>1, DividedTwice
    <3>3. u * r = k
      BY <1>0
    <3> QED
      BY <1>3, <3>1, <3>2, <3>3 DEF DividesTwice
  <2> QED
    BY <1>1, <1>5, <2>1, <2>2 DEF ClimbsTo
<1>8. Half((n - 1) \div k) = (n - 1) \div (2 * k)
  BY <1>0, Divisions
<1>9. Round(State(x, s, old, new), item)
        = State(Half(g), Half((n - 1) \div k), NodeHash(item, old), NodeHash(item, new))
  BY <1>6, <1>7, RoundOnLeft
<1> QED
  BY <1>1, <1>3, <1>4, <1>5, <1>8, <1>9 DEF LeftIsNext

\* The slice of cnt leaves after the first lo ones is a subtree, and m of n leaves end
\* inside it; it is the q-th one of its row.
InPlace(n, m, cnt, lo, q) ==
  /\ cnt >= 2 /\ lo + cnt <= n /\ lo < m /\ m < lo + cnt
  /\ lo = (2 * Split(cnt)) * q
  /\ cnt = 2 * Split(cnt) \/ lo + cnt = n

ReachesRoot(leaves, n, m, proof, off, at, cnt, lo, q) ==
  LET w == Subproofs(leaves)[cnt][lo][m - lo][lo = 0]
  IN  InPlace(n, m, cnt, lo, q) /\ Begins(w, proof)
        => Climbed(at, Len(w) - off,
                   State(q, (n - 1) \div (2 * Split(cnt)),
                         Roots(leaves)[m - lo][lo], Roots(leaves)[cnt][lo]))

\* The subproof of a subtree leads to the subtree's root, and to that of its old part.
LEMMA SubproofsLeadToRoots ==
  ASSUME NEW leaves, NEW n \in Nat, NEW m \in 1 .. n - 1, NEW proof, NEW off, NEW at,
         Follows(leaves, n, m, proof, off, at)
  PROVE  \A cnt \in Nat : \A lo, q \in Nat : ReachesRoot(leaves, n, m, proof, off, at, cnt, lo, q)
<1> DEFINE Reaches(cnt, lo, q) == ReachesRoot(leaves, n, m, proof, off, at, cnt, lo, q)
           S == {cnt \in Nat : \A lo, q \in Nat : Reaches(cnt, lo, q)}
<1>1. ASSUME NEW cnt \in Nat, \A i \in 0 .. cnt - 1 : i \in S
      PROVE  cnt \in S
  <2> SUFFICES ASSUME NEW lo \in Nat, NEW q \in Nat
               PROVE  Reaches(cnt, lo, q)
    OBVIOUS
  <2>0. \A i \in 0 .. cnt - 1 : \A a, b \in Nat : Reaches(i, a, b)
    BY <1>1
  <2> DEFINE whole == Subproofs(leaves)[cnt][lo][m - lo][lo = 0]
  <2> SUFFICES ASSUME InPlace(n, m, cnt, lo, q), Begins(whole, proof)
               PROVE  Climbed(at, Len(whole) - off,
                              State(q, (n - 1) \div (2 * Split(cnt)),
                                    Roots(leaves)[m - lo][lo], Roots(leaves)[cnt][lo]))
    BY DEF ReachesRoot
  <2>1. cnt >= 2 /\ lo + cnt <= n /\ lo < m /\ m < lo + cnt
    BY DEF InPlace
  <2>2. PICK k \in 1 .. cnt - 1 : /\ k = Split(cnt) /\ IsPower(k) /\ cnt <= 2 * k
                                  /\ k \in 0 .. cnt - 1 /\ cnt - k \in 0 .. cnt - 1
    BY <2>1, SplitParts
  <2>3. lo = (2 * k) * q /\ (cnt = 2 * k \/ lo + cnt = n)
    BY <2>2 DEF InPlace
  <2>4. IsSequence(proof)
    BY DEF Follows
  <2>5. m - lo \in 1 .. cnt /\ m - lo # cnt /\ (lo = 0) \in BOOLEAN
    BY <2>1
  <2>6. Roots(leaves)[cnt][lo] = NodeHash(Roots(leaves)[k][lo], Roots(leaves)[cnt - k][lo + k])
    BY <2>1, <2>2, RootOfParts
  <2> DEFINE left == Roots(leaves)[k][lo]
             right == Roots(leaves)[cnt - k][lo + k]
  <2> DEFINE leftPart == Subproofs(leaves)[k][lo][m - lo][lo = 0]
             rightPart == Subproofs(leaves)[cnt - k][lo + k][(m - lo) - k][FALSE]
  <2>11. /\ m <= lo + k => whole = Append(leftPart, right)
         /\ m > lo + k => whole = Append(rightPart, left)
    <3>1. PICK d \in 1 .. cnt : d = m - lo /\ d # cnt
      BY <2>5
    <3>2. PICK complete \in BOOLEAN : complete = (lo = 0)
      BY <2>5
    <3>3. /\ d <= k => Subproofs(leaves)[cnt][lo][d][complete]
                         = Append(Subproofs(leaves)[k][lo][d][complete], right)
          /\ d > k => Subproofs(leaves)[cnt][lo][d][complete]
                         = Append(Subproofs(leaves)[cnt - k][lo + k][d - k][FALSE], left)
      <4>1. SubproofHasParts(leaves, cnt, lo, d, complete, k)
        BY <2>2, <3>1, SubproofOfParts
      <4> QED
        BY <4>1, Zenon DEF SubproofHasParts
    <3>4. (m <= lo + k <=> d <= k) /\ (m > lo + k <=> d > k)
      BY <2>1, <3>1
    <3>5. /\ whole = Subproofs(leaves)[cnt][lo][d][complete]
          /\ leftPart = Subproofs(leaves)[k][lo][d][complete]
          /\ rightPart = Subproofs(leaves)[cnt - k][lo + k][d - k][FALSE]
      BY <3>1, <3>2, Zenon
    <3> QED
      BY <3>3, <3>4, <3>5
  <2>7. ASSUME m <= lo + k,
               Climbed(at, Len(Subproofs(leaves)[k][lo][m - lo][lo = 0]) - off,
                       State(2 * q, (n - 1) \div k, Roots(leaves)[m - lo][lo], left))
        PROVE  Climbed(at, Len(whole) - off,
                       State(q, (n - 1) \div (2 * k), Roots(leaves)[m - lo][lo],
                             Roots(leaves)[cnt][lo]))
    <3> DEFINE w == Subproofs(leaves)[k][lo][m - lo][lo = 0]
    <3>1. whole = Append(w, right)
      BY <2>7, <2>11
    <3>2. IsSequence(w)
      <4>1. k \in Nat /\ m - lo \in 1 .. k
        BY <2>5, <2>7
      <4> QED
        BY <2>5, <4>1, SubproofsAreSequences
    <3>3. Climbed(at, Len(w) - off, State(2 * q, (n - 1) \div k, Roots(leaves)[m - lo][lo], left))
      BY <2>7
    <3> HIDE DEF whole, w, left, right
    <3>4. /\ (n - 1) \div k # 0
          /\ Round(State(2 * q, (n - 1) \div k, Roots(leaves)[m - lo][lo], left), right)
               = State(q, (n - 1) \div (2 * k), Roots(leaves)[m - lo][lo], NodeHash(left, right))
      <4>1. k \in Nat \ {0} /\ k < cnt
        OBVIOUS
      <4> DEFINE old == Roots(leaves)[m - lo][lo]
      <4> HIDE DEF old
      <4>2. RightIsNext(n, k, q, old, left, right)
        BY <2>1, <2>3, <4>1, RightSibling
      <4>3. /\ (n - 1) \div k # 0
            /\ Round(State(2 * q, (n - 1) \div k, old, left), right)
                 = State(q, (n - 1) \div (2 * k), old, NodeHash(left, right))
        BY <4>2 DEF RightIsNext
      <4> QED
        BY <4>3 DEF old
    <3>5. Climbed(at, Len(Append(w, right)) - off,
                  State(q, (n - 1) \div (2 * k), Roots(leaves)[m - lo][lo], NodeHash(left, right)))
      <4>1. Begins(Append(w, right), proof)
        BY <3>1
      <4> QED
        BY <3>2, <3>3, <3>4, <4>1, NextRound
    <3> QED
      BY <2>6, <3>1, <3>5 DEF left, right
  <2>8. CASE m = lo + k
    <3> DEFINE w == Subproofs(leaves)[k][lo][m - lo][lo = 0]
    <3>1. w = SharedSubtree(left, lo = 0)
      <4>1. k \in Nat /\ m - lo = k /\ k \in 1 .. k
        BY <2>8
      <4>2. PICK complete \in BOOLEAN : complete = (lo = 0)
        BY <2>5
      <4>3. Subproofs(leaves)[k][lo][k][complete] = SharedSubtree(left, complete)
        BY <4>1, SubproofOfWhole
      <4> QED
        BY <4>1, <4>2, <4>3, Zenon
    <3>2. Begins(w, proof) /\ IsSequence(w)
      <4>1. IsSequence(w)
        BY <3>1, ShortSequences DEF SharedSubtree
      <4>2. whole = Append(w, right)
        <5>1. m <= lo + k
          BY <2>8
        <5> QED
          BY <2>11, <5>1, Zenon
      <4> HIDE DEF whole, w, right
      <4> QED
        BY <2>4, <4>1, <4>2, BeginsBefore
    <3>3. SkipRight[m - 1][n - 1] = [fn |-> 2 * q, sn |-> (n - 1) \div k]
      <4>1. PICK e \in Nat : e = 2 * q /\ ~ Odd(e)
        BY DEF Odd
      <4>2. n - 1 \in Nat /\ k \in Nat
        OBVIOUS
      <4>3. SkipsTo(k, e, n - 1)
        BY <2>2, <4>1, <4>2, SkipReaches
      <4>4. e * k + (k - 1) = m - 1
        BY <2>3, <2>8, <4>1
      <4> QED
        BY <4>1, <4>3, <4>4 DEF SkipsTo
    <3>4. 2 * q = 0 <=> lo = 0
      <4>1. q = 0 => lo = 0
        BY <2>3
      <4>2. q >= 1 => lo >= 2 * k
        <5>1. (2 * k) * q = 2 * k + (2 * k) * (q - 1)
          OBVIOUS
        <5>2. q >= 1 => (2 * k) * (q - 1) >= 0
          OBVIOUS
        <5>3. (2 * k) * (q - 1) \in Int
          OBVIOUS
        <5> QED
          BY <2>3, <5>1, <5>2, <5>3
      <4> QED
        BY <4>1, <4>2
    <3>5. /\ off = IF lo = 0 THEN 0 ELSE 1
          /\ at[0] = State(2 * q, (n - 1) \div k, IF lo = 0 THEN Roots(leaves)[m][0] ELSE proof[1],
                           IF lo = 0 THEN Roots(leaves)[m][0] ELSE proof[1])
      BY <3>3, <3>4 DEF Follows
    <3>6. Len(w) - off = 0 /\ (lo # 0 => proof[1] = left)
      <4>1. CASE lo = 0
        BY <3>1, <3>5, <4>1 DEF SharedSubtree
      <4>2. CASE lo # 0
        <5>1. w = <<left>>
          BY <3>1, <4>2 DEF SharedSubtree
        <5> HIDE DEF w, left
        <5>2. Len(w) = 1 /\ w[1] = left
          BY <5>1
        <5> QED
          BY <3>2, <3>5, <4>2, <5>2 DEF Begins
      <4> QED
        BY <4>1, <4>2
    <3>7. lo = 0 => Roots(leaves)[m][0] = left /\ Roots(leaves)[m - lo][lo] = left
      BY <2>8
    <3>8. Roots(leaves)[m - lo][lo] = left
      <4>1. m - lo = k
        BY <2>8
      <4> QED
        BY <4>1
    <3>9. at[0] = State(2 * q, (n - 1) \div k, left, left)
      BY <3>5, <3>6, <3>7
    <3>10. Climbed(at, Len(w) - off, State(2 * q, (n - 1) \div k, Roots(leaves)[m - lo][lo], left))
      <4> HIDE DEF w, left
      <4> QED
        BY <3>6, <3>8, <3>9 DEF Climbed
    <3> QED
      BY <2>2, <2>7, <2>8, <3>10
  <2>9. CASE m < lo + k
    <3> DEFINE w == Subproofs(leaves)[k][lo][m - lo][lo = 0]
    <3>1. k >= 2 /\ lo + k <= n /\ k \in Nat
      BY <2>1, <2>9
    <3>2. PICK h : IsPower(h) /\ k = 2 * h /\ Split(k) = h
      <4>1. IsPower(Half(k)) /\ k = 2 * Half(k)
        BY <2>2, <3>1, HalfOfPower
      <4>2. Half(k) < k /\ k <= 2 * Half(k)
        BY <3>1, <4>1, Halves
      <4> QED
        BY <3>1, <4>1, <4>2, SplitIsUnique
    <3>3. InPlace(n, m, k, lo, 2 * q)
      <4>1. (2 * k) * q = k * (2 * q)
        OBVIOUS
      <4> QED
        BY <2>1, <2>3, <2>9, <3>1, <3>2, <4>1 DEF InPlace
    <3>4. Begins(w, proof)
      <4>1. IsSequence(w)
        <5>1. k \in Nat /\ m - lo \in 1 .. k
          BY <2>5, <2>9
        <5> QED
          BY <2>5, <5>1, SubproofsAreSequences
      <4>2. whole = Append(w, right)
        <5>1. m <= lo + k
          BY <2>9
        <5> QED
          BY <2>11, <5>1, Zenon
      <4> HIDE DEF whole, w, right
      <4> QED
        BY <2>4, <4>1, <4>2, BeginsBefore
    <3>5. Reaches(k, lo, 2 * q)
      BY <2>0, <2>2
    <3>6. Climbed(at, Len(w) - off, State(2 * q, (n - 1) \div (2 * Split(k)),
                                          Roots(leaves)[m - lo][lo], left))
      BY <3>3, <3>4, <3>5 DEF ReachesRoot
    <3>7. 2 * Split(k) = k
      BY <3>2
    <3> QED
      BY <2>2, <2>7, <2>9, <3>6, <3>7
  <2>10. CASE m > lo + k
    <3> DEFINE c == cnt - k
               w == Subproofs(leaves)[cnt - k][lo + k][m - (lo + k)][lo + k = 0]
    <3>1. /\ c \in Nat /\ c >= 2 /\ lo + k \in Nat /\ (lo + k = 0) = FALSE
          /\ m - (lo + k) \in 1 .. c /\ (m - lo) - k = m - (lo + k)
      BY <2>1, <2>2, <2>10
    <3>2. PICK u, r \in Nat \ {0} :
            /\ u = 2 * Split(c) /\ IsPower(r) /\ k = u * r /\ c \in 1 .. u
            /\ r = 1 \/ lo + cnt = n
            /\ c = u \/ lo + cnt = n
      <4>1. PICK j \in 1 .. c - 1 : j = Split(c) /\ IsPower(j) /\ c <= 2 * j
        BY <3>1, SplitParts
      <4>2. j < k
        BY <2>2, <4>1
      <4>3. 2 * j <= k
        BY <2>2, <4>1, <4>2, PowersOrder
      <4>4. IsPower(2 * j)
        BY <4>1, PowersDouble
      <4>5. PICK r : IsPower(r) /\ k = (2 * j) * r
        BY <2>2, <4>3, <4>4, PowersDivide
      <4>6. r \in Nat \ {0}
        BY <4>5 DEF IsPower
      <4>7. cnt = 2 * k => r = 1 /\ c = 2 * j
        <5>1. CASE cnt = 2 * k
          <6>1. 2 * j = k
            BY <4>1, <4>3, <5>1
          <6>2. r = 1
            <7>1. (2 * j) * r = 2 * j
              BY <4>5, <6>1
            <7> QED
              BY <4>6, <7>1
          <6> QED
            BY <5>1, <6>1, <6>2
        <5> QED
          BY <5>1
      <4> QED
        BY <2>3, <3>1, <4>1, <4>5, <4>6, <4>7
    <3>3. PICK x \in Nat : x = (2 * q + 1) * r /\ lo + k = u * x
      <4>1. PICK y \in Nat : y = 2 * q + 1
        OBVIOUS
      <4>2. u * (y * r) = (u * r) * y /\ y * r \in Nat
        BY <3>2, <4>1
      <4>3. k * y = k * (2 * q) + k
        BY <4>1
      <4>4. k * (2 * q) = (2 * k) * q
        OBVIOUS
      <4> QED
        BY <2>3, <3>2, <4>1, <4>2, <4>3, <4>4
    <3>4. InPlace(n, m, c, lo + k, x)
      BY <2>1, <2>10, <3>1, <3>2, <3>3 DEF InPlace
    <3>5. IsSequence(w) /\ whole = Append(w, left)
      <4>1. IsSequence(w)
        BY <3>1, SubproofsAreSequences
      <4>2. w = Subproofs(leaves)[cnt - k][lo + k][(m - lo) - k][FALSE]
        BY <3>1
      <4>3. whole = Append(Subproofs(leaves)[cnt - k][lo + k][(m - lo) - k][FALSE], left)
        BY <2>10, <2>11
      <4> QED
        BY <4>1, <4>2, <4>3
    <3>6. Begins(w, proof)
      <4> HIDE DEF whole, w, left
      <4> QED
        BY <2>4, <3>5, BeginsBefore
    <3>7. Reaches(c, lo + k, x)
      BY <2>0, <2>2, <3>1
    <3>8. Climbed(at, Len(w) - off, State(x, (n - 1) \div u,
                                          Roots(leaves)[m - (lo + k)][lo + k], right))
      BY <3>2, <3>4, <3>6, <3>7 DEF ReachesRoot
    <3>9. Roots(leaves)[m - lo][lo] = NodeHash(left, Roots(leaves)[m - (lo + k)][lo + k])
      <4>1. m - lo \in Nat /\ m - lo >= 2 /\ k < m - lo /\ m - lo <= 2 * k
        BY <2>1, <2>2, <2>10
      <4>2. Split(m - lo) = k
        BY <2>2, <4>1, SplitIsUnique
      <4>3. Roots(leaves)[m - lo][lo]
              = NodeHash(Roots(leaves)[k][lo], Roots(leaves)[(m - lo) - k][lo + k])
        BY <4>1, <4>2, RootOfParts
      <4> QED
        BY <3>1, <4>3
    <3> DEFINE oldRight == Roots(leaves)[m - (lo + k)][lo + k]
    <3> HIDE DEF c, w, whole, left, right, oldRight
    <3>10. /\ (n - 1) \div u # 0
           /\ Round(State(x, (n - 1) \div u, oldRight, right), left)
                = State(q, (n - 1) \div (2 * k), NodeHash(left, oldRight), NodeHash(left, right))
      <4>1. k \in Nat \ {0} /\ cnt - k \in 1 .. u /\ r \in Nat
        BY <3>2 DEF c
      <4>2. LeftIsNext(n, k, u, q, r, oldRight, right, left)
        BY <2>1, <2>3, <3>2, <4>1, LeftSibling
      <4> QED
        BY <3>3, <4>2 DEF LeftIsNext
    <3>11. Climbed(at, Len(Append(w, left)) - off,
                   State(q, (n - 1) \div (2 * k), NodeHash(left, oldRight), NodeHash(left, right)))
      <4>1. Begins(Append(w, left), proof)
        BY <3>5
      <4>2. Climbed(at, Len(w) - off, State(x, (n - 1) \div u, oldRight, right))
        BY <3>8 DEF oldRight
      <4> QED
        BY <3>5, <3>10, <4>1, <4>2, NextRound
    <3>12. Roots(leaves)[m - lo][lo] = NodeHash(left, oldRight)
      BY <3>9 DEF oldRight
    <3>13. Roots(leaves)[cnt][lo] = NodeHash(left, right)
      BY <2>6 DEF left, right
    <3> QED
      BY <2>2, <3>5, <3>11, <3>12, <3>13
  <2> QED
    BY <2>1, <2>8, <2>9, <2>10
<1> HIDE DEF S
<1>2. \A cnt \in Nat : cnt \in S
  BY <1>1, LeadingPowers!Induction
<1> QED
  BY <1>2 DEF S

-----------------------------------------------------------------------------
(***************************************************************************)
(* Consistency: what verify_consistency accepts.                           *)
(***************************************************************************)

LEMMA HeadAndTail ==
  ASSUME NEW p, IsSequence(p), p # <<>>
  PROVE  /\ IsSequence(Tail(p))
         /\ Len(p) \in Nat \ {0} /\ Len(Tail(p)) = Len(p) - 1
         /\ \A i \in 1 .. Len(p) - 1 : Tail(p)[i] = p[i + 1]
         /\ Head(p) = p[1]
<1>1. PICK S : p \in Seq(S)
  BY DEF IsSequence
<1>2. Tail(p) \in Seq(S)
  BY <1>1
<1> QED
  BY <1>1, <1>2 DEF IsSequence

LEMMA SequencesByHeads ==
  ASSUME NEW p, NEW q, IsSequence(p), IsSequence(q), p # <<>>, q # <<>>,
         Head(p) = Head(q), Tail(p) = Tail(q)
  PROVE  p = q
<1>1. Len(p) = Len(q) /\ Len(p) \in Nat \ {0}
  BY HeadAndTail
<1>2. ASSUME NEW i \in 1 .. Len(p)
      PROVE  p[i] = q[i]
  <2>1. CASE i = 1
    BY <2>1, HeadAndTail
  <2>2. CASE i # 1
    <3>1. PICK j \in 1 .. Len(p) - 1 : i = j + 1
      <4>1. i - 1 \in 1 .. Len(p) - 1 /\ i = (i - 1) + 1
        BY <1>1, <2>2
      <4> QED
        BY <4>1
    <3>2. Tail(p)[j] = p[j + 1] /\ Tail(q)[j] = q[j + 1]
      BY <1>1, HeadAndTail
    <3> QED
      BY <3>1, <3>2
  <2> QED
    BY <2>1, <2>2
<1> QED
  BY <1>1, <1>2, SequencesEqual

Items(m, n, proof) == IF SkipRight[m - 1][n - 1].fn = 0 THEN proof ELSE Tail(proof)

\* The proof is accepted for an old tree that is smaller than the new one.
Accepts(m, n, oldRoot, newRoot, proof) ==
  /\ SkipRight[m - 1][n - 1].fn = 0 \/ proof # <<>>
  /\ Implies(Start(m, n, oldRoot, proof), Items(m, n, proof), oldRoot, newRoot)

LEMMA AcceptedIfSmaller ==
  ASSUME NEW n \in Nat, NEW m \in 1 .. n - 1, NEW oldRoot, NEW newRoot, NEW proof
  PROVE  VerifyConsistency(m, n, oldRoot, newRoot, proof) <=> Accepts(m, n, oldRoot, newRoot, proof)
<1>1. m \in 1 .. n /\ m # n
  OBVIOUS
<1> QED
  BY <1>1 DEF VerifyConsistency, Accepts, Items

\* What consistency_proof builds is accepted.
LEMMA GenuineAreAccepted ==
  ASSUME NEW leaves, NEW n \in Nat, NEW m \in 1 .. n - 1
  PROVE  /\ IsSequence(Subproofs(leaves)[n][0][m][TRUE])
         /\ Accepts(m, n, Roots(leaves)[m][0], Roots(leaves)[n][0],
                    Subproofs(leaves)[n][0][m][TRUE])
<1> DEFINE g == Subproofs(leaves)[n][0][m][TRUE]
           oldRoot == Roots(leaves)[m][0]
           newRoot == Roots(leaves)[n][0]
           skip == SkipRight[m - 1][n - 1]
           off == IF skip.fn = 0 THEN 0 ELSE 1
           start == Start(m, n, oldRoot, g)
           items == Items(m, n, g)
           at == Rounds(start, items)
<1>1. IsSequence(g)
  <2>1. 0 \in Nat /\ m \in 1 .. n /\ TRUE \in BOOLEAN
    OBVIOUS
  <2> QED
    BY <2>1, SubproofsAreSequences
<1>2. g # <<>> /\ Len(g) \in Nat \ {0}
  <2>1. 0 \in Nat /\ m \in 1 .. n /\ m # n /\ TRUE \in BOOLEAN
    OBVIOUS
  <2>2. SubproofHasParts(leaves, n, 0, m, TRUE, Split(n))
    BY <2>1, SubproofOfParts
  <2>3. n >= 2
    OBVIOUS
  <2>4. PICK k \in 1 .. n - 1 : k = Split(n)
    BY <2>3, SplitParts
  <2>5. CASE m <= k
    <3> DEFINE w == Subproofs(leaves)[k][0][m][TRUE]
    <3>1. IsSequence(w)
      <4>1. k \in Nat /\ m \in 1 .. k
        BY <2>5
      <4> QED
        BY <2>1, <4>1, SubproofsAreSequences
    <3>2. g = Append(w, Roots(leaves)[n - k][0 + k])
      BY <2>2, <2>4, <2>5 DEF SubproofHasParts
    <3> HIDE DEF w, g
    <3>3. Len(g) \in Nat \ {0}
      BY <3>1, <3>2, Appended
    <3> QED
      BY <3>3, ShortSequences
  <2>6. CASE m > k
    <3> DEFINE w == Subproofs(leaves)[n - k][0 + k][m - k][FALSE]
    <3>1. IsSequence(w)
      <4>1. n - k \in Nat /\ 0 + k \in Nat /\ m - k \in 1 .. n - k /\ FALSE \in BOOLEAN
        BY <2>6
      <4> QED
        BY <4>1, SubproofsAreSequences
    <3>2. g = Append(w, Roots(leaves)[k][0])
      BY <2>2, <2>4, <2>6 DEF SubproofHasParts
    <3> HIDE DEF w, g
    <3>3. Len(g) \in Nat \ {0}
      BY <3>1, <3>2, Appended
    <3> QED
      BY <3>3, ShortSequences
  <2>7. m <= k \/ m > k
    OBVIOUS
  <2> QED
    BY <2>5, <2>6, <2>7, Zenon
<1> HIDE DEF g, oldRoot, newRoot
<1>3. /\ Len(items) = Len(g) - off
      /\ \A i \in 1 .. Len(items) : items[i] = g[i + off]
  <2>1. CASE skip.fn = 0
    <3>1. items = g /\ off = 0
      BY <2>1 DEF Items
    <3> HIDE DEF items, off, skip
    <3> QED
      BY <1>2, <3>1
  <2>2. CASE skip.fn # 0
    <3>1. items = Tail(g) /\ off = 1
      BY <2>2 DEF Items
    <3> HIDE DEF items, off, skip
    <3> QED
      BY <1>1, <1>2, <3>1, HeadAndTail
  <2> QED
    BY <2>1, <2>2
<1>4. start = State(skip.fn, skip.sn, IF skip.fn = 0 THEN oldRoot ELSE g[1],
                    IF skip.fn = 0 THEN oldRoot ELSE g[1])
  <2>1. Head(g) = g[1]
    BY <1>1, <1>2, HeadAndTail
  <2> QED
    BY <2>1 DEF Start, State
<1>5. \A i \in Nat : at[i] = IF i = 0 THEN start ELSE Round(at[i - 1], items[i])
  BY RoundsValue
<1>6. off \in 0 .. 1 /\ off = IF skip.fn = 0 THEN 0 ELSE 1
  OBVIOUS
<1> HIDE DEF start, items, at, off
<1>7. Follows(leaves, n, m, g, off, at)
  <2>1. at[0] = State(skip.fn, skip.sn, IF skip.fn = 0 THEN oldRoot ELSE g[1],
                      IF skip.fn = 0 THEN oldRoot ELSE g[1])
    BY <1>4, <1>5
  <2>2. ASSUME NEW i \in Nat \ {0}, i + off <= Len(g)
        PROVE  at[i] = Round(at[i - 1], g[i + off])
    <3>1. i \in 1 .. Len(items)
      BY <1>2, <1>3, <1>6, <2>2
    <3>2. at[i] = Round(at[i - 1], items[i])
      BY <1>5
    <3> QED
      BY <1>3, <3>1, <3>2
  <2> QED
    BY <1>1, <1>6, <2>1, <2>2 DEF Follows, oldRoot
<1>8. Climbed(at, Len(g) - off, State(0, 0, oldRoot, newRoot))
  <2>1. ReachesRoot(leaves, n, m, g, off, at, n, 0, 0)
    BY <1>7, SubproofsLeadToRoots
  <2>2. PICK k \in 1 .. n - 1 : k = Split(n) /\ n <= 2 * k
    BY SplitParts
  <2>3. InPlace(n, m, n, 0, 0)
    BY <2>2 DEF InPlace
  <2>4. m - 0 = m /\ (0 = 0) = TRUE
    OBVIOUS
  <2>5. Begins(g, g)
    BY <1>2 DEF Begins
  <2>6. (n - 1) \div (2 * k) = 0
    <3>1. PICK w \in Nat \ {0} : w = 2 * k
      OBVIOUS
    <3>2. n - 1 \in 0 .. w - 1 /\ n - 1 = w * 0 + (n - 1)
      BY <2>2, <3>1
    <3> QED
      BY <3>1, <3>2, Quotient
  <2>7. g = Subproofs(leaves)[n][0][m - 0][0 = 0]
    BY <2>4, Zenon DEF g
  <2>8. Climbed(at, Len(g) - off, State(0, (n - 1) \div (2 * Split(n)),
                                       Roots(leaves)[m - 0][0], Roots(leaves)[n][0]))
    BY <2>1, <2>3, <2>5, <2>7, Zenon DEF ReachesRoot
  <2> QED
    BY <2>2, <2>4, <2>6, <2>8 DEF oldRoot, newRoot
<1>9. Implies(start, items, oldRoot, newRoot)
  <2>1. /\ at[Len(items)] = State(0, 0, oldRoot, newRoot)
        /\ \A i \in 0 .. Len(items) - 1 : at[i].sn # 0
        /\ Len(items) \in Nat
    BY <1>3, <1>8 DEF Climbed
  <2>2. \A i \in 1 .. Len(items) : at[i - 1].sn # 0
    BY <2>1
  <2>3. /\ at[Len(items)].sn = 0 /\ at[Len(items)].old = oldRoot
        /\ at[Len(items)].new = newRoot
    BY <2>1 DEF State
  <2> QED
    BY <2>2, <2>3 DEF Implies, at
<1> QED
  BY <1>1, <1>2, <1>9 DEF Accepts, start, items, g, oldRoot, newRoot

SamePosition(s, t) == s.fn = t.fn /\ s.sn = t.sn

SameItems(p, q, n) == \A i \in 1 .. n : p[i] = q[i]

LEMMA RoundsOfSamePosition ==
  ASSUME NEW s, NEW t, SamePosition(s, t), NEW e, NEW f
  PROVE  /\ SamePosition(Round(s, e), Round(t, f))
         /\ Round(s, e).new = Round(t, f).new => s.new = t.new /\ e = f
         /\ s.old = t.old /\ e = f => Round(s, e).old = Round(t, f).old
<1> DEFINE left == TakesLeft(s.fn, s.sn)
           a == s.new
           b == t.new
<1>1. s.fn = t.fn /\ s.sn = t.sn
  BY DEF SamePosition
<1>2. SamePosition(Round(s, e), Round(t, f))
  BY <1>1 DEF SamePosition, Round
<1>3. /\ Round(s, e).new = IF left THEN NodeHash(e, a) ELSE NodeHash(a, e)
      /\ Round(t, f).new = IF left THEN NodeHash(f, b) ELSE NodeHash(b, f)
  BY <1>1 DEF Round
<1>4. s.old = t.old /\ e = f => Round(s, e).old = Round(t, f).old
  BY <1>1 DEF Round
<1> HIDE DEF left, a, b
<1>5. ASSUME Round(s, e).new = Round(t, f).new
      PROVE  a = b /\ e = f
  <2>1. CASE left
    <3>1. NodeHash(e, a) = NodeHash(f, b)
      BY <1>3, <1>5, <2>1
    <3> QED
      BY <3>1, NodeParts
  <2>2. CASE ~ left
    <3>1. NodeHash(a, e) = NodeHash(b, f)
      BY <1>3, <1>5, <2>2
    <3> QED
      BY <3>1, NodeParts
  <2> QED
    BY <2>1, <2>2
<1> QED
  BY <1>2, <1>4, <1>5 DEF a, b

RoundsAlike(s, t, p, q, n) ==
  /\ SamePosition(Rounds(s, p)[n], Rounds(t, q)[n])
  /\ Rounds(s, p)[n].new = Rounds(t, q)[n].new => s.new = t.new /\ SameItems(p, q, n)
  /\ s.old = t.old /\ SameItems(p, q, n) => Rounds(s, p)[n].old = Rounds(t, q)[n].old

\* Rounds from one position end alike only if they are alike.
LEMMA RoundsDiffer ==
  ASSUME NEW s, NEW t, SamePosition(s, t), NEW p, NEW q
  PROVE  \A n \in Nat : RoundsAlike(s, t, p, q, n)
<1> DEFINE S == {n \in Nat : RoundsAlike(s, t, p, q, n)}
<1>1. ASSUME NEW n \in Nat, \A i \in 0 .. n - 1 : i \in S
      PROVE  n \in S
  <2>1. CASE n = 0
    <3>1. Rounds(s, p)[0] = s /\ Rounds(t, q)[0] = t
      BY RoundsValue
    <3> QED
      BY <2>1, <3>1 DEF RoundsAlike, SameItems
  <2>2. CASE n # 0
    <3> DEFINE a == Rounds(s, p)[n - 1]
               b == Rounds(t, q)[n - 1]
    <3>1. Rounds(s, p)[n] = Round(a, p[n]) /\ Rounds(t, q)[n] = Round(b, q[n])
      BY <2>2, RoundsValue
    <3>2. n - 1 \in S
      BY <1>1, <2>2
    <3>3. /\ SamePosition(a, b)
          /\ a.new = b.new => s.new = t.new /\ SameItems(p, q, n - 1)
          /\ s.old = t.old /\ SameItems(p, q, n - 1) => a.old = b.old
      BY <3>2 DEF RoundsAlike
    <3>4. SameItems(p, q, n) <=> SameItems(p, q, n - 1) /\ p[n] = q[n]
      BY <2>2 DEF SameItems
    <3> HIDE DEF a, b
    <3>5. /\ SamePosition(Round(a, p[n]), Round(b, q[n]))
          /\ Round(a, p[n]).new = Round(b, q[n]).new => a.new = b.new /\ p[n] = q[n]
          /\ a.old = b.old /\ p[n] = q[n] => Round(a, p[n]).old = Round(b, q[n]).old
      BY <3>3, RoundsOfSamePosition
    <3> QED
      BY <3>1, <3>3, <3>4, <3>5 DEF RoundsAlike
  <2> QED
    BY <2>1, <2>2
<1> HIDE DEF S
<1>2. \A n \in Nat : n \in S
  BY <1>1, LeadingPowers!Induction
<1> QED
  BY <1>2 DEF S

\* One new root is reached by one proof, from one old root.
LEMMA AcceptedAreAlike ==
  ASSUME NEW m, NEW n, NEW p, NEW q, IsSequence(p), IsSequence(q),
         NEW old, NEW other, NEW new, Accepts(m, n, old, new, p), Accepts(m, n, other, new, q)
  PROVE  p = q /\ old = other
<1> DEFINE fn == SkipRight[m - 1][n - 1].fn
           s == Start(m, n, old, p)
           t == Start(m, n, other, q)
           ps == Items(m, n, p)
           qs == Items(m, n, q)
<1>1. /\ SamePosition(s, t) /\ s.old = s.new /\ t.old = t.new
      /\ fn # 0 => s.new = Head(p) /\ t.new = Head(q)
  BY DEF Start, SamePosition
<1>2. /\ fn = 0 => ps = p /\ qs = q
      /\ fn # 0 => ps = Tail(p) /\ qs = Tail(q) /\ p # <<>> /\ q # <<>>
  BY DEF Items, Accepts
<1>3. IsSequence(ps) /\ IsSequence(qs) /\ Len(ps) \in Nat /\ Len(qs) \in Nat
  <2> HIDE DEF fn, ps, qs
  <2>1. IsSequence(ps) /\ IsSequence(qs)
    BY <1>2, HeadAndTail
  <2> QED
    BY <2>1, SequenceFacts
<1> DEFINE at == Rounds(s, ps)
           bt == Rounds(t, qs)
<1>4. /\ \A i \in 1 .. Len(ps) : at[i - 1].sn # 0
      /\ at[Len(ps)].sn = 0 /\ at[Len(ps)].old = old /\ at[Len(ps)].new = new
  BY DEF Accepts, Implies
<1>5. /\ \A i \in 1 .. Len(qs) : bt[i - 1].sn # 0
      /\ bt[Len(qs)].sn = 0 /\ bt[Len(qs)].old = other /\ bt[Len(qs)].new = new
  BY DEF Accepts, Implies
<1> HIDE DEF fn, s, t, ps, qs
<1>6. \A i \in Nat : RoundsAlike(s, t, ps, qs, i)
  BY <1>1, RoundsDiffer
<1>7. \A i \in Nat : at[i].sn = bt[i].sn
  BY <1>6 DEF RoundsAlike, SamePosition
<1> HIDE DEF at, bt
<1>8. Len(ps) = Len(qs)
  <2>1. CASE Len(ps) < Len(qs)
    <3>1. Len(ps) + 1 \in 1 .. Len(qs) /\ (Len(ps) + 1) - 1 = Len(ps)
      BY <1>3, <2>1
    <3> QED
      BY <1>3, <1>4, <1>5, <1>7, <3>1
  <2>2. CASE Len(qs) < Len(ps)
    <3>1. Len(qs) + 1 \in 1 .. Len(ps) /\ (Len(qs) + 1) - 1 = Len(qs)
      BY <1>3, <2>2
    <3> QED
      BY <1>3, <1>4, <1>5, <1>7, <3>1
  <2> QED
    BY <1>3, <2>1, <2>2
<1>9. /\ at[Len(ps)].new = bt[Len(ps)].new => s.new = t.new /\ SameItems(ps, qs, Len(ps))
      /\ s.old = t.old /\ SameItems(ps, qs, Len(ps)) => at[Len(ps)].old = bt[Len(ps)].old
  BY <1>3, <1>6 DEF RoundsAlike, at, bt
<1>10. s.new = t.new /\ s.old = t.old /\ SameItems(ps, qs, Len(ps)) /\ old = other
  BY <1>1, <1>4, <1>5, <1>8, <1>9
<1>11. ps = qs
  BY <1>3, <1>8, <1>10, SequencesEqual DEF SameItems
<1>12. p = q
  BY <1>1, <1>2, <1>10, <1>11, SequencesByHeads
<1> QED
  BY <1>10, <1>12

DecidesConsistency(leaves, n, m, proof, oldRoot) ==
  VerifyConsistency(m, n, oldRoot, Roots(leaves)[n][0], proof)
    <=> /\ oldRoot = Roots(leaves)[m][0]
        /\ proof = IF m = n THEN <<>> ELSE Subproofs(leaves)[n][0][m][TRUE]

LEMMA ConsistencyOfSlice ==
  ASSUME NEW leaves, NEW n \in Nat, NEW m \in 1 .. n, NEW proof, IsSequence(proof), NEW oldRoot
  PROVE  DecidesConsistency(leaves, n, m, proof, oldRoot)
<1> DEFINE g == Subproofs(leaves)[n][0][m][TRUE]
           newRoot == Roots(leaves)[n][0]
           genuine == Roots(leaves)[m][0]
<1>1. CASE m = n
  BY <1>1 DEF VerifyConsistency, DecidesConsistency
<1>2. CASE m # n
  <2>1. m \in 1 .. n - 1
    BY <1>2
  <2>2. IsSequence(g) /\ Accepts(m, n, genuine, newRoot, g)
    BY <2>1, GenuineAreAccepted
  <2>3. VerifyConsistency(m, n, oldRoot, newRoot, proof) <=> Accepts(m, n, oldRoot, newRoot, proof)
    BY <2>1, AcceptedIfSmaller
  <2> HIDE DEF g, newRoot, genuine
  <2>4. Accepts(m, n, oldRoot, newRoot, proof) <=> oldRoot = genuine /\ proof = g
    BY <2>2, AcceptedAreAlike
  <2> QED
    BY <1>2, <2>3, <2>4 DEF g, newRoot, genuine, DecidesConsistency
<1> QED
  BY <1>1, <1>2

LEMMA RootOfSameLeaves ==
  ASSUME NEW leaves, NEW others, NEW n \in Nat, \A i \in 1 .. n : leaves[i] = others[i]
  PROVE  Roots(leaves)[n][0] = Roots(others)[n][0]
<1> DEFINE same == SameLeaves(leaves, 0, others, 0, n)
<1>1. same \in BOOLEAN
  BY DEF SameLeaves
<1>2. same
  BY DEF SameLeaves
<1>3. 0 \in Nat
  OBVIOUS
<1>4. Roots(leaves)[n][0] = Roots(others)[n][0] <=> same
  BY <1>3, RootsDecideSlices
<1> HIDE DEF same
<1> QED
  BY <1>1, <1>2, <1>4

LEMMA RootOfPrefix ==
  ASSUME NEW leaves, IsSequence(leaves), NEW m \in 1 .. Len(leaves)
  PROVE  /\ MerkleRoot(Prefix(leaves, m)) = Roots(leaves)[m][0]
         /\ Len(Prefix(leaves, m)) = m
         /\ \A i \in 1 .. m : Prefix(leaves, m)[i] = leaves[i]
         /\ IsSequence(Prefix(leaves, m))
<1> DEFINE p == Prefix(leaves, m)
<1>1. Len(p) = m /\ (\A i \in 1 .. m : p[i] = leaves[i]) /\ IsSequence(p)
  <2>1. PICK S : leaves \in Seq(S)
    BY DEF IsSequence
  <2>2. /\ p \in Seq(S) /\ Len(p) = m
        /\ \A i \in 1 .. m : p[i] = leaves[i]
    BY <2>1 DEF Prefix
  <2> QED
    BY <2>2 DEF IsSequence
<1> HIDE DEF p
<1>2. m \in Nat
  BY SequenceFacts
<1>3. \A i \in 1 .. m : leaves[i] = p[i]
  BY <1>1
<1>4. Roots(leaves)[m][0] = Roots(p)[m][0]
  BY <1>2, <1>3, RootOfSameLeaves
<1> QED
  BY <1>1, <1>4 DEF MerkleRoot, p

LEMMA ConsistencyOfLeaves ==
  ASSUME NEW leaves, IsSequence(leaves), NEW m \in 1 .. Len(leaves),
         NEW proof, IsSequence(proof), NEW oldRoot
  PROVE  VerifyConsistency(m, Len(leaves), oldRoot, MerkleRoot(leaves), proof)
           <=> oldRoot = MerkleRoot(Prefix(leaves, m)) /\ proof = ConsistencyProof(leaves, m)
<1> DEFINE n == Len(leaves)
<1>1. n \in Nat /\ m \in 1 .. n
  BY SequenceFacts
<1>2. MerkleRoot(Prefix(leaves, m)) = Roots(leaves)[m][0]
  BY RootOfPrefix
<1> HIDE DEF n
<1>3. DecidesConsistency(leaves, n, m, proof, oldRoot)
  BY <1>1, ConsistencyOfSlice
<1> QED
  BY <1>2, <1>3 DEF DecidesConsistency, n, MerkleRoot, ConsistencyProof

\* The proof that is built for an old size is accepted with the root of the tree's first
\* leaves, and nothing else is: another old root or another proof is refused, for trees
\* of every two sizes (consistency_proof and verify_consistency).
THEOREM ConsistencyIsDecided ==
  ASSUME NEW D, NEW leaves \in Seq(D), NEW m \in 1 .. Len(leaves),
         NEW H, NEW proof \in Seq(H), NEW oldRoot
  PROVE  VerifyConsistency(m, Len(leaves), oldRoot, MerkleRoot(leaves), proof)
           <=> oldRoot = MerkleRoot(Prefix(leaves, m)) /\ proof = ConsistencyProof(leaves, m)
<1>1. IsSequence(leaves) /\ IsSequence(proof)
  BY DEF IsSequence
<1> QED
  BY <1>1, ConsistencyOfLeaves, Zenon

LEMMA ConsistencyProofIsSequence ==
  ASSUME NEW leaves, IsSequence(leaves), NEW m \in 1 .. Len(leaves)
  PROVE  IsSequence(ConsistencyProof(leaves, m))
<1> DEFINE n == Len(leaves)
<1>1. n \in Nat /\ m \in 1 .. n /\ 0 \in Nat /\ TRUE \in BOOLEAN
  BY SequenceFacts
<1> HIDE DEF n
<1>2. IsSequence(Subproofs(leaves)[n][0][m][TRUE])
  BY <1>1, SubproofsAreSequences
<1> QED
  BY <1>2, ShortSequences DEF ConsistencyProof, n

-----------------------------------------------------------------------------
(***************************************************************************)
(* The trees of a growing ledger.                                          *)
(***************************************************************************)

LEMMA AppendsEqual ==
  ASSUME NEW s, NEW t, IsSequence(s), IsSequence(t), NEW e, NEW f, Append(s, e) = Append(t, f)
  PROVE  s = t /\ e = f
<1>1. /\ Len(s) \in Nat /\ Len(t) \in Nat
      /\ Len(Append(s, e)) = Len(s) + 1 /\ Len(Append(t, f)) = Len(t) + 1
      /\ \A i \in 1 .. Len(s) : Append(s, e)[i] = s[i]
      /\ \A i \in 1 .. Len(t) : Append(t, f)[i] = t[i]
      /\ Append(s, e)[Len(s) + 1] = e /\ Append(t, f)[Len(t) + 1] = f
  BY Appended
<1>2. Len(s) = Len(t)
  BY <1>1
<1>3. e = f
  BY <1>1, <1>2
<1>4. \A i \in 1 .. Len(s) : s[i] = t[i]
  BY <1>1, <1>2
<1> QED
  BY <1>2, <1>3, <1>4, SequencesEqual

LEMMA AppendedIsNotEmpty ==
  ASSUME NEW s, IsSequence(s), NEW e
  PROVE  Append(s, e) # <<>>
BY Appended, ShortSequences

LEMMA StepParts ==
  ASSUME NEW a, NEW b, NEW x, NEW y, Step(a, x) = Step(b, y)
  PROVE  a = b /\ x = y
BY DEF Step

WalksTell(leaves, others, n, k, lo, to, i, j) ==
  /\ AreLeaves(leaves, lo, n)
  /\ AreLeaves(others, to, k)
  /\ Walks(leaves)[n][lo][i] = Walks(others)[k][to][j]
  => n = k /\ i = j

\* How a walk ends.
WalkOfPart(leaves, n, lo, i, k, w, side, sibling) ==
  /\ Walks(leaves)[n][lo][i] = Append(w, Step(side, sibling))
  /\ IsSequence(w)
  /\ \/ /\ i < k /\ side = "right"
        /\ w = Walks(leaves)[k][lo][i] /\ sibling = Roots(leaves)[n - k][lo + k]
     \/ /\ i >= k /\ side = "left"
        /\ w = Walks(leaves)[n - k][lo + k][i - k] /\ sibling = Roots(leaves)[k][lo]

LEMMA WalksEnd ==
  ASSUME NEW leaves, NEW n \in Nat, n >= 2, NEW lo \in Nat, NEW i \in 0 .. n - 1, NEW k, k = Split(n)
  PROVE  \E w, side, sibling : WalkOfPart(leaves, n, lo, i, k, w, side, sibling)
<1>1. k \in 1 .. n - 1
  BY SplitIsPower
<1>2. CASE i < k
  <2> DEFINE w == Walks(leaves)[k][lo][i]
             sibling == Roots(leaves)[n - k][lo + k]
  <2>1. IsSequence(w)
    <3>1. k \in Nat /\ i \in 0 .. k - 1
      BY <1>1, <1>2
    <3>2. HasSides(w, Sides[k][i])
      BY <3>1, WalksHaveSides
    <3> QED
      BY <3>2, Zenon DEF HasSides
  <2>2. Walks(leaves)[n][lo][i] = Append(w, Step("right", sibling))
    BY <1>2, WalkValue
  <2>3. WalkOfPart(leaves, n, lo, i, k, w, "right", sibling)
    BY <1>2, <2>1, <2>2, Zenon DEF WalkOfPart
  <2> QED
    BY <2>3, Zenon
<1>3. CASE i >= k
  <2> DEFINE w == Walks(leaves)[n - k][lo + k][i - k]
             sibling == Roots(leaves)[k][lo]
  <2>1. IsSequence(w)
    <3>1. n - k \in Nat /\ lo + k \in Nat /\ i - k \in 0 .. (n - k) - 1
      BY <1>1, <1>3
    <3>2. HasSides(w, Sides[n - k][i - k])
      BY <3>1, WalksHaveSides
    <3> QED
      BY <3>2, Zenon DEF HasSides
  <2>2. Walks(leaves)[n][lo][i] = Append(w, Step("left", sibling))
    BY <1>3, WalkValue
  <2>3. WalkOfPart(leaves, n, lo, i, k, w, "left", sibling)
    BY <1>3, <2>1, <2>2, Zenon DEF WalkOfPart
  <2> QED
    BY <2>3, Zenon
<1> QED
  BY <1>1, <1>2, <1>3

LEMMA WalksDiffer ==
  ASSUME NEW leaves, NEW others
  PROVE  \A n \in Nat : \A k, lo, to \in Nat : \A i \in 0 .. n - 1, j \in 0 .. k - 1 :
           WalksTell(leaves, others, n, k, lo, to, i, j)
<1> DEFINE S == {n \in Nat : \A k, lo, to \in Nat : \A i \in 0 .. n - 1, j \in 0 .. k - 1 :
                   WalksTell(leaves, others, n, k, lo, to, i, j)}
<1>1. ASSUME NEW n \in Nat, \A x \in 0 .. n - 1 : x \in S
      PROVE  n \in S
  <2> SUFFICES ASSUME NEW k \in Nat, NEW lo \in Nat, NEW to \in Nat,
                      NEW i \in 0 .. n - 1, NEW j \in 0 .. k - 1
               PROVE  WalksTell(leaves, others, n, k, lo, to, i, j)
    OBVIOUS
  <2>0. \A x \in 0 .. n - 1 : \A y, a, b \in Nat : \A c \in 0 .. x - 1, d \in 0 .. y - 1 :
          WalksTell(leaves, others, x, y, a, b, c, d)
    BY <1>1
  <2> SUFFICES ASSUME AreLeaves(leaves, lo, n), AreLeaves(others, to, k),
                      Walks(leaves)[n][lo][i] = Walks(others)[k][to][j]
               PROVE  n = k /\ i = j
    BY DEF WalksTell
  <2>1. CASE n = 1 /\ k = 1
    BY <2>1
  <2>2. CASE n = 1 /\ k >= 2
    <3>1. Walks(leaves)[n][lo][i] = <<>>
      BY <2>2, LeafHasNoSides
    <3>2. PICK q : q = Split(k)
      OBVIOUS
    <3>3. PICK w, side, sibling : WalkOfPart(others, k, to, j, q, w, side, sibling)
      BY <2>2, <3>2, WalksEnd
    <3> QED
      BY <3>1, <3>3, AppendedIsNotEmpty DEF WalkOfPart
  <2>3. CASE n >= 2 /\ k = 1
    <3>1. Walks(others)[k][to][j] = <<>>
      BY <2>3, LeafHasNoSides
    <3>2. PICK p : p = Split(n)
      OBVIOUS
    <3>3. PICK w, side, sibling : WalkOfPart(leaves, n, lo, i, p, w, side, sibling)
      BY <2>3, <3>2, WalksEnd
    <3> QED
      BY <3>1, <3>3, AppendedIsNotEmpty DEF WalkOfPart
  <2>4. CASE n >= 2 /\ k >= 2
    <3>1. PICK p \in 1 .. n - 1 : p = Split(n) /\ p \in 0 .. n - 1 /\ n - p \in 0 .. n - 1
      BY <2>4, SplitParts
    <3>2. PICK q \in 1 .. k - 1 : q = Split(k) /\ q \in Nat /\ k - q \in Nat
      BY <2>4, SplitParts
    <3>3. PICK w, side, h : WalkOfPart(leaves, n, lo, i, p, w, side, h)
      BY <2>4, <3>1, WalksEnd
    <3>4. PICK v, other, g : WalkOfPart(others, k, to, j, q, v, other, g)
      BY <2>4, <3>2, WalksEnd
    <3>5. w = v /\ side = other /\ h = g
      <4>1. IsSequence(w) /\ IsSequence(v)
        BY <3>3, <3>4 DEF WalkOfPart
      <4>2. Append(w, Step(side, h)) = Append(v, Step(other, g))
        BY <3>3, <3>4 DEF WalkOfPart
      <4>3. w = v /\ Step(side, h) = Step(other, g)
        BY <4>1, <4>2, AppendsEqual
      <4> QED
        BY <4>3, StepParts
    <3>6. /\ AreLeaves(leaves, lo, p) /\ AreLeaves(leaves, lo + p, n - p)
          /\ AreLeaves(others, to, q) /\ AreLeaves(others, to + q, k - q)
      BY <3>1, <3>2, LeavesOfPart
    <3>7. lo + p \in Nat /\ to + q \in Nat /\ p \in Nat /\ n - p \in Nat
      BY <3>1
    <3>8. CASE side = "right"
      <4>1. /\ i < p /\ j < q
            /\ Walks(leaves)[p][lo][i] = Walks(others)[q][to][j]
            /\ Roots(leaves)[n - p][lo + p] = Roots(others)[k - q][to + q]
        BY <3>3, <3>4, <3>5, <3>8 DEF WalkOfPart
      <4>2. n - p = k - q
        BY <3>2, <3>6, <3>7, <4>1, RootsTellSizes
      <4>3. WalksTell(leaves, others, p, q, lo, to, i, j)
        <5>1. i \in 0 .. p - 1 /\ j \in 0 .. q - 1
          BY <3>1, <3>2, <4>1
        <5> QED
          BY <2>0, <3>1, <3>2, <5>1
      <4>4. p = q /\ i = j
        BY <3>6, <4>1, <4>3 DEF WalksTell
      <4> QED
        BY <3>1, <3>2, <4>2, <4>4
    <3>9. CASE side = "left"
      <4>1. /\ i >= p /\ j >= q
            /\ Walks(leaves)[n - p][lo + p][i - p] = Walks(others)[k - q][to + q][j - q]
            /\ Roots(leaves)[p][lo] = Roots(others)[q][to]
        BY <3>3, <3>4, <3>5, <3>9 DEF WalkOfPart
      <4>2. p = q
        BY <3>2, <3>6, <3>7, <4>1, RootsTellSizes
      <4>3. WalksTell(leaves, others, n - p, k - q, lo + p, to + q, i - p, j - q)
        <5>1. i - p \in 0 .. (n - p) - 1 /\ j - q \in 0 .. (k - q) - 1
          BY <3>1, <3>2, <4>1
        <5> QED
          BY <2>0, <3>1, <3>2, <3>7, <5>1
      <4>4. n - p = k - q /\ i - p = j - q
        BY <3>6, <4>1, <4>3 DEF WalksTell
      <4> QED
        BY <3>1, <3>2, <4>2, <4>4
    <3>10. side = "right" \/ side = "left"
      BY <3>3 DEF WalkOfPart
    <3> QED
      BY <3>8, <3>9, <3>10
  <2>5. n >= 1 /\ k >= 1
    OBVIOUS
  <2> QED
    BY <2>1, <2>2, <2>3, <2>4, <2>5
<1> HIDE DEF S
<1>2. \A n \in Nat : n \in S
  BY <1>1, LeadingPowers!Induction
<1> QED
  BY <1>2 DEF S

HasLeaves(leaves) == AreLeaves(leaves, 0, Len(leaves))

IsIndex(i, leaves) == i \in 0 .. Len(leaves) - 1

TellsPlace(leaves, i, others, j) ==
  InclusionProof(leaves, i) = InclusionProof(others, j) => Len(leaves) = Len(others) /\ i = j

LEMMA PlacesOfProofs ==
  ASSUME NEW leaves, IsSequence(leaves), HasLeaves(leaves), NEW i, IsIndex(i, leaves),
         NEW others, IsSequence(others), HasLeaves(others), NEW j, IsIndex(j, others)
  PROVE  TellsPlace(leaves, i, others, j)
<1> SUFFICES ASSUME InclusionProof(leaves, i) = InclusionProof(others, j)
             PROVE  Len(leaves) = Len(others) /\ i = j
  BY DEF TellsPlace
<1> DEFINE n == Len(leaves)
           k == Len(others)
<1>1. /\ n \in Nat /\ k \in Nat /\ 0 \in Nat /\ i \in 0 .. n - 1 /\ j \in 0 .. k - 1
      /\ AreLeaves(leaves, 0, n) /\ AreLeaves(others, 0, k)
      /\ Walks(leaves)[n][0][i] = Walks(others)[k][0][j]
  BY SequenceFacts DEF InclusionProof, IsIndex, HasLeaves
<1> HIDE DEF n, k
<1>2. WalksTell(leaves, others, n, k, 0, 0, i, j)
  BY <1>1, WalksDiffer
<1>3. n = k /\ i = j
  BY <1>1, <1>2 DEF WalksTell
<1> QED
  BY <1>3 DEF n, k

\* An inclusion proof belongs to one place in trees of one size (inclusion_proof).
THEOREM ProofsTellPlaces ==
  ASSUME NEW D, NEW leaves \in Seq({LeafHash(d) : d \in D}), NEW i \in 0 .. Len(leaves) - 1,
         NEW others \in Seq({LeafHash(d) : d \in D}), NEW j \in 0 .. Len(others) - 1,
         InclusionProof(leaves, i) = InclusionProof(others, j)
  PROVE  Len(leaves) = Len(others) /\ i = j
<1>1. HasLeaves(leaves) /\ HasLeaves(others) /\ IsIndex(i, leaves) /\ IsIndex(j, others)
  BY DEF AreLeaves, HasLeaves, IsIndex
<1>2. IsSequence(leaves) /\ IsSequence(others)
  BY DEF IsSequence
<1>3. TellsPlace(leaves, i, others, j)
  BY <1>1, <1>2, PlacesOfProofs, Zenon
<1> QED
  BY <1>3 DEF TellsPlace

HashesOf(D) == {LeafHash(d) : d \in D}

LEMMA LeavesFacts ==
  ASSUME NEW n \in Nat
  PROVE  /\ Leaves(n) \in Seq(HashesOf(Nat)) /\ IsSequence(Leaves(n))
         /\ Len(Leaves(n)) = n
         /\ \A i \in 1 .. n : Leaves(n)[i] = LeafHash(i)
<1>1. /\ Leaves(n) \in [1 .. n -> HashesOf(Nat)]
      /\ \A i \in 1 .. n : Leaves(n)[i] = LeafHash(i)
  BY DEF Leaves, HashesOf
<1>2. \A H : Leaves(n) \in [1 .. n -> H] => Leaves(n) \in Seq(H) /\ Len(Leaves(n)) = n
  OBVIOUS
<1> QED
  BY <1>1, <1>2 DEF IsSequence

\* The type of the state.
SizesAreNumbers == size \in Nat \ {0} /\ known \in 1 .. size

\* A ledger has leaves, and an auditor knows no more than there are (Append1, Verify).
LEMMA SizesStayNumbers == Spec => []SizesAreNumbers
<1>1. Init => SizesAreNumbers
  BY DEF Init, SizesAreNumbers
<1>2. SizesAreNumbers /\ [Next]_vars => SizesAreNumbers'
  BY DEF SizesAreNumbers, Next, Append1, Verify, vars
<1> QED
  BY <1>1, <1>2, PTL DEF Spec

LEMMA ReceiptsFitOnePlace ==
  ASSUME NEW s \in Nat \ {0}, NEW i \in Indexes(s), NEW n \in Nat \ {0},
         NEW leaf \in Indexes(n), NEW j \in Indexes(n)
  PROVE  VerifyInclusion(LeafHash(leaf + 1), j, n, InclusionProof(Leaves(s), i), Root(n))
           <=> leaf = i /\ j = i /\ n = s
<1> DEFINE ls == Leaves(s)
           ln == Leaves(n)
<1>1. /\ i \in 0 .. s - 1 /\ leaf \in 0 .. n - 1 /\ j \in 0 .. n - 1
      /\ leaf + 1 \in Nat /\ j + 1 \in 1 .. n
  BY DEF Indexes
<1>2. /\ ls \in Seq(HashesOf(Nat)) /\ ln \in Seq(HashesOf(Nat))
      /\ IsSequence(ls) /\ IsSequence(ln) /\ Len(ls) = s /\ Len(ln) = n
      /\ ln[j + 1] = LeafHash(j + 1)
  BY <1>1, LeavesFacts
<1>3. Root(n) = MerkleRoot(ln)
  BY DEF Root
<1> HIDE DEF ls, ln
<1>4. AreSteps(InclusionProof(ls, i))
  BY <1>1, <1>2, InclusionProofHasSteps
<1>5. VerifyInclusion(LeafHash(leaf + 1), j, Len(ln), InclusionProof(ls, i), MerkleRoot(ln))
        <=> LeafHash(leaf + 1) = ln[j + 1] /\ InclusionProof(ls, i) = InclusionProof(ln, j)
  BY <1>1, <1>2, <1>4, InclusionOfLeaves, Zenon
<1>6. LeafHash(leaf + 1) = ln[j + 1] <=> leaf = j
  <2>1. LeafHash(leaf + 1) = LeafHash(j + 1) => leaf + 1 = j + 1
    BY NodesDiffer
  <2> QED
    BY <1>1, <1>2, <2>1
<1>7. InclusionProof(ls, i) = InclusionProof(ln, j) => s = n /\ i = j
  <2>1. HasLeaves(ls) /\ HasLeaves(ln)
    BY <1>2, LeavesFacts DEF AreLeaves, HasLeaves, ls, ln
  <2>2. IsIndex(i, ls) /\ IsIndex(j, ln)
    BY <1>1, <1>2 DEF IsIndex
  <2>3. TellsPlace(ls, i, ln, j)
    BY <1>2, <2>1, <2>2, PlacesOfProofs, Zenon
  <2> QED
    BY <1>2, <2>3 DEF TellsPlace
<1>8. s = n /\ i = j => InclusionProof(ls, i) = InclusionProof(ln, j)
  BY DEF ls, ln
<1> QED
  BY <1>2, <1>3, <1>5, <1>6, <1>7, <1>8 DEF ls

\* The receipt of a leaf proves that leaf, at its index, under the root of its tree, and
\* nothing else, whatever the sizes (InclusionIsExact; inclusion_proof, verify_inclusion).
THEOREM InclusionStaysExact == Spec => []InclusionIsExact
<1>1. SizesAreNumbers => InclusionIsExact
  BY ReceiptsFitOnePlace DEF SizesAreNumbers, InclusionIsExact
<1> QED
  BY <1>1, SizesStayNumbers, PTL

LEMMA PrefixOfLeaves ==
  ASSUME NEW n \in Nat, NEW m \in 1 .. n
  PROVE  Prefix(Leaves(n), m) = Leaves(m)
<1>1. m \in Nat /\ 1 .. m \subseteq 1 .. n
  OBVIOUS
<1>2. /\ Len(Prefix(Leaves(n), m)) = m
      /\ \A i \in 1 .. m : Prefix(Leaves(n), m)[i] = Leaves(n)[i]
      /\ IsSequence(Prefix(Leaves(n), m))
  BY LeavesFacts, RootOfPrefix
<1>3. /\ IsSequence(Leaves(m)) /\ Len(Leaves(m)) = m
      /\ \A i \in 1 .. m : Leaves(n)[i] = LeafHash(i) /\ Leaves(m)[i] = LeafHash(i)
  BY <1>1, LeavesFacts
<1> QED
  BY <1>2, <1>3, SequencesEqual

LEMMA SameRootSameSize ==
  ASSUME NEW m \in Nat, NEW n \in Nat, Root(m) = Root(n)
  PROVE  m = n
<1>1. Leaves(m) = Leaves(n)
  BY LeavesFacts, RootsDecideLeaves DEF HashesOf, Root
<1> QED
  BY <1>1, LeavesFacts

\* The bundle of a checkpoint proves that its tree extends the known one, and no other
\* (ConsistencyIsExact; consistency_proof, verify_consistency).
THEOREM ConsistencyStaysExact == Spec => []ConsistencyIsExact
<1>1. ASSUME NEW n \in Nat \ {0}, NEW k \in 1 .. n, NEW m \in 1 .. n
      PROVE  VerifyConsistency(k, n, Root(m), Root(n), ConsistencyProof(Leaves(n), k)) <=> m = k
  <2> DEFINE ln == Leaves(n)
  <2>1. IsSequence(ln) /\ Len(ln) = n /\ Prefix(ln, k) = Leaves(k) /\ Root(n) = MerkleRoot(ln)
    BY LeavesFacts, PrefixOfLeaves DEF Root
  <2> HIDE DEF ln
  <2>2. IsSequence(ConsistencyProof(ln, k))
    BY <2>1, ConsistencyProofIsSequence
  <2>3. VerifyConsistency(k, Len(ln), Root(m), MerkleRoot(ln), ConsistencyProof(ln, k))
          <=> Root(m) = MerkleRoot(Prefix(ln, k)) /\ ConsistencyProof(ln, k) = ConsistencyProof(ln, k)
    BY <2>1, <2>2, ConsistencyOfLeaves, Zenon
  <2>4. MerkleRoot(Prefix(ln, k)) = Root(k)
    BY <2>1 DEF Root
  <2>5. Root(m) = Root(k) <=> m = k
    BY SameRootSameSize
  <2> QED
    BY <2>1, <2>3, <2>4, <2>5 DEF ln
<1>2. SizesAreNumbers => ConsistencyIsExact
  BY <1>1 DEF SizesAreNumbers, ConsistencyIsExact
<1> QED
  BY <1>2, SizesStayNumbers, PTL

LEMMA ForgeriesFacts ==
  ASSUME SizesAreNumbers, NEW i \in 1 .. size, NEW forged \in Forgeries(i)
  PROVE  forged \in Seq(HashesOf(Nat)) /\ Len(forged) = size
<1> DEFINE H == HashesOf(Nat)
<1>1. size \in Nat /\ Leaves(size) \in [1 .. size -> H] /\ LeafHash(0) \in H
      /\ \A j \in Nat : LeafHash(j) \in H
  BY DEF SizesAreNumbers, Leaves, HashesOf
<1> HIDE DEF H
<1>2. forged \in [1 .. size -> H]
  <2>1. CASE forged = [Leaves(size) EXCEPT ![i] = LeafHash(0)]
    BY <1>1, <2>1
  <2>2. CASE forged = [j \in 1 .. size |-> IF j = i /\ i < size THEN LeafHash(i + 1)
                                           ELSE IF j = i + 1 THEN LeafHash(i) ELSE LeafHash(j)]
    BY <1>1, <2>2
  <2>3. CASE forged = [j \in 1 .. size |-> IF j < i THEN LeafHash(j) ELSE LeafHash(j + 1)]
    BY <1>1, <2>3
  <2> QED
    BY <2>1, <2>2, <2>3 DEF Forgeries
<1> QED
  BY <1>1, <1>2 DEF H

\* A ledger whose history was changed behind the known checkpoint cannot prove that it
\* extends it, and one that differs only later can (ChangedHistoryIsNoticed;
\* README.md:130-131, consistency_proof and verify_consistency).
THEOREM ChangedHistoryStaysNoticed == Spec => []ChangedHistoryIsNoticed
<1>1. ASSUME SizesAreNumbers, NEW i \in 1 .. size, NEW forged \in Forgeries(i)
      PROVE  VerifyConsistency(known, size, Root(known), MerkleRoot(forged),
                               ConsistencyProof(forged, known))
               <=> Prefix(forged, known) = Leaves(known)
  <2>1. /\ size \in Nat /\ known \in 1 .. size /\ known \in Nat
        /\ forged \in Seq(HashesOf(Nat)) /\ IsSequence(forged) /\ Len(forged) = size
    BY <1>1, ForgeriesFacts DEF SizesAreNumbers, IsSequence
  <2>2. IsSequence(ConsistencyProof(forged, known))
    BY <2>1, ConsistencyProofIsSequence
  <2>3. VerifyConsistency(known, Len(forged), Root(known), MerkleRoot(forged),
                          ConsistencyProof(forged, known))
          <=> /\ Root(known) = MerkleRoot(Prefix(forged, known))
              /\ ConsistencyProof(forged, known) = ConsistencyProof(forged, known)
    BY <2>1, <2>2, ConsistencyOfLeaves, Zenon
  <2>4. Prefix(forged, known) \in Seq(HashesOf(Nat))
    BY <2>1 DEF Prefix
  <2>5. Root(known) = MerkleRoot(Prefix(forged, known)) => Prefix(forged, known) = Leaves(known)
    BY <2>1, <2>4, LeavesFacts, RootsDecideLeaves DEF HashesOf, Root
  <2>6. Prefix(forged, known) = Leaves(known) => Root(known) = MerkleRoot(Prefix(forged, known))
    BY DEF Root
  <2> QED
    BY <2>1, <2>3, <2>5, <2>6
<1>2. SizesAreNumbers => ChangedHistoryIsNoticed
  BY <1>1 DEF ChangedHistoryIsNoticed
<1> QED
  BY <1>2, SizesStayNumbers, PTL

-----------------------------------------------------------------------------
(***************************************************************************)
(* No hash of a proof of a ledger's leaves is the hash of something that   *)
(* never was a leaf.                                                       *)
(***************************************************************************)

\* The slice's leaves are the ledger's.
LEMMA NoRootIsOther ==
  ASSUME NEW size0 \in Nat, NEW n \in Nat \ {0}, NEW lo \in Nat, lo + n <= size0
  PROVE  Roots(Leaves(size0))[n][lo] # OtherHash
<1> DEFINE ls == Leaves(size0)
<1>1. CASE n = 1
  <2>1. lo + 1 \in 1 .. size0 /\ lo + 1 # 0
    BY <1>1
  <2>2. Roots(ls)[n][lo] = ls[lo + 1]
    BY <1>1, RootValue
  <2>3. ls[lo + 1] = LeafHash(lo + 1)
    BY <2>1, LeavesFacts
  <2> QED
    BY <2>1, <2>2, <2>3, NodesDiffer DEF OtherHash
<1>2. CASE n >= 2
  <2>1. PICK x, y : Roots(ls)[n][lo] = NodeHash(x, y)
    BY <1>2, RootValue
  <2> QED
    BY <2>1, NodesDiffer DEF OtherHash
<1> QED
  BY <1>1, <1>2

LEMMA OtherIsNoRoot ==
  ASSUME NEW n \in Nat \ {0}
  PROVE  Root(n) # OtherHash
<1>1. n \in Nat /\ 0 \in Nat /\ 0 + n <= n
  OBVIOUS
<1>2. Roots(Leaves(n))[n][0] # OtherHash
  BY <1>1, NoRootIsOther
<1> QED
  BY <1>1, <1>2, LeavesFacts DEF Root, MerkleRoot

NoHashIsOther(walk) == IsSequence(walk) /\ \A i \in 1 .. Len(walk) : walk[i].hash # OtherHash

LEMMA WalksHaveNoOther ==
  ASSUME NEW size0 \in Nat
  PROVE  \A n \in Nat : \A lo \in Nat, index \in 0 .. n - 1 :
           lo + n <= size0 => NoHashIsOther(Walks(Leaves(size0))[n][lo][index])
<1> DEFINE ls == Leaves(size0)
           S == {n \in Nat : \A lo \in Nat, index \in 0 .. n - 1 :
                   lo + n <= size0 => NoHashIsOther(Walks(ls)[n][lo][index])}
<1>0. ASSUME NEW w, NEW side, NEW h, NoHashIsOther(w), h # OtherHash
      PROVE  NoHashIsOther(Append(w, Step(side, h)))
  <2>1. /\ IsSequence(w) /\ IsSequence(Append(w, Step(side, h))) /\ Len(w) \in Nat
        /\ Len(Append(w, Step(side, h))) = Len(w) + 1
        /\ \A i \in 1 .. Len(w) : Append(w, Step(side, h))[i] = w[i]
        /\ Append(w, Step(side, h))[Len(w) + 1] = Step(side, h)
    BY <1>0, Appended DEF NoHashIsOther
  <2>2. Step(side, h).hash # OtherHash
    BY <1>0 DEF Step
  <2>3. \A i \in 1 .. Len(w) + 1 : i \in 1 .. Len(w) \/ i = Len(w) + 1
    BY <2>1
  <2> QED
    BY <1>0, <2>1, <2>2, <2>3 DEF NoHashIsOther
<1>1. ASSUME NEW n \in Nat, \A i \in 0 .. n - 1 : i \in S
      PROVE  n \in S
  <2> SUFFICES ASSUME NEW lo \in Nat, NEW index \in 0 .. n - 1, lo + n <= size0
               PROVE  NoHashIsOther(Walks(ls)[n][lo][index])
    OBVIOUS
  <2>0. \A m \in 0 .. n - 1 : \A a \in Nat, i \in 0 .. m - 1 :
          a + m <= size0 => NoHashIsOther(Walks(ls)[m][a][i])
    BY <1>1
  <2>1. CASE n = 1
    <3>1. Walks(ls)[n][lo][index] = <<>>
      BY <2>1, LeafHasNoSides
    <3> QED
      BY <3>1, ShortSequences DEF NoHashIsOther
  <2>2. CASE n >= 2
    <3>1. PICK k \in 1 .. n - 1 : k = Split(n) /\ k \in 0 .. n - 1 /\ n - k \in 0 .. n - 1
      BY <2>2, SplitParts
    <3>2. CASE index < k
      <4>1. Walks(ls)[n][lo][index] = Append(Walks(ls)[k][lo][index], Step("right", Roots(ls)[n - k][lo + k]))
        BY <2>2, <3>1, <3>2, WalkValue
      <4>2. index \in 0 .. k - 1 /\ lo + k <= size0 /\ lo + k \in Nat /\ n - k \in Nat \ {0}
            /\ (lo + k) + (n - k) <= size0
        BY <3>2
      <4>3. NoHashIsOther(Walks(ls)[k][lo][index])
        BY <2>0, <3>1, <4>2
      <4>4. Roots(ls)[n - k][lo + k] # OtherHash
        BY <4>2, NoRootIsOther
      <4> QED
        BY <1>0, <4>1, <4>3, <4>4
    <3>3. CASE index >= k
      <4>1. Walks(ls)[n][lo][index]
              = Append(Walks(ls)[n - k][lo + k][index - k], Step("left", Roots(ls)[k][lo]))
        BY <2>2, <3>1, <3>3, WalkValue
      <4>2. lo + k \in Nat /\ index - k \in 0 .. (n - k) - 1 /\ (lo + k) + (n - k) <= size0
            /\ k \in Nat \ {0} /\ lo + k <= size0
        BY <3>3
      <4>3. NoHashIsOther(Walks(ls)[n - k][lo + k][index - k])
        BY <2>0, <3>1, <4>2
      <4>4. Roots(ls)[k][lo] # OtherHash
        BY <4>2, NoRootIsOther
      <4> QED
        BY <1>0, <4>1, <4>3, <4>4
    <3> QED
      BY <3>1, <3>2, <3>3
  <2> QED
    BY <2>1, <2>2
<1> HIDE DEF S
<1>2. \A n \in Nat : n \in S
  BY <1>1, LeadingPowers!Induction
<1> QED
  BY <1>2 DEF S

LEMMA InclusionHasNoOther ==
  ASSUME NEW n \in Nat, NEW index \in 0 .. n - 1
  PROVE  NoHashIsOther(InclusionProof(Leaves(n), index))
<1>1. 0 \in Nat /\ 0 + n <= n /\ Len(Leaves(n)) = n
  BY LeavesFacts
<1>2. NoHashIsOther(Walks(Leaves(n))[n][0][index])
  BY <1>1, WalksHaveNoOther
<1> QED
  BY <1>1, <1>2 DEF InclusionProof

NoItemIsOther(items) == IsSequence(items) /\ \A i \in 1 .. Len(items) : items[i] # OtherHash

LEMMA SubproofsHaveNoOther ==
  ASSUME NEW size0 \in Nat
  PROVE  \A n \in Nat : \A lo \in Nat, m \in 1 .. n, complete \in BOOLEAN :
           lo + n <= size0 => NoItemIsOther(Subproofs(Leaves(size0))[n][lo][m][complete])
<1> DEFINE ls == Leaves(size0)
           S == {n \in Nat : \A lo \in Nat, m \in 1 .. n, complete \in BOOLEAN :
                   lo + n <= size0 => NoItemIsOther(Subproofs(ls)[n][lo][m][complete])}
<1>0. ASSUME NEW w, NEW h, NoItemIsOther(w), h # OtherHash
      PROVE  NoItemIsOther(Append(w, h))
  <2>1. /\ IsSequence(w) /\ IsSequence(Append(w, h)) /\ Len(w) \in Nat
        /\ Len(Append(w, h)) = Len(w) + 1
        /\ \A i \in 1 .. Len(w) : Append(w, h)[i] = w[i]
        /\ Append(w, h)[Len(w) + 1] = h
    BY <1>0, Appended DEF NoItemIsOther
  <2>3. \A i \in 1 .. Len(w) + 1 : i \in 1 .. Len(w) \/ i = Len(w) + 1
    BY <2>1
  <2> QED
    BY <1>0, <2>1, <2>3 DEF NoItemIsOther
<1>1. ASSUME NEW n \in Nat, \A i \in 0 .. n - 1 : i \in S
      PROVE  n \in S
  <2> SUFFICES ASSUME NEW lo \in Nat, NEW m \in 1 .. n, NEW complete \in BOOLEAN, lo + n <= size0
               PROVE  NoItemIsOther(Subproofs(ls)[n][lo][m][complete])
    OBVIOUS
  <2>0. \A i \in 0 .. n - 1 : \A a \in Nat, j \in 1 .. i, c \in BOOLEAN :
          a + i <= size0 => NoItemIsOther(Subproofs(ls)[i][a][j][c])
    BY <1>1
  <2>1. CASE m = n
    <3>1. n \in Nat \ {0}
      OBVIOUS
    <3>2. Roots(ls)[n][lo] # OtherHash
      BY <3>1, NoRootIsOther
    <3>3. \A r : r # OtherHash => NoItemIsOther(SharedSubtree(r, complete))
      BY ShortSequences DEF SharedSubtree, NoItemIsOther
    <3>4. Subproofs(ls)[n][lo][m][complete] = SharedSubtree(Roots(ls)[n][lo], complete)
      BY <2>1, SubproofOfWhole
    <3> QED
      BY <3>2, <3>3, <3>4
  <2>2. CASE m # n
    <3>1. PICK k \in 1 .. n - 1 : k = Split(n) /\ k \in 0 .. n - 1 /\ n - k \in 0 .. n - 1
      BY <2>2, SplitParts
    <3>0. SubproofHasParts(ls, n, lo, m, complete, k)
      BY <2>2, <3>1, SubproofOfParts
    <3>2. CASE m <= k
      <4>1. Subproofs(ls)[n][lo][m][complete]
              = Append(Subproofs(ls)[k][lo][m][complete], Roots(ls)[n - k][lo + k])
        BY <3>0, <3>2, Zenon DEF SubproofHasParts
      <4>2. m \in 1 .. k /\ lo + k <= size0 /\ lo + k \in Nat /\ n - k \in Nat \ {0}
            /\ (lo + k) + (n - k) <= size0
        BY <3>2
      <4>3. NoItemIsOther(Subproofs(ls)[k][lo][m][complete])
        BY <2>0, <3>1, <4>2
      <4>4. Roots(ls)[n - k][lo + k] # OtherHash
        BY <4>2, NoRootIsOther
      <4> QED
        BY <1>0, <4>1, <4>3, <4>4
    <3>3. CASE m > k
      <4>1. Subproofs(ls)[n][lo][m][complete]
              = Append(Subproofs(ls)[n - k][lo + k][m - k][FALSE], Roots(ls)[k][lo])
        BY <3>0, <3>3, Zenon DEF SubproofHasParts
      <4>2. lo + k \in Nat /\ m - k \in 1 .. n - k /\ (lo + k) + (n - k) <= size0
            /\ k \in Nat \ {0} /\ lo + k <= size0 /\ FALSE \in BOOLEAN
        BY <3>3
      <4>3. NoItemIsOther(Subproofs(ls)[n - k][lo + k][m - k][FALSE])
        BY <2>0, <3>1, <4>2
      <4>4. Roots(ls)[k][lo] # OtherHash
        BY <4>2, NoRootIsOther
      <4> QED
        BY <1>0, <4>1, <4>3, <4>4
    <3> QED
      BY <3>1, <3>2, <3>3
  <2> QED
    BY <2>1, <2>2
<1> HIDE DEF S
<1>2. \A n \in Nat : n \in S
  BY <1>1, LeadingPowers!Induction
<1> QED
  BY <1>2 DEF S

LEMMA ConsistencyHasNoOther ==
  ASSUME NEW n \in Nat, NEW m \in 1 .. n
  PROVE  NoItemIsOther(ConsistencyProof(Leaves(n), m))
<1>1. 0 \in Nat /\ 0 + n <= n /\ Len(Leaves(n)) = n /\ TRUE \in BOOLEAN
  BY LeavesFacts
<1>2. NoItemIsOther(Subproofs(Leaves(n))[n][0][m][TRUE])
  BY <1>1, SubproofsHaveNoOther
<1>3. NoItemIsOther(<<>>)
  BY ShortSequences DEF NoItemIsOther
<1> QED
  BY <1>1, <1>2, <1>3 DEF ConsistencyProof

-----------------------------------------------------------------------------
(***************************************************************************)
(* Signed checkpoints.                                                     *)
(***************************************************************************)

IsCheckpoint(c) ==
  c = [schema |-> c.schema, id |-> c.id, count |-> c.count, last |-> c.last, root |-> c.root,
       previous_id |-> c.previous_id, previous_root |-> c.previous_root,
       version |-> c.version, created |-> c.created, signature |-> c.signature]

\* What a signature covers.
SameFields(c, d) ==
  /\ c.id = d.id /\ c.count = d.count /\ c.last = d.last /\ c.root = d.root
  /\ c.previous_id = d.previous_id /\ c.previous_root = d.previous_root
  /\ c.version = d.version /\ Read(c.created) = Read(d.created)

\* A signature covers every other column but the schema version, and the time without the
\* form it is written in (checkpoint_payload).
LEMMA PayloadDecides ==
  ASSUME NEW c, NEW d
  PROVE  Payload(c) = Payload(d) <=> SameFields(c, d)
BY DEF Payload, SameFields

LEMMA ReadWritten == \A v : Read(Written(v)) = v
BY DEF Read, Written

Signed(c) ==
  /\ IsCheckpoint(c) /\ c.signature = Sign(Payload(c), c.version) /\ Read(c.created) # NoTime

LEMMA VerdictOnSigned ==
  ASSUME NEW c, Signed(c), NEW keyring
  PROVE  SignatureVerdict(c, keyring)
           = IF c.version \in keyring THEN "ok" ELSE "UNKNOWN_KEY_VERSION"
BY DEF SignatureVerdict, Signed

LEMMA SignaturesDiffer ==
  ASSUME NEW p, NEW k, NEW q, NEW l
  PROVE  Sign(p, k) = Sign(q, l) <=> p = q /\ k = l
BY DEF Sign

\* A checkpoint whose columns differ from those that replace them.
Changeable(c) ==
  /\ IsCheckpoint(c) /\ c.id \in Nat /\ c.count \in Int /\ c.last \in Int
  /\ c.previous_id \in Int /\ c.root # OtherHash /\ c.previous_root # OtherHash
  /\ Read(c.created) \in Nat

\* A checkpoint with one column changed is not signed (_verify_signed_checkpoint).
LEMMA ChangedIsNotSigned ==
  ASSUME NEW c, Changeable(c), Signed(c), c.version \in Versions, NEW d \in ChangedCheckpoints(c)
  PROVE  SignatureVerdict(d, Versions) = "INVALID_PROOF"
<1>1. SUFFICES /\ d.version \in Versions /\ Read(d.created) # NoTime
               /\ d.signature # Sign(Payload(d), d.version)
  BY DEF SignatureVerdict
<1> DEFINE Differs == ~ SameFields(d, c) /\ d.signature = c.signature
                      /\ d.version \in Versions /\ Read(d.created) # NoTime
<1>2. ASSUME Differs
      PROVE  /\ d.version \in Versions /\ Read(d.created) # NoTime
             /\ d.signature # Sign(Payload(d), d.version)
  <2>1. Payload(d) # Payload(c)
    BY <1>2, PayloadDecides
  <2>2. d.signature = Sign(Payload(c), c.version)
    BY <1>2 DEF Signed
  <2> QED
    BY <1>2, <2>1, <2>2, SignaturesDiffer
<1>3. PICK schema, id, count, last, root, pid, proot, version, created, signature :
        /\ c = [schema |-> schema, id |-> id, count |-> count, last |-> last, root |-> root,
                previous_id |-> pid, previous_root |-> proot, version |-> version,
                created |-> created, signature |-> signature]
        /\ id \in Nat /\ count \in Int /\ last \in Int /\ pid \in Int
        /\ root # OtherHash /\ proot # OtherHash /\ version \in Versions
        /\ Read(created) \in Nat
  BY DEF Changeable, IsCheckpoint
<1>4. CASE d = [c EXCEPT !.id = @ + 1]
  <2>1. d = [schema |-> schema, id |-> id + 1, count |-> count, last |-> last, root |-> root,
             previous_id |-> pid, previous_root |-> proot, version |-> version,
             created |-> created, signature |-> signature]
    BY <1>3, <1>4
  <2> QED
    BY <1>2, <1>3, <2>1 DEF SameFields, NoTime
<1>5. CASE d = [c EXCEPT !.count = @ + 1]
  <2>1. d = [schema |-> schema, id |-> id, count |-> count + 1, last |-> last, root |-> root,
             previous_id |-> pid, previous_root |-> proot, version |-> version,
             created |-> created, signature |-> signature]
    BY <1>3, <1>5
  <2> QED
    BY <1>2, <1>3, <2>1 DEF SameFields, NoTime
<1>6. CASE d = [c EXCEPT !.last = @ + 1]
  <2>1. d = [schema |-> schema, id |-> id, count |-> count, last |-> last + 1, root |-> root,
             previous_id |-> pid, previous_root |-> proot, version |-> version,
             created |-> created, signature |-> signature]
    BY <1>3, <1>6
  <2> QED
    BY <1>2, <1>3, <2>1 DEF SameFields, NoTime
<1>7. CASE d = [c EXCEPT !.root = OtherHash]
  <2>1. d = [schema |-> schema, id |-> id, count |-> count, last |-> last, root |-> OtherHash,
             previous_id |-> pid, previous_root |-> proot, version |-> version,
             created |-> created, signature |-> signature]
    BY <1>3, <1>7
  <2> QED
    BY <1>2, <1>3, <2>1 DEF SameFields, NoTime
<1>8. CASE d = [c EXCEPT !.previous_id = @ + 1]
  <2>1. d = [schema |-> schema, id |-> id, count |-> count, last |-> last, root |-> root,
             previous_id |-> pid + 1, previous_root |-> proot, version |-> version,
             created |-> created, signature |-> signature]
    BY <1>3, <1>8
  <2> QED
    BY <1>2, <1>3, <2>1 DEF SameFields, NoTime
<1>9. CASE d = [c EXCEPT !.previous_root = OtherHash]
  <2>1. d = [schema |-> schema, id |-> id, count |-> count, last |-> last, root |-> root,
             previous_id |-> pid, previous_root |-> OtherHash, version |-> version,
             created |-> created, signature |-> signature]
    BY <1>3, <1>9
  <2> QED
    BY <1>2, <1>3, <2>1 DEF SameFields, NoTime
<1>10. CASE d = [c EXCEPT !.signature = Sign(Payload(c), "none")]
  <2>1. d.version = version /\ d.signature = Sign(Payload(c), "none")
    BY <1>3, <1>10
  <2>2. version # "none"
    BY <1>3 DEF Versions
  <2>3. d.created = created
    BY <1>3, <1>10
  <2> QED
    BY <1>3, <2>1, <2>2, <2>3, SignaturesDiffer DEF NoTime
<1>11. CASE \E v \in Versions \ {c.version} : d = [c EXCEPT !.version = v]
  <2>1. PICK v \in Versions : v # version /\ d = [c EXCEPT !.version = v]
    BY <1>3, <1>11
  <2>2. d = [schema |-> schema, id |-> id, count |-> count, last |-> last, root |-> root,
             previous_id |-> pid, previous_root |-> proot, version |-> v,
             created |-> created, signature |-> signature]
    BY <1>3, <2>1
  <2> QED
    BY <1>2, <1>3, <2>1, <2>2 DEF SameFields, NoTime
<1>12. CASE d = [c EXCEPT !.created = Written(Read(@) + 1)]
  <2>1. d.version = version /\ d.signature = c.signature /\ d.created = Written(Read(created) + 1)
    BY <1>3, <1>12
  <2>2. Read(d.created) = Read(created) + 1
    BY <2>1, ReadWritten
  <2>3. c.created = created
    BY <1>3
  <2> QED
    BY <1>2, <1>3, <2>1, <2>2, <2>3 DEF SameFields, NoTime
<1> QED
  BY <1>4, <1>5, <1>6, <1>7, <1>8, <1>9, <1>10, <1>11, <1>12 DEF ChangedCheckpoints

\* Nor is the predecessor of the first checkpoint still none.
LEMMA ChangedIsSome ==
  ASSUME NEW d \in ChangedCheckpoints(NoCheckpoint)
  PROVE  d # NoCheckpoint
<1>1. /\ OtherHash # NoRoot /\ Sign(Payload(NoCheckpoint), "none") # <<>>
      /\ Written(Read(Written(0)) + 1) # Written(0)
  BY DEF OtherHash, NoRoot, LeafHash, EmptyRoot, Sign, Written, Read
<1> QED
  BY <1>1 DEF ChangedCheckpoints, NoCheckpoint, NoId, Versions

-----------------------------------------------------------------------------
(***************************************************************************)
(* The receipts of a ledger of three checkpoints.                          *)
(***************************************************************************)

AreSizes(sizes) ==
  /\ Len(sizes) = 3 /\ \A n \in 1 .. 3 : sizes[n] \in Nat \ {0}
  /\ sizes[1] < sizes[2] /\ sizes[2] < sizes[3]

PreviousRoot(sizes, n) == IF n = 1 THEN NoRoot ELSE Root(sizes[n - 1])

LEMMA ChainSizes ==
  ASSUME SizesAreNumbers, NEW chain \in Chains
  PROVE  \E sizes : AreSizes(sizes) /\ chain = Chain(sizes)
<1>1. PICK first \in 1 .. known - 1 : chain = Chain(<<first, known, size>>)
  BY DEF Chains
<1>2. known < size
  BY DEF Chains
<1>3. AreSizes(<<first, known, size>>)
  BY <1>2 DEF AreSizes, SizesAreNumbers
<1> QED
  BY <1>1, <1>3

LEMMA SignedCheckpoint ==
  ASSUME NEW id, NEW leaves, NEW last, NEW previous, NEW version, NEW created \in Nat
  PROVE  LET c == Checkpoint(id, leaves, last, previous, version, created)
         IN  /\ Signed(c)
             /\ c.id = id /\ c.count = Len(leaves) /\ c.last = last /\ c.root = MerkleRoot(leaves)
             /\ c.previous_id = previous.id /\ c.previous_root = previous.root
             /\ c.version = version /\ c.created = Written(created)
<1> DEFINE bare == [schema |-> SchemaVersion, id |-> id, count |-> Len(leaves), last |-> last,
                    root |-> MerkleRoot(leaves), previous_id |-> previous.id,
                    previous_root |-> previous.root, version |-> version,
                    created |-> Written(created), signature |-> <<>>]
           c == Checkpoint(id, leaves, last, previous, version, created)
<1>1. c = [bare EXCEPT !.signature = Sign(Payload(bare), version)]
  BY DEF Checkpoint
<1>2. c = [schema |-> SchemaVersion, id |-> id, count |-> Len(leaves), last |-> last,
           root |-> MerkleRoot(leaves), previous_id |-> previous.id,
           previous_root |-> previous.root, version |-> version,
           created |-> Written(created), signature |-> Sign(Payload(bare), version)]
  BY <1>1
<1>3. IsCheckpoint(c) /\ SameFields(bare, c)
  BY <1>2 DEF IsCheckpoint, SameFields
<1>4. Payload(bare) = Payload(c)
  BY <1>3, PayloadDecides
<1>5. c.created = Written(created) /\ Read(c.created) = created /\ created # NoTime
  BY <1>2, ReadWritten DEF NoTime
<1> QED
  BY <1>2, <1>3, <1>4, <1>5 DEF Signed

LEMMA CheckpointAt ==
  ASSUME NEW sizes, AreSizes(sizes), NEW n \in 1 .. 3
  PROVE  LET c == Chain(sizes)[n]
         IN  /\ Signed(c) /\ Changeable(c)
             /\ c.id = n /\ c.count = sizes[n] /\ c.root = Root(sizes[n])
             /\ c.previous_id = n - 1 /\ c.previous_root = PreviousRoot(sizes, n)
             /\ c.version = Version(n) /\ c.version \in Versions
             /\ c # NoCheckpoint /\ c.created = Written(n)
<1> DEFINE c == Chain(sizes)[n]
           previous == [id |-> n - 1, root |-> PreviousRoot(sizes, n)]
           last == SequenceOf(sizes[n] - 1)
<1>1. c = Checkpoint(n, Leaves(sizes[n]), last, previous, Version(n), n) /\ n \in Nat
  BY DEF Chain, AreSizes, PreviousRoot
<1>2. sizes[n] \in Nat \ {0} /\ Len(Leaves(sizes[n])) = sizes[n]
  BY LeavesFacts DEF AreSizes
<1>3. /\ Signed(c) /\ c.id = n /\ c.count = sizes[n] /\ c.last = last /\ c.root = Root(sizes[n])
      /\ c.previous_id = n - 1 /\ c.previous_root = PreviousRoot(sizes, n) /\ c.version = Version(n)
      /\ c.created = Written(n) /\ Read(c.created) = n
  <2> HIDE DEF c, last
  <2>1. /\ Signed(c) /\ c.id = n /\ c.count = Len(Leaves(sizes[n])) /\ c.last = last
        /\ c.root = MerkleRoot(Leaves(sizes[n]))
        /\ c.previous_id = previous.id /\ c.previous_root = previous.root /\ c.version = Version(n)
        /\ c.created = Written(n) /\ Read(c.created) = n
    BY <1>1, SignedCheckpoint, ReadWritten
  <2> QED
    BY <1>2, <2>1 DEF Root
<1>4. last \in Int
  BY <1>2 DEF SequenceOf
<1>5. Root(sizes[n]) # OtherHash
  BY <1>2, OtherIsNoRoot
<1>6. PreviousRoot(sizes, n) # OtherHash
  <2>1. NoRoot # OtherHash
    BY DEF NoRoot, EmptyRoot, OtherHash, LeafHash
  <2>2. CASE n # 1
    <3>1. sizes[n - 1] \in Nat \ {0}
      BY <2>2 DEF AreSizes
    <3>2. Root(sizes[n - 1]) # OtherHash
      BY <3>1, OtherIsNoRoot
    <3> QED
      BY <2>2, <3>2 DEF PreviousRoot
  <2> QED
    BY <2>1, <2>2 DEF PreviousRoot
<1>7. Version(n) \in Versions
  BY DEF Version, Versions
<1>8. c # NoCheckpoint
  BY <1>3 DEF NoCheckpoint, NoId
<1> HIDE DEF c, last
<1> QED
  BY <1>2, <1>3, <1>4, <1>5, <1>6, <1>7, <1>8 DEF Changeable, Signed, c

LEMMA NoneBeforeFirst ==
  ASSUME NEW sizes, AreSizes(sizes)
  PROVE  Chain(sizes)[0] = NoCheckpoint /\ DOMAIN Chain(sizes) = 0 .. 3
BY DEF Chain, AreSizes

BundleOf(sizes, n) ==
  [old |-> Chain(sizes)[n - 1], new_id |-> n, old_size |-> Written(sizes[n - 1]),
   new_size |-> Written(sizes[n]),
   hashes |-> Written(ConsistencyProof(Leaves(sizes[n]), sizes[n - 1]))]

LEMMA BundleAt ==
  ASSUME NEW sizes, AreSizes(sizes), NEW n \in 1 .. 3
  PROVE  LET b == Bundle(Chain(sizes)[n - 1], Chain(sizes)[n], Leaves(sizes[n]))
         IN  /\ n = 1 => b = NoBundle
             /\ n # 1 => b = BundleOf(sizes, n) /\ b # NoBundle /\ BundleOf(sizes, n) # NoBundle
<1>1. CASE n = 1
  BY <1>1, NoneBeforeFirst DEF Bundle
<1>2. CASE n # 1
  <2>1. n - 1 \in 1 .. 3
    BY <1>2
  <2>2. /\ Chain(sizes)[n - 1] # NoCheckpoint /\ Chain(sizes)[n - 1].count = sizes[n - 1]
        /\ Chain(sizes)[n].id = n /\ Chain(sizes)[n].count = sizes[n]
    <3>1. Chain(sizes)[n - 1] # NoCheckpoint /\ Chain(sizes)[n - 1].count = sizes[n - 1]
      BY <2>1, CheckpointAt
    <3>2. Chain(sizes)[n].id = n /\ Chain(sizes)[n].count = sizes[n]
      BY CheckpointAt
    <3> QED
      BY <3>1, <3>2
  <2>3. Bundle(Chain(sizes)[n - 1], Chain(sizes)[n], Leaves(sizes[n])) = BundleOf(sizes, n)
    BY <2>2 DEF Bundle, BundleOf
  <2>4. BundleOf(sizes, n).old # NoBundle.old
    BY <2>2 DEF BundleOf, NoBundle
  <2>5. BundleOf(sizes, n) # NoBundle
    BY <2>4
  <2> QED
    BY <1>2, <2>3, <2>5
<1> QED
  BY <1>1, <1>2

InclusionOf(n, i) ==
  [index |-> Written(i), size |-> Written(n), path |-> Written(InclusionProof(Leaves(n), i))]

\* A receipt's parts.
LEMMA ReceiptParts ==
  ASSUME NEW sizes, AreSizes(sizes), NEW n \in 1 .. 3, NEW i
  PROVE  ReceiptOf(Chain(sizes), n, i)
           = [event |-> EventAt(i), status |-> "sealed", checkpoint |-> Chain(sizes)[n],
              inclusion |-> InclusionOf(sizes[n], i),
              consistency |-> Bundle(Chain(sizes)[n - 1], Chain(sizes)[n], Leaves(sizes[n]))]
<1>1. Chain(sizes)[n].count = sizes[n]
  BY CheckpointAt
<1> QED
  BY <1>1 DEF ReceiptOf, SealedReceipt, InclusionOf

LEMMA EventFacts ==
  ASSUME NEW i \in Nat
  PROVE  /\ EventAt(i) = [sequence |-> SequenceOf(i), data |-> Written(i + 1),
                          leaf_hash |-> Written(LeafHash(i + 1))]
         /\ CommitmentHolds(EventAt(i)) /\ Read(EventAt(i).data) = i + 1
         /\ Read(EventAt(i).data) # NoTime
<1>1. EventAt(i) = [sequence |-> SequenceOf(i), data |-> Written(i + 1),
                    leaf_hash |-> Written(LeafHash(i + 1))]
  BY DEF EventAt, Event
<1>2. Read(EventAt(i).data) = i + 1 /\ Read(EventAt(i).leaf_hash) = LeafHash(i + 1)
  BY <1>1, ReadWritten
<1> QED
  BY <1>1, <1>2 DEF CommitmentHolds, NoTime

LEMMA InclusionAt ==
  ASSUME NEW n \in Nat \ {0}, NEW i \in Indexes(n), NEW p, AreSteps(p)
  PROVE  VerifyInclusion(LeafHash(i + 1), i, n, p, Root(n)) <=> p = InclusionProof(Leaves(n), i)
<1> DEFINE ln == Leaves(n)
<1>1. IsSequence(ln) /\ Len(ln) = n /\ i \in 0 .. n - 1 /\ i + 1 \in 1 .. n
      /\ Root(n) = MerkleRoot(ln)
  BY LeavesFacts DEF Indexes, Root
<1>2. ln[i + 1] = LeafHash(i + 1)
  BY <1>1, LeavesFacts
<1> HIDE DEF ln
<1>3. i \in 0 .. Len(ln) - 1
  BY <1>1
<1>4. VerifyInclusion(LeafHash(i + 1), i, Len(ln), p, MerkleRoot(ln))
        <=> LeafHash(i + 1) = ln[i + 1] /\ p = InclusionProof(ln, i)
  BY <1>1, <1>3, InclusionOfLeaves, Zenon
<1> QED
  BY <1>1, <1>2, <1>4 DEF ln

LEMMA ConsistencyAt ==
  ASSUME NEW n \in Nat \ {0}, NEW k \in 1 .. n, NEW p, IsSequence(p)
  PROVE  VerifyConsistency(k, n, Root(k), Root(n), p) <=> p = ConsistencyProof(Leaves(n), k)
<1> DEFINE ln == Leaves(n)
<1>1. IsSequence(ln) /\ Len(ln) = n /\ Prefix(ln, k) = Leaves(k) /\ Root(n) = MerkleRoot(ln)
  BY LeavesFacts, PrefixOfLeaves DEF Root
<1> HIDE DEF ln
<1>2. k \in 1 .. Len(ln)
  BY <1>1
<1>3. VerifyConsistency(k, Len(ln), Root(k), MerkleRoot(ln), p)
        <=> Root(k) = MerkleRoot(Prefix(ln, k)) /\ p = ConsistencyProof(ln, k)
  BY <1>1, <1>2, ConsistencyOfLeaves, Zenon
<1> QED
  BY <1>1, <1>3 DEF ln, Root

\* A sealed receipt is included in its checkpoint if its proof is the one that was built.
LEMMA ReceiptIsIncluded ==
  ASSUME NEW sizes, AreSizes(sizes), NEW n \in 1 .. 3, NEW i \in Indexes(sizes[n])
  PROVE  Included(ReceiptOf(Chain(sizes), n, i))
<1>1. sizes[n] \in Nat \ {0} /\ i \in Nat
  BY DEF AreSizes, Indexes
<1>2. AreSteps(InclusionProof(Leaves(sizes[n]), i))
  BY <1>1, LeavesFacts, InclusionProofHasSteps DEF Indexes
<1>3. VerifyInclusion(LeafHash(i + 1), i, sizes[n], InclusionProof(Leaves(sizes[n]), i), Root(sizes[n]))
  BY <1>1, <1>2, InclusionAt
<1>4. Chain(sizes)[n].count = sizes[n] /\ Chain(sizes)[n].root = Root(sizes[n])
  BY CheckpointAt
<1>5. Read(EventAt(i).data) = i + 1
  BY <1>1, EventFacts
<1> DEFINE r == ReceiptOf(Chain(sizes), n, i)
<1>6. /\ r.event = EventAt(i) /\ r.checkpoint = Chain(sizes)[n]
      /\ r.inclusion = InclusionOf(sizes[n], i)
  BY ReceiptParts
<1> HIDE DEF r
<1>7. /\ Read(r.inclusion.index) = i /\ Read(r.inclusion.size) = sizes[n]
      /\ Read(r.inclusion.path) = InclusionProof(Leaves(sizes[n]), i)
  BY <1>6, ReadWritten DEF InclusionOf
<1> QED
  BY <1>3, <1>4, <1>5, <1>6, <1>7 DEF Included, r

Needed(n) == {Version(m) : m \in {n - 1, n} \ {0}}

LEMMA BundleIsWitnessed ==
  ASSUME NEW sizes, AreSizes(sizes), NEW n \in 1 .. 3, NEW keyring
  PROVE  BundleVerdict(Bundle(Chain(sizes)[n - 1], Chain(sizes)[n], Leaves(sizes[n])),
                       Chain(sizes)[n], keyring)
           = IF n = 1 \/ Version(n - 1) \in keyring THEN "witnessed" ELSE "UNKNOWN_KEY_VERSION"
<1> DEFINE new == Chain(sizes)[n]
           b == Bundle(Chain(sizes)[n - 1], Chain(sizes)[n], Leaves(sizes[n]))
<1>1. /\ new.id = n /\ new.count = sizes[n] /\ new.root = Root(sizes[n])
      /\ new.previous_id = n - 1 /\ new.previous_root = PreviousRoot(sizes, n)
  BY CheckpointAt
<1>2. CASE n = 1
  <2>1. b = NoBundle
    BY <1>2, BundleAt
  <2> HIDE DEF b, new
  <2> QED
    BY <1>1, <1>2, <2>1 DEF BundleVerdict, PreviousRoot, NoId, b, new
<1>3. CASE n # 1
  <2> DEFINE old == Chain(sizes)[n - 1]
  <2>1. n - 1 \in 1 .. 3 /\ sizes[n - 1] \in 1 .. sizes[n] /\ sizes[n] \in Nat \ {0}
        /\ PreviousRoot(sizes, n) = Root(sizes[n - 1])
    BY <1>3 DEF AreSizes, PreviousRoot
  <2>2. /\ Signed(old) /\ old.id = n - 1 /\ old.count = sizes[n - 1]
        /\ old.root = Root(sizes[n - 1]) /\ old.version = Version(n - 1)
    BY <2>1, CheckpointAt
  <2>3. b = BundleOf(sizes, n) /\ b # NoBundle
    BY <1>3, BundleAt
  <2>4. SignatureVerdict(old, keyring)
          = IF Version(n - 1) \in keyring THEN "ok" ELSE "UNKNOWN_KEY_VERSION"
    BY <2>2, VerdictOnSigned
  <2>5. IsSequence(ConsistencyProof(Leaves(sizes[n]), sizes[n - 1]))
    BY <2>1, LeavesFacts, ConsistencyProofIsSequence
  <2>6. VerifyConsistency(sizes[n - 1], sizes[n], Root(sizes[n - 1]), Root(sizes[n]),
                          ConsistencyProof(Leaves(sizes[n]), sizes[n - 1]))
    BY <2>1, <2>5, ConsistencyAt
  <2>7. /\ b.old = old /\ b.new_id = n
        /\ Read(b.old_size) = sizes[n - 1] /\ Read(b.new_size) = sizes[n]
        /\ Read(b.hashes) = ConsistencyProof(Leaves(sizes[n]), sizes[n - 1])
    BY <2>3, ReadWritten DEF BundleOf
  <2> HIDE DEF b, new, old
  <2>8. Links(b, new)
    BY <1>1, <2>1, <2>2, <2>6, <2>7 DEF Links
  <2>9. new.previous_id # NoId
    BY <1>1, <1>3 DEF NoId
  <2> QED
    BY <1>3, <2>3, <2>4, <2>7, <2>8, <2>9 DEF BundleVerdict, b, new
<1> QED
  BY <1>2, <1>3

\* The verdict on a receipt depends on the keys of its checkpoints alone.
LEMMA VerdictOnReceipt ==
  ASSUME NEW sizes, AreSizes(sizes), NEW n \in 1 .. 3, NEW i \in Indexes(sizes[n]), NEW keyring
  PROVE  Verdict(ReceiptOf(Chain(sizes), n, i), keyring)
           = IF Needed(n) \subseteq keyring THEN "witnessed" ELSE "UNKNOWN_KEY_VERSION"
<1> DEFINE r == ReceiptOf(Chain(sizes), n, i)
           c == Chain(sizes)[n]
           b == Bundle(Chain(sizes)[n - 1], Chain(sizes)[n], Leaves(sizes[n]))
<1>1. Included(r)
  BY ReceiptIsIncluded
<1>2. r.event = EventAt(i) /\ r.status = "sealed" /\ r.checkpoint = c /\ r.consistency = b
  BY ReceiptParts
<1>3. CommitmentHolds(r.event) /\ Read(r.event.data) # NoTime
  BY <1>2, EventFacts DEF Indexes, AreSizes
<1>4. SignatureVerdict(c, keyring) = IF Version(n) \in keyring THEN "ok" ELSE "UNKNOWN_KEY_VERSION"
  BY CheckpointAt, VerdictOnSigned
<1>5. BundleVerdict(b, c, keyring)
        = IF n = 1 \/ Version(n - 1) \in keyring THEN "witnessed" ELSE "UNKNOWN_KEY_VERSION"
  BY BundleIsWitnessed
<1> HIDE DEF r, c, b
<1>6. Verdict(r, keyring) = SealedVerdict(r, keyring)
  BY <1>2, <1>3 DEF Verdict
<1>7. SealedVerdict(r, keyring)
        = IF Version(n) \in keyring /\ (n = 1 \/ Version(n - 1) \in keyring)
            THEN "witnessed" ELSE "UNKNOWN_KEY_VERSION"
  BY <1>1, <1>2, <1>4, <1>5 DEF SealedVerdict
<1>8. Needed(n) \subseteq keyring <=> Version(n) \in keyring /\ (n = 1 \/ Version(n - 1) \in keyring)
  BY DEF Needed
<1> QED
  BY <1>6, <1>7, <1>8 DEF r

LEMMA GenuineReceipts ==
  ASSUME NEW sizes, AreSizes(sizes), NEW r
  PROVE  r \in Genuine(Chain(sizes))
           <=> \E n \in 1 .. 3 : \E i \in Indexes(sizes[n]) : r = ReceiptOf(Chain(sizes), n, i)
<1>1. DOMAIN Chain(sizes) \ {0} = 1 .. 3
  BY NoneBeforeFirst
<1>2. \A n \in 1 .. 3 : Chain(sizes)[n].count = sizes[n]
  BY CheckpointAt
<1>3. Genuine(Chain(sizes))
        = UNION {{ReceiptOf(Chain(sizes), n, i) : i \in Indexes(Chain(sizes)[n].count)} : n \in 1 .. 3}
  BY <1>1 DEF Genuine
<1> QED
  BY <1>2, <1>3

\* Whoever has the keys of a checkpoint and of its predecessor can verify its receipts,
\* and who lacks one is told so (KeysDecide; _verify_signed_checkpoint).
THEOREM KeysAlwaysDecide == Spec => []KeysDecide
<1>1. ASSUME SizesAreNumbers, NEW chain \in Chains, NEW keyring \in SUBSET Versions
      PROVE  /\ \A n \in 1 .. 3 : \A i \in {0, chain[n].count - 1} :
                  Verdict(ReceiptOf(chain, n, i), keyring)
                    = IF Needed(n) \subseteq keyring THEN "witnessed" ELSE "UNKNOWN_KEY_VERSION"
             /\ Verdict(PendingReceipt(EventAt(size)), keyring) = "pending"
  <2>1. PICK sizes : AreSizes(sizes) /\ chain = Chain(sizes)
    BY <1>1, ChainSizes
  <2>2. ASSUME NEW n \in 1 .. 3, NEW i \in {0, chain[n].count - 1}
        PROVE  Verdict(ReceiptOf(chain, n, i), keyring)
                 = IF Needed(n) \subseteq keyring THEN "witnessed" ELSE "UNKNOWN_KEY_VERSION"
    <3>1. chain[n].count = sizes[n] /\ sizes[n] \in Nat \ {0}
      BY <2>1, CheckpointAt DEF AreSizes
    <3>2. i \in Indexes(sizes[n])
      BY <3>1 DEF Indexes
    <3> QED
      BY <2>1, <3>2, VerdictOnReceipt
  <2>3. size \in Nat
    BY <1>1 DEF SizesAreNumbers
  <2>4. CommitmentHolds(EventAt(size)) /\ Read(EventAt(size).data) # NoTime
    BY <2>3, EventFacts
  <2>5. Verdict(PendingReceipt(EventAt(size)), keyring) = "pending"
    BY <2>4 DEF Verdict, PendingReceipt, PendingVerdict
  <2> QED
    BY <2>2, <2>5
<1>2. SizesAreNumbers => KeysDecide
  BY <1>1 DEF KeysDecide, Needed
<1> QED
  BY <1>2, SizesStayNumbers, PTL

\* The key versions a checkpoint of the chain needs are all known.
LEMMA GenuineAreWitnessed ==
  ASSUME NEW sizes, AreSizes(sizes), NEW n \in 1 .. 3, NEW i \in Indexes(sizes[n])
  PROVE  Verdict(ReceiptOf(Chain(sizes), n, i), Versions) = "witnessed"
<1>1. Needed(n) \subseteq Versions
  BY DEF Needed, Version, Versions
<1> QED
  BY <1>1, VerdictOnReceipt

\* A receipt put together from the event of leaf e, the checkpoint nc, the inclusion of
\* leaf i under checkpoint ni and the bundle of checkpoint nb.
MixedOf(sizes, e, nc, ni, i, nb) ==
  [event |-> EventAt(e), status |-> "sealed", checkpoint |-> Chain(sizes)[nc],
   inclusion |-> InclusionOf(sizes[ni], i),
   consistency |-> Bundle(Chain(sizes)[nb - 1], Chain(sizes)[nb], Leaves(sizes[nb]))]

MixedOnlyTogether(sizes, e, nc, ni, i, nb) ==
  Verdict(MixedOf(sizes, e, nc, ni, i, nb), Versions) = "witnessed"
  => i = e /\ ni = nc /\ nb = nc

\* The parts of different receipts belong together if the checkpoint is over as many
\* leaves as the inclusion, the event at its index and the bundle its own.
LEMMA MixedBelongTogether ==
  ASSUME NEW sizes, AreSizes(sizes),
         NEW e \in Nat, NEW nc \in 1 .. 3,
         NEW ni \in 1 .. 3, NEW i \in Indexes(sizes[ni]),
         NEW nb \in 1 .. 3
  PROVE  MixedOnlyTogether(sizes, e, nc, ni, i, nb)
<1> SUFFICES ASSUME NEW r, r = MixedOf(sizes, e, nc, ni, i, nb),
                    Verdict(r, Versions) = "witnessed"
             PROVE  i = e /\ ni = nc /\ nb = nc
  BY DEF MixedOnlyTogether
<1> DEFINE c == Chain(sizes)[nc]
           b == Bundle(Chain(sizes)[nb - 1], Chain(sizes)[nb], Leaves(sizes[nb]))
<1>1. /\ \A n \in 1 .. 3 : sizes[n] \in Nat \ {0}
      /\ \A n, k \in 1 .. 3 : sizes[n] = sizes[k] => n = k
  BY DEF AreSizes
<1>2. c.count = sizes[nc] /\ c.root = Root(sizes[nc]) /\ c.previous_id = nc - 1
  BY CheckpointAt
<1>3. nb = 1 => b = NoBundle
  BY BundleAt
<1>4. nb # 1 => b # NoBundle /\ b.old.id = nb - 1
  <2>1. ASSUME nb # 1
        PROVE  b # NoBundle /\ b.old.id = nb - 1
    <3>1. nb - 1 \in 1 .. 3
      BY <2>1
    <3>2. Chain(sizes)[nb - 1].id = nb - 1
      BY <3>1, CheckpointAt
    <3>3. b # NoBundle /\ b = BundleOf(sizes, nb)
      BY <2>1, BundleAt
    <3> QED
      BY <3>2, <3>3 DEF BundleOf
  <2> QED
    BY <2>1
<1> HIDE DEF c, b
<1>5. /\ r.event = EventAt(e) /\ r.status = "sealed" /\ r.checkpoint = c
      /\ Read(r.inclusion.size) = sizes[ni] /\ Read(r.inclusion.index) = i
      /\ Read(r.inclusion.path) = InclusionProof(Leaves(sizes[ni]), i) /\ r.consistency = b
  BY ReadWritten DEF MixedOf, InclusionOf, c, b
<1>6. SealedVerdict(r, Versions) = "witnessed"
  BY <1>5 DEF Verdict
<1>7. Included(r) /\ BundleVerdict(b, c, Versions) = "witnessed"
  <2>1. SignatureVerdict(c, Versions) # "witnessed"
    BY DEF SignatureVerdict
  <2> QED
    BY <1>5, <1>6, <2>1 DEF SealedVerdict
<1>8. ni = nc
  <2>1. Read(r.inclusion.size) = r.checkpoint.count
    BY <1>7, Zenon DEF Included
  <2>2. sizes[ni] = sizes[nc]
    BY <1>2, <1>5, <2>1, Zenon
  <2> QED
    BY <1>1, <2>2, Zenon
<1>9. i = e
  <2>1. VerifyInclusion(LeafHash(e + 1), i, sizes[ni], InclusionProof(Leaves(sizes[ni]), i),
                        Root(sizes[ni]))
    <3>1. Read(EventAt(e).data) = e + 1
      BY EventFacts
    <3> QED
      BY <1>2, <1>5, <1>7, <1>8, <3>1 DEF Included
  <2>2. AreSteps(InclusionProof(Leaves(sizes[ni]), i))
    BY <1>1, LeavesFacts, InclusionProofHasSteps DEF Indexes
  <2> DEFINE n == sizes[ni]
             ln == Leaves(n)
  <2>3. n \in Nat /\ IsSequence(ln) /\ Len(ln) = n /\ i \in 0 .. n - 1 /\ i + 1 \in 1 .. n
        /\ Root(n) = MerkleRoot(ln) /\ i \in 0 .. Len(ln) - 1
    <3>1. n \in Nat /\ i \in 0 .. n - 1
      BY <1>1 DEF Indexes
    <3> HIDE DEF n
    <3>2. IsSequence(ln) /\ Len(ln) = n
      BY <3>1, LeavesFacts
    <3>3. Root(n) = MerkleRoot(ln)
      BY DEF Root
    <3> HIDE DEF ln
    <3> QED
      BY <3>1, <3>2, <3>3
  <2>4. ln[i + 1] = LeafHash(i + 1)
    BY <2>3, LeavesFacts
  <2> HIDE DEF ln, n
  <2>5. VerifyInclusion(LeafHash(e + 1), i, Len(ln), InclusionProof(ln, i), MerkleRoot(ln))
          <=> LeafHash(e + 1) = ln[i + 1] /\ InclusionProof(ln, i) = InclusionProof(ln, i)
    BY <2>2, <2>3, InclusionOfLeaves, Zenon DEF ln, n
  <2>6. LeafHash(e + 1) = LeafHash(i + 1)
    BY <2>1, <2>3, <2>4, <2>5 DEF ln, n
  <2>7. e + 1 = i + 1 /\ e \in Nat /\ i \in Nat
    BY <1>1, <2>6, NodesDiffer DEF Indexes
  <2> QED
    BY <2>7
<1>10. nb = nc
  <2>1. CASE nc = 1
    <3>1. b = NoBundle
      BY <1>2, <1>7, <2>1 DEF BundleVerdict, NoId
    <3> QED
      BY <1>4, <2>1, <3>1
  <2>2. CASE nc # 1
    <3>1. c.previous_id # NoId
      BY <1>2, <2>2 DEF NoId
    <3>2. b # NoBundle /\ (SignatureVerdict(b.old, Versions) # "ok" \/ Links(b, c))
      BY <1>7, <3>1 DEF BundleVerdict
    <3>3. SignatureVerdict(b.old, Versions) # "witnessed"
      BY DEF SignatureVerdict
    <3>4. Links(b, c)
      BY <1>7, <3>1, <3>2, <3>3 DEF BundleVerdict
    <3>5. b.old.id = nc - 1
      BY <1>2, <3>4 DEF Links
    <3> QED
      BY <1>3, <1>4, <3>2, <3>5
  <2> QED
    BY <2>1, <2>2
<1> QED
  BY <1>8, <1>9, <1>10

\* A receipt whose parts were taken from different receipts of one ledger verifies only if
\* the parts belong together after all (MixedReceiptsAreRefused; verify_receipt).
THEOREM MixedReceiptsStayRefused == Spec => []MixedReceiptsAreRefused
<1>1. ASSUME SizesAreNumbers, NEW chain \in Chains,
             NEW a \in Genuine(chain), NEW b \in Genuine(chain),
             NEW c \in Genuine(chain), NEW d \in Genuine(chain),
             NEW mixed,
             mixed = [event |-> a.event, status |-> "sealed", checkpoint |-> b.checkpoint,
                      inclusion |-> c.inclusion, consistency |-> d.consistency]
      PROVE  Verdict(mixed, Versions) = "witnessed" <=> mixed \in Genuine(chain)
  <2>1. PICK sizes : AreSizes(sizes) /\ chain = Chain(sizes)
    BY <1>1, ChainSizes
  <2>2. PICK na, ia : na \in 1 .. 3 /\ ia \in Indexes(sizes[na]) /\ a = ReceiptOf(chain, na, ia)
    BY <2>1, GenuineReceipts
  <2>3. PICK nb, ib : nb \in 1 .. 3 /\ ib \in Indexes(sizes[nb]) /\ b = ReceiptOf(chain, nb, ib)
    BY <2>1, GenuineReceipts
  <2>4. PICK nc, ic : nc \in 1 .. 3 /\ ic \in Indexes(sizes[nc]) /\ c = ReceiptOf(chain, nc, ic)
    BY <2>1, GenuineReceipts
  <2>5. PICK nd, id : nd \in 1 .. 3 /\ id \in Indexes(sizes[nd]) /\ d = ReceiptOf(chain, nd, id)
    BY <2>1, GenuineReceipts
  <2>6. /\ a.event = EventAt(ia) /\ b.checkpoint = Chain(sizes)[nb]
        /\ c.inclusion = InclusionOf(sizes[nc], ic)
        /\ d.consistency = Bundle(Chain(sizes)[nd - 1], Chain(sizes)[nd], Leaves(sizes[nd]))
    <3>1. a.event = EventAt(ia)
      BY <2>1, <2>2, ReceiptParts
    <3>2. b.checkpoint = Chain(sizes)[nb]
      BY <2>1, <2>3, ReceiptParts
    <3>3. c.inclusion = InclusionOf(sizes[nc], ic)
      BY <2>1, <2>4, ReceiptParts
    <3>4. d.consistency = Bundle(Chain(sizes)[nd - 1], Chain(sizes)[nd], Leaves(sizes[nd]))
      BY <2>1, <2>5, ReceiptParts
    <3> QED
      BY <3>1, <3>2, <3>3, <3>4
  <2>7. mixed = MixedOf(sizes, ia, nb, nc, ic, nd)
    BY <1>1, <2>6, Zenon DEF MixedOf
  <2>8. ASSUME Verdict(mixed, Versions) = "witnessed"
        PROVE  mixed \in Genuine(chain)
    <3>0. /\ AreSizes(sizes) /\ nb \in 1 .. 3 /\ nc \in 1 .. 3 /\ nd \in 1 .. 3
          /\ ia \in Nat /\ ic \in Indexes(sizes[nc])
      <4>1. ia \in Nat
        BY <2>1, <2>2 DEF Indexes, AreSizes
      <4> QED
        BY <2>1, <2>3, <2>4, <2>5, <4>1
    <3>1. ic = ia /\ nc = nb /\ nd = nb
      <4>1. MixedOnlyTogether(sizes, ia, nb, nc, ic, nd)
        BY <3>0, MixedBelongTogether
      <4> QED
        BY <2>7, <2>8, <4>1, Zenon DEF MixedOnlyTogether
    <3>2. mixed = ReceiptOf(Chain(sizes), nb, ic) /\ ic \in Indexes(sizes[nb])
      <4>1. mixed = MixedOf(sizes, ic, nb, nb, ic, nb) /\ ic \in Indexes(sizes[nb])
        BY <2>7, <3>0, <3>1
      <4>2. ReceiptOf(Chain(sizes), nb, ic) = MixedOf(sizes, ic, nb, nb, ic, nb)
        BY <3>0, ReceiptParts DEF MixedOf
      <4> QED
        BY <4>1, <4>2, Zenon
    <3> QED
      BY <2>1, <2>3, <3>2, GenuineReceipts
  <2>9. ASSUME mixed \in Genuine(chain)
        PROVE  Verdict(mixed, Versions) = "witnessed"
    <3>1. PICK n, i : n \in 1 .. 3 /\ i \in Indexes(sizes[n]) /\ mixed = ReceiptOf(chain, n, i)
      BY <2>1, <2>9, GenuineReceipts
    <3> QED
      BY <2>1, <3>1, GenuineAreWitnessed
  <2> QED
    BY <2>8, <2>9
<1>2. SizesAreNumbers => MixedReceiptsAreRefused
  BY <1>1 DEF MixedReceiptsAreRefused
<1> QED
  BY <1>2, SizesStayNumbers, PTL

-----------------------------------------------------------------------------
(***************************************************************************)
(* What a changed proof is.                                                *)
(***************************************************************************)

LEMMA Lengthened ==
  ASSUME NEW s, IsSequence(s), NEW e
  PROVE  IsSequence(s \o <<e>>) /\ Len(s \o <<e>>) = Len(s) + 1
         /\ (\A i \in 1 .. Len(s) : (s \o <<e>>)[i] = s[i]) /\ (s \o <<e>>)[Len(s) + 1] = e
<1>1. PICK S : s \in Seq(S)
  BY DEF IsSequence
<1>2. s \in Seq(S \cup {e}) /\ <<e>> \in Seq(S \cup {e})
  BY <1>1
<1>3. s \o <<e>> \in Seq(S \cup {e})
  BY <1>2
<1> QED
  BY <1>2, <1>3 DEF IsSequence

LEMMA Replaced ==
  ASSUME NEW s, IsSequence(s), NEW e, NEW k \in DOMAIN s
  PROVE  /\ IsSequence([s EXCEPT ![k] = e]) /\ Len([s EXCEPT ![k] = e]) = Len(s)
         /\ [s EXCEPT ![k] = e][k] = e
         /\ \A i \in 1 .. Len(s) : i # k => [s EXCEPT ![k] = e][i] = s[i]
         /\ k \in 1 .. Len(s)
<1>1. PICK S : s \in Seq(S)
  BY DEF IsSequence
<1>2. s \in Seq(S \cup {e}) /\ e \in S \cup {e} /\ k \in 1 .. Len(s)
  BY <1>1
<1>3. [s EXCEPT ![k] = e] \in Seq(S \cup {e})
  BY <1>2
<1> QED
  BY <1>2, <1>3 DEF IsSequence

\* The bundle's proof is another sequence when a hash is dropped, added or replaced.
LEMMA ChangedHashesDiffer ==
  ASSUME NEW s, NoItemIsOther(s), NEW p \in ChangedHashes(s)
  PROVE  IsSequence(p) /\ p # s
<1>0. IsSequence(s) /\ Len(s) \in Nat /\ (1 \in DOMAIN s => s # <<>>)
  BY SequenceFacts, ShortSequences DEF NoItemIsOther
<1>1. CASE 1 \in DOMAIN s /\ p = Tail(s)
  <2>1. IsSequence(p) /\ Len(p) = Len(s) - 1
    BY <1>0, <1>1, HeadAndTail
  <2>2. Len(p) # Len(s)
    BY <1>0, <2>1
  <2> QED
    BY <2>1, <2>2
<1>2. CASE p = s \o <<OtherHash>>
  <2>1. IsSequence(p) /\ Len(p) = Len(s) + 1
    BY <1>0, <1>2, Lengthened
  <2> QED
    BY <1>0, <2>1
<1>3. CASE \E k \in DOMAIN s : p = [s EXCEPT ![k] = OtherHash]
  <2>1. PICK k \in DOMAIN s : p = [s EXCEPT ![k] = OtherHash]
    BY <1>3
  <2>2. IsSequence(p) /\ k \in 1 .. Len(s) /\ p[k] = OtherHash
    BY <1>0, <2>1, Replaced
  <2> QED
    BY <2>2 DEF NoItemIsOther
<1> QED
  BY <1>1, <1>2, <1>3 DEF ChangedHashes

LEMMA OneStepReplaced ==
  ASSUME NEW s, AreSteps(s), NEW k \in DOMAIN s, NEW side, NEW hash,
         NEW p, p = [s EXCEPT ![k] = Step(side, hash)], Step(side, hash) # s[k]
  PROVE  AreSteps(p) /\ p # s
<1>1. /\ IsSequence(p) /\ Len(p) = Len(s) /\ k \in 1 .. Len(s)
      /\ p[k] = Step(side, hash) /\ \A i \in 1 .. Len(s) : i # k => p[i] = s[i]
  <2> DEFINE e == Step(side, hash)
  <2>1. IsSequence(s) /\ p = [s EXCEPT ![k] = e]
    BY DEF AreSteps
  <2> HIDE DEF e
  <2>2. /\ IsSequence(p) /\ Len(p) = Len(s) /\ k \in 1 .. Len(s)
        /\ p[k] = e /\ \A i \in 1 .. Len(s) : i # k => p[i] = s[i]
    <3>1. /\ IsSequence([s EXCEPT ![k] = e]) /\ Len([s EXCEPT ![k] = e]) = Len(s)
          /\ [s EXCEPT ![k] = e][k] = e
          /\ \A i \in 1 .. Len(s) : i # k => [s EXCEPT ![k] = e][i] = s[i]
          /\ k \in 1 .. Len(s)
      BY <2>1, Replaced, Zenon
    <3> QED
      BY <2>1, <3>1
  <2> QED
    BY <2>2 DEF e
<1>2. \A i \in 1 .. Len(p) : p[i] = Step(p[i].side, p[i].hash)
  <2>1. Step(side, hash) = Step(Step(side, hash).side, Step(side, hash).hash)
    BY DEF Step
  <2> QED
    BY <1>1, <2>1 DEF AreSteps
<1> QED
  BY <1>1, <1>2 DEF AreSteps

\* So it is with the path of a receipt, whose steps have sides as well.
LEMMA ChangedPathsDiffer ==
  ASSUME NEW s, AreSteps(s), NoHashIsOther(s), NEW p \in ChangedPaths(s)
  PROVE  AreSteps(p) /\ p # s
<1>0. IsSequence(s) /\ Len(s) \in Nat /\ DOMAIN s = 1 .. Len(s) /\ (1 \in DOMAIN s => s # <<>>)
  BY SequenceFacts, ShortSequences DEF NoHashIsOther
<1>1. CASE 1 \in DOMAIN s /\ p = Tail(s)
  <2>1. /\ IsSequence(p) /\ Len(p) = Len(s) - 1
        /\ \A i \in 1 .. Len(s) - 1 : p[i] = s[i + 1]
    BY <1>0, <1>1, HeadAndTail
  <2>2. \A i \in 1 .. Len(s) - 1 : i + 1 \in 1 .. Len(s)
    BY <1>0
  <2>3. \A i \in 1 .. Len(p) : p[i] = Step(p[i].side, p[i].hash)
    BY <2>1, <2>2 DEF AreSteps
  <2> QED
    BY <1>0, <2>1, <2>3 DEF AreSteps
<1>2. CASE p = s \o <<Step("left", OtherHash)>>
  <2>1. /\ IsSequence(p) /\ Len(p) = Len(s) + 1
        /\ \A i \in 1 .. Len(s) : p[i] = s[i]
        /\ p[Len(s) + 1] = Step("left", OtherHash)
    BY <1>0, <1>2, Lengthened
  <2>2. \A i \in 1 .. Len(p) : p[i] = Step(p[i].side, p[i].hash)
    <3>1. Step("left", OtherHash) = Step(Step("left", OtherHash).side, Step("left", OtherHash).hash)
      BY DEF Step
    <3>2. \A i \in 1 .. Len(p) : i \in 1 .. Len(s) \/ i = Len(s) + 1
      BY <1>0, <2>1
    <3> QED
      BY <2>1, <3>1, <3>2 DEF AreSteps
  <2> QED
    BY <1>0, <2>1, <2>2 DEF AreSteps
<1>3. CASE \E k \in DOMAIN s : p = [s EXCEPT ![k].hash = OtherHash]
  <2>1. PICK k \in DOMAIN s : p = [s EXCEPT ![k].hash = OtherHash]
    BY <1>3
  <2>2. s[k] = Step(s[k].side, s[k].hash) /\ s[k].hash # OtherHash
    BY <1>0, <2>1 DEF AreSteps, NoHashIsOther
  <2>3. [s[k] EXCEPT !.hash = OtherHash] = Step(s[k].side, OtherHash)
    BY <2>2 DEF Step
  <2>4. p = [s EXCEPT ![k] = Step(s[k].side, OtherHash)]
    BY <2>1, <2>3
  <2>5. Step(s[k].side, OtherHash) # s[k]
    BY <2>2 DEF Step
  <2> QED
    BY <2>1, <2>4, <2>5, OneStepReplaced
<1>4. CASE \E k \in DOMAIN s : p = [s EXCEPT ![k].side = IF @ = "left" THEN "right" ELSE "left"]
  <2>1. PICK k \in DOMAIN s : p = [s EXCEPT ![k].side = IF @ = "left" THEN "right" ELSE "left"]
    BY <1>4
  <2> DEFINE side == IF s[k].side = "left" THEN "right" ELSE "left"
  <2>2. s[k] = Step(s[k].side, s[k].hash) /\ side # s[k].side
    BY <1>0, <2>1 DEF AreSteps
  <2>3. [s[k] EXCEPT !.side = side] = Step(side, s[k].hash)
    BY <2>2 DEF Step
  <2>4. p = [s EXCEPT ![k] = Step(side, s[k].hash)]
    BY <2>1, <2>3
  <2> HIDE DEF side
  <2>5. Step(side, s[k].hash) # s[k]
    BY <2>2 DEF Step
  <2>6. k \in DOMAIN s
    BY <2>1
  <2> QED
    BY <2>4, <2>5, <2>6, OneStepReplaced, Zenon
<1>5. p \in {Tail(s) : x \in {1} \cap DOMAIN s} => 1 \in DOMAIN s /\ p = Tail(s)
  OBVIOUS
<1> QED
  BY <1>1, <1>2, <1>3, <1>4, <1>5 DEF ChangedPaths

-----------------------------------------------------------------------------
(***************************************************************************)
(* A receipt with one field changed.                                       *)
(***************************************************************************)

LEMMA ChangedEventIsRefused ==
  ASSUME NEW i \in Nat, NEW e \in ChangedEvents(EventAt(i))
  PROVE  ~ CommitmentHolds(e) /\ Read(e.data) # NoTime
<1>1. /\ EventAt(i) = [sequence |-> SequenceOf(i), data |-> Written(i + 1),
                       leaf_hash |-> Written(LeafHash(i + 1))]
      /\ i + 1 # 0
  BY EventFacts
<1>2. LeafHash(i + 1) # LeafHash(0)
  BY <1>1, NodesDiffer
<1>3. CASE e = [EventAt(i) EXCEPT !.data = Written(0)]
  <2>1. Read(e.data) = 0 /\ Read(e.leaf_hash) = LeafHash(i + 1)
    BY <1>1, <1>3, ReadWritten
  <2> QED
    BY <1>2, <2>1 DEF CommitmentHolds, NoTime
<1>4. CASE e = [EventAt(i) EXCEPT !.leaf_hash = Written(OtherHash)]
  <2>1. Read(e.data) = i + 1 /\ Read(e.leaf_hash) = LeafHash(0)
    BY <1>1, <1>4, ReadWritten DEF OtherHash
  <2> QED
    BY <1>2, <2>1 DEF CommitmentHolds, NoTime
<1> QED
  BY <1>3, <1>4 DEF ChangedEvents

LEMMA OtherIndexIsRefused ==
  ASSUME NEW n \in Nat \ {0}, NEW i \in Indexes(n), NEW j, j # i
  PROVE  ~ VerifyInclusion(LeafHash(i + 1), j, n, InclusionProof(Leaves(n), i), Root(n))
<1>1. CASE j \in Indexes(n)
  BY <1>1, ReceiptsFitOnePlace
<1>2. CASE j \notin Indexes(n)
  BY <1>2 DEF VerifyInclusion, Indexes
<1> QED
  BY <1>1, <1>2

LEMMA ChangedInclusionIsRefused ==
  ASSUME NEW n \in Nat \ {0}, NEW i \in Indexes(n),
         NEW d \in ChangedInclusions(InclusionOf(n, i))
  PROVE  ~ (/\ Read(d.size) = n
            /\ VerifyInclusion(LeafHash(i + 1), Read(d.index), Read(d.size), Read(d.path),
                               Root(n)))
<1> DEFINE P == InclusionProof(Leaves(n), i)
           inclusion == [index |-> Written(i), size |-> Written(n), path |-> Written(P)]
<1>1. n \in Nat /\ i \in 0 .. n - 1 /\ i \in Nat
  BY DEF Indexes
<1>2. AreSteps(P) /\ NoHashIsOther(P)
  BY <1>1, LeavesFacts, InclusionProofHasSteps, InclusionHasNoOther
<1>3. \A j : j # i => ~ VerifyInclusion(LeafHash(i + 1), j, n, P, Root(n))
  BY OtherIndexIsRefused
<1>4. \A p : AreSteps(p) /\ p # P => ~ VerifyInclusion(LeafHash(i + 1), i, n, p, Root(n))
  BY InclusionAt
<1>5. d \in ChangedInclusions(inclusion)
  BY DEF InclusionOf
<1> HIDE DEF P
<1>6. CASE \/ d = [inclusion EXCEPT !.index = Written(Read(@) + 1)]
           \/ d = [inclusion EXCEPT !.index = Written(Read(@) - 1)]
  <2>1. Read(d.size) = n /\ Read(d.path) = P /\ (Read(d.index) = i + 1 \/ Read(d.index) = i - 1)
    BY <1>6, ReadWritten
  <2>2. Read(d.index) # i
    BY <1>1, <2>1
  <2> QED
    BY <1>3, <2>1, <2>2
<1>7. CASE \/ d = [inclusion EXCEPT !.size = Written(Read(@) + 1)]
           \/ d = [inclusion EXCEPT !.size = Written(Read(@) - 1)]
  <2>1. Read(d.size) = n + 1 \/ Read(d.size) = n - 1
    BY <1>7, ReadWritten
  <2> QED
    BY <1>1, <2>1
<1>8. CASE \E p \in ChangedPaths(P) : d = [inclusion EXCEPT !.path = Written(p)]
  <2>1. PICK p \in ChangedPaths(P) : d = [inclusion EXCEPT !.path = Written(p)]
    BY <1>8
  <2>2. Read(d.size) = n /\ Read(d.path) = p /\ Read(d.index) = i
    BY <2>1, ReadWritten
  <2>3. AreSteps(p) /\ p # P
    BY <1>2, <2>1, ChangedPathsDiffer
  <2> QED
    BY <1>4, <2>2, <2>3
<1>9. Read(inclusion.path) = P
  BY ReadWritten
<1> HIDE DEF inclusion
<1> QED
  BY <1>5, <1>6, <1>7, <1>8, <1>9, Zenon DEF ChangedInclusions

\* The first checkpoint has no bundle, and a changed one is one.
LEMMA ChangedNoBundle ==
  ASSUME NEW d \in ChangedBundles(NoBundle)
  PROVE  d # NoBundle
<1>1. CASE d = [NoBundle EXCEPT !.new_id = @ + 1]
  BY <1>1 DEF NoBundle, NoId
<1>0. Written(Read(Written(0)) + 1) # Written(0)
  BY DEF Written, Read
<1>2. CASE d = [NoBundle EXCEPT !.old_size = Written(Read(@) + 1)]
  BY <1>0, <1>2 DEF NoBundle
<1>3. CASE d = [NoBundle EXCEPT !.new_size = Written(Read(@) + 1)]
  BY <1>0, <1>3 DEF NoBundle
<1>4. CASE \E c \in ChangedCheckpoints(NoBundle.old) : d = [NoBundle EXCEPT !.old = c]
  <2>1. PICK c \in ChangedCheckpoints(NoBundle.old) : d = [NoBundle EXCEPT !.old = c]
    BY <1>4
  <2>2. NoBundle.old = NoCheckpoint
    BY DEF NoBundle
  <2>3. c # NoCheckpoint
    BY <2>1, <2>2, ChangedIsSome
  <2>4. d.old = c
    BY <2>1 DEF NoBundle
  <2> QED
    BY <2>2, <2>3, <2>4
<1>5. CASE \E h \in ChangedHashes(Read(NoBundle.hashes)) : d = [NoBundle EXCEPT !.hashes = Written(h)]
  <2>1. PICK h \in ChangedHashes(Read(NoBundle.hashes)) : d = [NoBundle EXCEPT !.hashes = Written(h)]
    BY <1>5
  <2>2. Read(NoBundle.hashes) = <<>>
    BY ReadWritten DEF NoBundle
  <2>3. NoItemIsOther(<<>>)
    BY ShortSequences DEF NoItemIsOther
  <2>4. h # <<>>
    BY <2>1, <2>2, <2>3, ChangedHashesDiffer
  <2>5. Read(d.hashes) = h
    BY <2>1, ReadWritten DEF NoBundle
  <2> QED
    BY <2>2, <2>4, <2>5
<1> QED
  BY <1>1, <1>2, <1>3, <1>4, <1>5, Zenon DEF ChangedBundles

LEMMA ChangedBundleIsRefused ==
  ASSUME NEW sizes, AreSizes(sizes), NEW n \in 1 .. 3,
         NEW d \in ChangedBundles(Bundle(Chain(sizes)[n - 1], Chain(sizes)[n], Leaves(sizes[n])))
  PROVE  BundleVerdict(d, Chain(sizes)[n], Versions) = "INVALID_PROOF"
<1> DEFINE new == Chain(sizes)[n]
           b == Bundle(Chain(sizes)[n - 1], Chain(sizes)[n], Leaves(sizes[n]))
<1>1. /\ new.id = n /\ new.count = sizes[n] /\ new.root = Root(sizes[n])
      /\ new.previous_id = n - 1 /\ new.previous_root = PreviousRoot(sizes, n)
  BY CheckpointAt
<1>2. CASE n = 1
  <2>1. b = NoBundle
    BY <1>2, BundleAt
  <2>2. d # NoBundle
    BY <2>1, ChangedNoBundle
  <2> HIDE DEF new
  <2> QED
    BY <1>1, <1>2, <2>2 DEF BundleVerdict, NoId, new
<1>3. CASE n # 1
  <2> DEFINE old == Chain(sizes)[n - 1]
             genuine == ConsistencyProof(Leaves(sizes[n]), sizes[n - 1])
  <2>1. n - 1 \in 1 .. 3 /\ sizes[n - 1] \in 1 .. sizes[n] /\ sizes[n] \in Nat \ {0}
        /\ sizes[n] \in Nat /\ sizes[n - 1] \in Nat
    BY <1>3 DEF AreSizes
  <2>2. /\ Signed(old) /\ Changeable(old) /\ old.version \in Versions
        /\ old.id = n - 1 /\ old.count = sizes[n - 1] /\ old.root = Root(sizes[n - 1])
    BY <2>1, CheckpointAt
  <2>3. b = [old |-> old, new_id |-> n, old_size |-> Written(sizes[n - 1]),
             new_size |-> Written(sizes[n]), hashes |-> Written(genuine)]
    BY <1>3, BundleAt DEF BundleOf
  <2>4. NoItemIsOther(genuine)
    BY <2>1, ConsistencyHasNoOther
  <2>5. \A p : IsSequence(p) /\ p # genuine =>
          ~ VerifyConsistency(sizes[n - 1], sizes[n], Root(sizes[n - 1]), Root(sizes[n]), p)
    BY <2>1, ConsistencyAt
  <2>6. d \in ChangedBundles(b)
    OBVIOUS
  <2> HIDE DEF b, new, old, genuine
  <2>7. new.previous_id # NoId /\ SignatureVerdict(old, Versions) = "ok"
    BY <1>1, <1>3, <2>2, VerdictOnSigned DEF NoId
  <2>8. ASSUME SignatureVerdict(d.old, Versions) = "INVALID_PROOF" \/ (d.old = old /\ ~ Links(d, new))
        PROVE  BundleVerdict(d, new, Versions) = "INVALID_PROOF"
    BY <2>7, <2>8 DEF BundleVerdict
  <2>9. CASE \/ d = [b EXCEPT !.new_id = @ + 1]
             \/ d = [b EXCEPT !.old_size = Written(Read(@) + 1)]
             \/ d = [b EXCEPT !.new_size = Written(Read(@) + 1)]
    <3>1. /\ d.old = old
          /\ \/ d.new_id = n + 1
             \/ Read(d.old_size) = sizes[n - 1] + 1
             \/ Read(d.new_size) = sizes[n] + 1
      BY <2>3, <2>9, ReadWritten
    <3>2. ~ Links(d, new)
      BY <1>1, <2>1, <2>2, <3>1 DEF Links
    <3> QED
      BY <2>8, <3>1, <3>2 DEF new
  <2>10. CASE \E c \in ChangedCheckpoints(b.old) : d = [b EXCEPT !.old = c]
    <3>1. PICK c \in ChangedCheckpoints(b.old) : d = [b EXCEPT !.old = c]
      BY <2>10
    <3>2. d.old = c /\ b.old = old
      BY <2>3, <3>1
    <3>3. SignatureVerdict(c, Versions) = "INVALID_PROOF"
      BY <2>2, <3>1, <3>2, ChangedIsNotSigned
    <3> QED
      BY <2>8, <3>2, <3>3 DEF new
  <2>11. CASE \E h \in ChangedHashes(Read(b.hashes)) : d = [b EXCEPT !.hashes = Written(h)]
    <3>1. PICK h \in ChangedHashes(Read(b.hashes)) : d = [b EXCEPT !.hashes = Written(h)]
      BY <2>11
    <3>2. /\ d.old = old /\ Read(d.old_size) = sizes[n - 1] /\ Read(d.new_size) = sizes[n]
          /\ Read(d.hashes) = h /\ Read(b.hashes) = genuine
      BY <2>3, <3>1, ReadWritten
    <3>3. IsSequence(h) /\ h # genuine
      BY <2>4, <3>1, <3>2, ChangedHashesDiffer
    <3>4. ~ Links(d, new)
      BY <1>1, <2>2, <2>5, <3>2, <3>3 DEF Links
    <3> QED
      BY <2>8, <3>2, <3>4 DEF new
  <2> QED
    BY <2>6, <2>9, <2>10, <2>11, Zenon DEF ChangedBundles
<1> QED
  BY <1>2, <1>3

\* A receipt with one value changed is refused (verify_receipt).
LEMMA AlteredAreRefused ==
  ASSUME SizesAreNumbers, NEW chain \in Chains, NEW r \in Genuine(chain),
         NEW altered \in Altered(r)
  PROVE  Verdict(altered, Versions) = "INVALID_PROOF"
<1>1. PICK sizes : AreSizes(sizes) /\ chain = Chain(sizes)
  BY ChainSizes
<1>2. PICK n, i : n \in 1 .. 3 /\ i \in Indexes(sizes[n]) /\ r = ReceiptOf(chain, n, i)
  BY <1>1, GenuineReceipts
<1>3. sizes[n] \in Nat \ {0} /\ i \in Nat
  BY <1>1, <1>2 DEF AreSizes, Indexes
<1> DEFINE c == Chain(sizes)[n]
           b == Bundle(Chain(sizes)[n - 1], Chain(sizes)[n], Leaves(sizes[n]))
           inclusion == InclusionOf(sizes[n], i)
           e == EventAt(i)
<1>4. r = [event |-> e, status |-> "sealed", checkpoint |-> c, inclusion |-> inclusion,
           consistency |-> b]
  BY <1>1, <1>2, ReceiptParts
<1>5. /\ Signed(c) /\ Changeable(c) /\ c.version \in Versions /\ c # NoCheckpoint
      /\ c.count = sizes[n] /\ c.root = Root(sizes[n])
  BY <1>1, <1>2, CheckpointAt
<1>6. SignatureVerdict(c, Versions) = "ok"
  BY <1>5, VerdictOnSigned
<1>7. CommitmentHolds(e) /\ Read(e.data) = i + 1 /\ Read(e.data) # NoTime
  BY <1>3, EventFacts
<1>8. \A d \in ChangedEvents(e) : ~ CommitmentHolds(d) /\ Read(d.data) # NoTime
  BY <1>3, ChangedEventIsRefused
<1>9. \A d \in ChangedCheckpoints(c) : SignatureVerdict(d, Versions) = "INVALID_PROOF"
  BY <1>5, ChangedIsNotSigned
<1>10. \A d \in ChangedInclusions(inclusion) :
         ~ (/\ Read(d.size) = sizes[n]
            /\ VerifyInclusion(LeafHash(i + 1), Read(d.index), Read(d.size), Read(d.path),
                               Root(sizes[n])))
  BY <1>2, <1>3, ChangedInclusionIsRefused
<1>11. \A d \in ChangedBundles(b) : BundleVerdict(d, c, Versions) = "INVALID_PROOF"
  BY <1>1, <1>2, ChangedBundleIsRefused
<1>12. Included(r)
  BY <1>1, <1>2, ReceiptIsIncluded
<1> HIDE DEF c, b, inclusion, e
<1>13. CASE \E d \in ChangedEvents(r.event) : altered = [r EXCEPT !.event = d]
  <2>1. PICK d \in ChangedEvents(r.event) : altered = [r EXCEPT !.event = d]
    BY <1>13
  <2>2. altered.event = d /\ d \in ChangedEvents(e)
    BY <1>4, <2>1
  <2> QED
    BY <1>8, <2>2 DEF Verdict
<1>14. CASE \E s \in {"pending", "unknown"} : altered = [r EXCEPT !.status = s]
  <2>1. /\ altered.event = e /\ altered.checkpoint = c
        /\ altered.status = "pending" \/ altered.status = "unknown"
    BY <1>4, <1>14
  <2> QED
    BY <1>5, <1>7, <2>1 DEF Verdict, PendingVerdict
<1>15. CASE \E d \in ChangedCheckpoints(r.checkpoint) : altered = [r EXCEPT !.checkpoint = d]
  <2>1. PICK d \in ChangedCheckpoints(r.checkpoint) : altered = [r EXCEPT !.checkpoint = d]
    BY <1>15
  <2>2. /\ altered.event = e /\ altered.status = "sealed" /\ altered.checkpoint = d
        /\ d \in ChangedCheckpoints(c)
    BY <1>4, <2>1
  <2> QED
    BY <1>7, <1>9, <2>2 DEF Verdict, SealedVerdict
<1>16. CASE \E d \in ChangedInclusions(r.inclusion) : altered = [r EXCEPT !.inclusion = d]
  <2>1. PICK d \in ChangedInclusions(r.inclusion) : altered = [r EXCEPT !.inclusion = d]
    BY <1>16
  <2>2. /\ altered.event = e /\ altered.status = "sealed" /\ altered.checkpoint = c
        /\ altered.inclusion = d /\ d \in ChangedInclusions(inclusion)
    BY <1>4, <2>1
  <2>3. ~ Included(altered)
    BY <1>5, <1>7, <1>10, <2>2 DEF Included
  <2> QED
    BY <1>6, <1>7, <2>2, <2>3 DEF Verdict, SealedVerdict
<1>17. CASE \E d \in ChangedBundles(r.consistency) : altered = [r EXCEPT !.consistency = d]
  <2>1. PICK d \in ChangedBundles(r.consistency) : altered = [r EXCEPT !.consistency = d]
    BY <1>17
  <2>2. /\ altered.event = e /\ altered.status = "sealed" /\ altered.checkpoint = c
        /\ altered.inclusion = r.inclusion /\ altered.consistency = d
        /\ r.event = e /\ r.checkpoint = c /\ d \in ChangedBundles(b)
    BY <1>4, <2>1
  <2>3. Included(altered)
    BY <1>12, <2>2 DEF Included
  <2> QED
    BY <1>6, <1>7, <1>11, <2>2, <2>3 DEF Verdict, SealedVerdict
<1> QED
  BY <1>13, <1>14, <1>15, <1>16, <1>17, Zenon DEF Altered

-----------------------------------------------------------------------------
(***************************************************************************)
(* A receipt with one field written otherwise, and one without a time.     *)
(***************************************************************************)

LEMMA ReadReworded == \A v : Read(Reworded(Written(v))) = v
BY DEF Read, Reworded, Written

\* What verify_receipt asks of a sealed receipt.
LEMMA WitnessedIfAllHolds ==
  ASSUME NEW r, NEW keyring,
         r.status = "sealed", CommitmentHolds(r.event), Read(r.event.data) # NoTime,
         SignatureVerdict(r.checkpoint, keyring) = "ok", Included(r),
         BundleVerdict(r.consistency, r.checkpoint, keyring) = "witnessed"
  PROVE  Verdict(r, keyring) = "witnessed"
BY DEF Verdict, SealedVerdict

\* A signed checkpoint stays signed: its schema version is not signed, and the time is read.
LEMMA RewordedIsSigned ==
  ASSUME NEW c, Signed(c), NEW time, c.created = Written(time), NEW d \in RewordedCheckpoints(c),
         NEW keyring
  PROVE  /\ SignatureVerdict(d, keyring) = SignatureVerdict(c, keyring)
         /\ d.id = c.id /\ d.count = c.count /\ d.root = c.root
         /\ d.previous_id = c.previous_id /\ d.previous_root = c.previous_root
<1>1. /\ d.id = c.id /\ d.count = c.count /\ d.last = c.last /\ d.root = c.root
      /\ d.previous_id = c.previous_id /\ d.previous_root = c.previous_root
      /\ d.version = c.version /\ d.signature = c.signature
      /\ d.created = c.created \/ d.created = Reworded(c.created)
  BY DEF RewordedCheckpoints, Signed, IsCheckpoint
<1>2. Read(d.created) = Read(c.created)
  BY <1>1, ReadReworded, ReadWritten
<1>3. Payload(d) = Payload(c)
  BY <1>1, <1>2, PayloadDecides DEF SameFields
<1> QED
  BY <1>1, <1>2, <1>3 DEF SignatureVerdict

\* The parts of a genuine receipt and what verify_receipt finds of each.
Parts(sizes, n, i, r) ==
  /\ r = [event |-> EventAt(i), status |-> "sealed", checkpoint |-> Chain(sizes)[n],
          inclusion |-> InclusionOf(sizes[n], i),
          consistency |-> Bundle(Chain(sizes)[n - 1], Chain(sizes)[n], Leaves(sizes[n]))]
  /\ r.event = [sequence |-> SequenceOf(i), data |-> Written(i + 1),
                leaf_hash |-> Written(LeafHash(i + 1))]
  /\ CommitmentHolds(r.event) /\ Read(r.event.data) # NoTime
  /\ Signed(r.checkpoint) /\ r.checkpoint.created = Written(n)
  /\ r.checkpoint.version \in Versions /\ r.checkpoint.previous_id = n - 1
  /\ SignatureVerdict(r.checkpoint, Versions) = "ok"
  /\ Included(r)
  /\ BundleVerdict(r.consistency, r.checkpoint, Versions) = "witnessed"

LEMMA GenuineHasParts ==
  ASSUME NEW sizes, AreSizes(sizes), NEW n \in 1 .. 3, NEW i \in Indexes(sizes[n]),
         NEW r, r = ReceiptOf(Chain(sizes), n, i)
  PROVE  Parts(sizes, n, i, r)
<1> DEFINE c == Chain(sizes)[n]
           b == Bundle(Chain(sizes)[n - 1], Chain(sizes)[n], Leaves(sizes[n]))
<1>1. i \in Nat
  BY DEF Indexes, AreSizes
<1>2. r = [event |-> EventAt(i), status |-> "sealed", checkpoint |-> c,
           inclusion |-> InclusionOf(sizes[n], i), consistency |-> b]
  BY ReceiptParts
<1>3. /\ EventAt(i) = [sequence |-> SequenceOf(i), data |-> Written(i + 1),
                       leaf_hash |-> Written(LeafHash(i + 1))]
      /\ CommitmentHolds(EventAt(i)) /\ Read(EventAt(i).data) # NoTime
  BY <1>1, EventFacts
<1>4. /\ Signed(c) /\ c.created = Written(n) /\ c.version \in Versions
      /\ c.previous_id = n - 1
  BY CheckpointAt
<1>5. SignatureVerdict(c, Versions) = "ok"
  BY <1>4, VerdictOnSigned
<1>6. Included(r)
  BY ReceiptIsIncluded
<1>7. n = 1 \/ Version(n - 1) \in Versions
  BY DEF Version, Versions
<1>8. BundleVerdict(b, c, Versions) = "witnessed"
  BY <1>7, BundleIsWitnessed
<1> HIDE DEF c, b
<1>9. r.event = EventAt(i) /\ r.checkpoint = c /\ r.consistency = b
  BY <1>2
<1> QED
  BY <1>2, <1>3, <1>4, <1>5, <1>6, <1>8, <1>9, Zenon DEF Parts, c, b

\* Only the first checkpoint's receipts have no bundle; the others' leads from a signed
\* predecessor.
LEMMA BundleHasParts ==
  ASSUME NEW sizes, AreSizes(sizes), NEW n \in 1 .. 3, NEW i, NEW r, Parts(sizes, n, i, r),
         r.consistency # NoBundle
  PROVE  /\ n # 1 /\ r.consistency = BundleOf(sizes, n)
         /\ Links(r.consistency, r.checkpoint)
         /\ Signed(Chain(sizes)[n - 1]) /\ Chain(sizes)[n - 1].created = Written(n - 1)
         /\ Chain(sizes)[n - 1].version \in Versions /\ Chain(sizes)[n - 1].id = n - 1
         /\ r.checkpoint.previous_id # NoId
<1>1. r.consistency = Bundle(Chain(sizes)[n - 1], Chain(sizes)[n], Leaves(sizes[n]))
  BY DEF Parts
<1>2. n # 1 /\ r.consistency = BundleOf(sizes, n)
  BY <1>1, BundleAt
<1>3. n - 1 \in 1 .. 3
  BY <1>2
<1>4. /\ Signed(Chain(sizes)[n - 1]) /\ Chain(sizes)[n - 1].created = Written(n - 1)
      /\ Chain(sizes)[n - 1].version \in Versions /\ Chain(sizes)[n - 1].id = n - 1
  BY <1>3, CheckpointAt
<1>5. r.checkpoint.previous_id # NoId
  BY <1>3 DEF Parts, NoId
<1>6. r.consistency.old = Chain(sizes)[n - 1]
  BY <1>2 DEF BundleOf
<1>7. SignatureVerdict(r.consistency.old, Versions) = "ok"
  BY <1>4, <1>6, VerdictOnSigned
<1>8. BundleVerdict(r.consistency, r.checkpoint, Versions) = "witnessed"
  BY DEF Parts
<1>9. Links(r.consistency, r.checkpoint)
  BY <1>5, <1>7, <1>8 DEF BundleVerdict
<1> QED
  BY <1>2, <1>4, <1>5, <1>9

\* A receipt with one field that is not read, or with one value in another form, is as good
\* as the receipt (verify_receipt).
LEMMA UnreadAreWitnessed ==
  ASSUME SizesAreNumbers, NEW chain \in Chains, NEW r \in Genuine(chain), NEW unread \in Unread(r)
  PROVE  Verdict(unread, Versions) = "witnessed"
<1>1. PICK sizes : AreSizes(sizes) /\ chain = Chain(sizes)
  BY ChainSizes
<1>2. PICK n, i : n \in 1 .. 3 /\ i \in Indexes(sizes[n]) /\ r = ReceiptOf(chain, n, i)
  BY <1>1, GenuineReceipts
<1>3. Parts(sizes, n, i, r)
  BY <1>1, <1>2, GenuineHasParts
<1> DEFINE e == r.event
           c == r.checkpoint
           t == r.inclusion
           b == r.consistency
<1>4. /\ r = [event |-> e, status |-> "sealed", checkpoint |-> c, inclusion |-> t, consistency |-> b]
      /\ t = InclusionOf(sizes[n], i)
      /\ e = [sequence |-> SequenceOf(i), data |-> Written(i + 1),
              leaf_hash |-> Written(LeafHash(i + 1))]
      /\ Signed(c) /\ c.created = Written(n)
  BY <1>3 DEF Parts
<1>5. /\ CommitmentHolds(e) /\ Read(e.data) # NoTime
      /\ SignatureVerdict(c, Versions) = "ok" /\ Included(r)
      /\ BundleVerdict(b, c, Versions) = "witnessed"
  BY <1>3 DEF Parts
<1> HIDE DEF e, c, t, b
<1>6. CASE \E d \in RewordedEvents(e) : unread = [r EXCEPT !.event = d]
  <2>1. PICK d \in RewordedEvents(e) : unread = [r EXCEPT !.event = d]
    BY <1>6
  <2>2. Read(d.data) = Read(e.data) /\ Read(d.leaf_hash) = Read(e.leaf_hash)
    BY <1>4, ReadReworded, ReadWritten DEF RewordedEvents
  <2>3. /\ unread.event = d /\ unread.status = "sealed" /\ unread.checkpoint = c
        /\ unread.inclusion = t /\ unread.consistency = b
        /\ r.event = e /\ r.checkpoint = c /\ r.inclusion = t
    BY <1>4, <2>1
  <2>4. Included(unread) /\ CommitmentHolds(d)
    BY <1>5, <2>2, <2>3 DEF Included, CommitmentHolds
  <2> QED
    BY <1>5, <2>2, <2>3, <2>4, WitnessedIfAllHolds
<1>7. CASE \E d \in RewordedCheckpoints(c) : unread = [r EXCEPT !.checkpoint = d]
  <2>1. PICK d \in RewordedCheckpoints(c) : unread = [r EXCEPT !.checkpoint = d]
    BY <1>7
  <2>2. /\ SignatureVerdict(d, Versions) = "ok"
        /\ d.id = c.id /\ d.count = c.count /\ d.root = c.root
        /\ d.previous_id = c.previous_id /\ d.previous_root = c.previous_root
    BY <1>4, <1>5, RewordedIsSigned
  <2>3. /\ unread.event = e /\ unread.status = "sealed" /\ unread.checkpoint = d
        /\ unread.inclusion = t /\ unread.consistency = b
        /\ r.event = e /\ r.checkpoint = c /\ r.inclusion = t
    BY <1>4, <2>1
  <2>4. Included(unread)
    BY <1>5, <2>2, <2>3 DEF Included
  <2>5. Links(b, d) <=> Links(b, c)
    BY <2>2 DEF Links
  <2>6. BundleVerdict(b, d, Versions) = "witnessed"
    BY <1>5, <2>2, <2>5 DEF BundleVerdict
  <2> QED
    BY <1>5, <2>2, <2>3, <2>4, <2>6, WitnessedIfAllHolds
<1>8. CASE \E d \in RewordedInclusions(t) : unread = [r EXCEPT !.inclusion = d]
  <2>1. PICK d \in RewordedInclusions(t) : unread = [r EXCEPT !.inclusion = d]
    BY <1>8
  <2>2. Read(d.index) = Read(t.index) /\ Read(d.size) = Read(t.size) /\ Read(d.path) = Read(t.path)
    BY <1>4, ReadReworded, ReadWritten DEF RewordedInclusions, InclusionOf
  <2>3. /\ unread.event = e /\ unread.status = "sealed" /\ unread.checkpoint = c
        /\ unread.inclusion = d /\ unread.consistency = b
        /\ r.event = e /\ r.checkpoint = c /\ r.inclusion = t
    BY <1>4, <2>1
  <2>4. Included(unread)
    BY <1>5, <2>2, <2>3 DEF Included
  <2> QED
    BY <1>5, <2>3, <2>4, WitnessedIfAllHolds
<1>9. CASE b # NoBundle /\ \E d \in RewordedBundles(b) : unread = [r EXCEPT !.consistency = d]
  <2>1. PICK d \in RewordedBundles(b) : unread = [r EXCEPT !.consistency = d]
    BY <1>9
  <2> DEFINE old == Chain(sizes)[n - 1]
  <2>2. /\ n # 1 /\ b = BundleOf(sizes, n) /\ Links(b, c) /\ Signed(old)
        /\ old.created = Written(n - 1) /\ old.version \in Versions /\ old.id = n - 1
        /\ c.previous_id # NoId
    BY <1>1, <1>2, <1>3, <1>9, BundleHasParts DEF b, c
  <2>3. b.old = old
    BY <2>2 DEF BundleOf
  <2> HIDE DEF old
  <2>4. /\ d.new_id = b.new_id /\ Read(d.old_size) = Read(b.old_size)
        /\ Read(d.new_size) = Read(b.new_size) /\ Read(d.hashes) = Read(b.hashes)
        /\ d.old = old \/ d.old \in RewordedCheckpoints(old)
    BY <2>2, <2>3, ReadReworded, ReadWritten DEF RewordedBundles, BundleOf
  <2>5. SignatureVerdict(old, Versions) = "ok"
    BY <2>2, VerdictOnSigned
  <2>6. /\ SignatureVerdict(d.old, Versions) = "ok"
        /\ d.old.id = old.id /\ d.old.count = old.count /\ d.old.root = old.root
    BY <2>2, <2>4, <2>5, RewordedIsSigned
  <2>7. Links(d, c)
    BY <2>2, <2>3, <2>4, <2>6 DEF Links
  <2>8. d # NoBundle
    <3>1. d.old.id # NoBundle.old.id
      BY <1>2, <2>2, <2>6 DEF NoBundle, NoCheckpoint, NoId
    <3> QED
      BY <3>1
  <2>9. BundleVerdict(d, c, Versions) = "witnessed"
    BY <2>2, <2>6, <2>7, <2>8 DEF BundleVerdict
  <2>10. /\ unread.event = e /\ unread.status = "sealed" /\ unread.checkpoint = c
         /\ unread.inclusion = t /\ unread.consistency = d
         /\ r.event = e /\ r.checkpoint = c /\ r.inclusion = t
    BY <1>4, <2>1
  <2>11. Included(unread)
    BY <1>5, <2>10 DEF Included
  <2> QED
    BY <1>5, <2>9, <2>10, <2>11, WitnessedIfAllHolds
<1> QED
  BY <1>6, <1>7, <1>8, <1>9, Zenon DEF Unread, e, c, t, b

\* The verifier fails on a receipt that lacks a time, once it comes to it.
LEMMA UntimedFail ==
  ASSUME SizesAreNumbers, NEW chain \in Chains, NEW r \in Genuine(chain), NEW untimed \in Untimed(r)
  PROVE  Verdict(untimed, Versions) = "ERROR"
<1>1. PICK sizes : AreSizes(sizes) /\ chain = Chain(sizes)
  BY ChainSizes
<1>2. PICK n, i : n \in 1 .. 3 /\ i \in Indexes(sizes[n]) /\ r = ReceiptOf(chain, n, i)
  BY <1>1, GenuineReceipts
<1>3. Parts(sizes, n, i, r)
  BY <1>1, <1>2, GenuineHasParts
<1> DEFINE e == r.event
           c == r.checkpoint
           t == r.inclusion
           b == r.consistency
<1>4. /\ r = [event |-> e, status |-> "sealed", checkpoint |-> c, inclusion |-> t, consistency |-> b]
      /\ e = [sequence |-> SequenceOf(i), data |-> Written(i + 1),
              leaf_hash |-> Written(LeafHash(i + 1))]
      /\ IsCheckpoint(c) /\ c.version \in Versions
  BY <1>3 DEF Parts, Signed
<1>5. /\ CommitmentHolds(e) /\ Read(e.data) # NoTime
      /\ SignatureVerdict(c, Versions) = "ok" /\ Included(r)
  BY <1>3 DEF Parts
<1> HIDE DEF e, c, t, b
<1>6. CASE untimed = [r EXCEPT !.event.data = Written(NoTime)]
  <2>1. untimed.event.data = Written(NoTime)
    BY <1>4, <1>6
  <2> QED
    BY <2>1, ReadWritten DEF Verdict
<1>7. CASE untimed = [r EXCEPT !.checkpoint.created = Written(NoTime)]
  <2>1. untimed = [r EXCEPT !.checkpoint = [c EXCEPT !.created = Written(NoTime)]]
    BY <1>4, <1>7
  <2> DEFINE d == [c EXCEPT !.created = Written(NoTime)]
  <2>2. d.version = c.version /\ d.created = Written(NoTime)
    BY <1>4 DEF IsCheckpoint
  <2> HIDE DEF d
  <2>3. untimed.event = e /\ untimed.status = "sealed" /\ untimed.checkpoint = d
    BY <1>4, <2>1 DEF d
  <2>4. SignatureVerdict(d, Versions) = "ERROR"
    BY <1>4, <2>2, ReadWritten DEF SignatureVerdict
  <2> QED
    BY <1>5, <2>3, <2>4 DEF Verdict, SealedVerdict
<1>8. CASE b # NoBundle /\ untimed = [r EXCEPT !.consistency.old.created = Written(NoTime)]
  <2> DEFINE old == Chain(sizes)[n - 1]
             o == [old EXCEPT !.created = Written(NoTime)]
             d == [b EXCEPT !.old = o]
  <2>1. /\ n # 1 /\ b = BundleOf(sizes, n) /\ Signed(old) /\ old.version \in Versions
        /\ old.id = n - 1 /\ c.previous_id # NoId
    BY <1>1, <1>2, <1>3, <1>8, BundleHasParts DEF b, c
  <2>2. b.old = old /\ IsCheckpoint(old)
    BY <2>1 DEF BundleOf, Signed
  <2> HIDE DEF old
  <2>3. o.version = old.version /\ o.created = Written(NoTime) /\ o.id = old.id
    BY <2>2 DEF IsCheckpoint
  <2>4. untimed = [r EXCEPT !.consistency = d]
    BY <1>4, <1>8, <2>1, <2>2 DEF BundleOf
  <2>5. d.old = o
    BY <2>1 DEF BundleOf
  <2> HIDE DEF d, o
  <2>6. d # NoBundle
    <3>1. d.old.id # NoBundle.old.id
      BY <1>2, <2>1, <2>3, <2>5 DEF NoBundle, NoCheckpoint, NoId
    <3> QED
      BY <3>1
  <2>7. SignatureVerdict(d.old, Versions) = "ERROR"
    BY <2>1, <2>3, <2>5, ReadWritten DEF SignatureVerdict
  <2>8. BundleVerdict(d, c, Versions) = "ERROR"
    BY <2>1, <2>6, <2>7 DEF BundleVerdict
  <2>9. /\ untimed.event = e /\ untimed.status = "sealed" /\ untimed.checkpoint = c
        /\ untimed.inclusion = t /\ untimed.consistency = d
        /\ r.event = e /\ r.checkpoint = c /\ r.inclusion = t
    BY <1>4, <2>4
  <2>10. Included(untimed)
    BY <1>5, <2>9 DEF Included
  <2> QED
    BY <1>5, <2>8, <2>9, <2>10 DEF Verdict, SealedVerdict
<1> QED
  BY <1>6, <1>7, <1>8, Zenon DEF Untimed, b

\* Of the single changes of a sealed receipt, verify_receipt lets pass those of the event's
\* sequence number, of the schema version of a checkpoint and of the form of a value that is
\* decoded, whatever the sizes, the leaf and the place are; every other value that is
\* changed has the receipt refused, and one that lacks a time fails the verifier
\* (OnlyUnreadChangesPass).
THEOREM OnlyUnreadChangesEverPass == Spec => []OnlyUnreadChangesPass
<1>1. SizesAreNumbers => OnlyUnreadChangesPass
  BY AlteredAreRefused, UnreadAreWitnessed, UntimedFail DEF OnlyUnreadChangesPass
<1> QED
  BY <1>1, SizesStayNumbers, PTL

\* Whoever made a receipt and however long the chain of checkpoints is: if it is
\* witnessed, the checkpoint is signed, its event is the leaf at its index of the tree
\* that the checkpoint seals, and the tree of the predecessor that the checkpoint names is
\* a beginning of that tree (verify_receipt).
THEOREM WitnessedReceiptsAreTrue ==
  ASSUME NEW D, NEW leaves \in Seq(D), NEW r, NEW keyring, NEW H,
         Read(r.inclusion.path) \in Seq([side : {"left", "right"}, hash : H]),
         Read(r.consistency.hashes) \in Seq(H),
         r.checkpoint.count = Len(leaves), r.checkpoint.root = MerkleRoot(leaves),
         Verdict(r, keyring) = "witnessed"
  PROVE  /\ SignatureVerdict(r.checkpoint, keyring) = "ok"
         /\ Read(r.inclusion.index) \in 0 .. Len(leaves) - 1
         /\ leaves[Read(r.inclusion.index) + 1] = LeafHash(Read(r.event.data))
         /\ r.checkpoint.previous_id # NoId =>
              /\ SignatureVerdict(r.consistency.old, keyring) = "ok"
              /\ r.consistency.old.id = r.checkpoint.previous_id
              /\ r.consistency.old.count \in 1 .. Len(leaves)
              /\ r.checkpoint.previous_root
                   = MerkleRoot(Prefix(leaves, r.consistency.old.count))
<1> DEFINE c == r.checkpoint
           b == r.consistency
           i == Read(r.inclusion.index)
           path == Read(r.inclusion.path)
           leaf == LeafHash(Read(r.event.data))
<1>0. IsSequence(leaves) /\ Len(leaves) \in Nat /\ IsSequence(Read(b.hashes))
  BY DEF IsSequence
<1>1. \A x : SignatureVerdict(x, keyring) # "witnessed"
  BY DEF SignatureVerdict
<1>2. r.status = "sealed" /\ CommitmentHolds(r.event) /\ SealedVerdict(r, keyring) = "witnessed"
  <2>1. PendingVerdict(r) # "witnessed"
    BY DEF PendingVerdict
  <2> QED
    BY <2>1 DEF Verdict
<1>3. /\ SignatureVerdict(c, keyring) = "ok" /\ Included(r)
      /\ BundleVerdict(b, c, keyring) = "witnessed"
  BY <1>1, <1>2 DEF SealedVerdict
<1>4. VerifyInclusion(leaf, i, Len(leaves), path, MerkleRoot(leaves))
  BY <1>3 DEF Included
<1>5. i \in 0 .. Len(leaves) - 1
  BY <1>4 DEF VerifyInclusion
<1>6. leaves[i + 1] = leaf
  <2> HIDE DEF i, path
  <2>1. path \in Seq([side : {"left", "right"}, hash : H])
    BY DEF path
  <2>2. VerifyInclusion(leaf, i, Len(leaves), path, MerkleRoot(leaves))
          <=> leaf = leaves[i + 1] /\ path = InclusionProof(leaves, i)
    BY <1>5, <2>1, InclusionIsDecided, Zenon
  <2> QED
    BY <1>4, <2>2
<1>7. ASSUME c.previous_id # NoId
      PROVE  /\ SignatureVerdict(b.old, keyring) = "ok" /\ b.old.id = c.previous_id
             /\ b.old.count \in 1 .. Len(leaves)
             /\ c.previous_root = MerkleRoot(Prefix(leaves, b.old.count))
  <2>1. SignatureVerdict(b.old, keyring) = "ok" /\ Links(b, c)
    BY <1>1, <1>3, <1>7 DEF BundleVerdict
  <2>2. /\ b.old.id = c.previous_id /\ b.old.root = c.previous_root
        /\ VerifyConsistency(b.old.count, Len(leaves), c.previous_root, MerkleRoot(leaves), Read(b.hashes))
    BY <2>1 DEF Links
  <2>3. b.old.count \in 1 .. Len(leaves)
    BY <2>2 DEF VerifyConsistency
  <2> DEFINE k == b.old.count
             old == c.previous_root
             hashes == Read(b.hashes)
  <2>4. k \in 1 .. Len(leaves) /\ IsSequence(hashes)
        /\ VerifyConsistency(k, Len(leaves), old, MerkleRoot(leaves), hashes)
    BY <1>0, <2>2, <2>3
  <2> HIDE DEF k, old, hashes
  <2>5. VerifyConsistency(k, Len(leaves), old, MerkleRoot(leaves), hashes)
          <=> old = MerkleRoot(Prefix(leaves, k)) /\ hashes = ConsistencyProof(leaves, k)
    BY <1>0, <2>4, ConsistencyOfLeaves, Zenon
  <2> QED
    BY <2>1, <2>2, <2>3, <2>4, <2>5 DEF k, old
<1> QED
  BY <1>3, <1>5, <1>6, <1>7

=============================================================================
