------------------------------ MODULE Recursion ------------------------------
(***************************************************************************)
(* Induction and recursion over the natural numbers, in a form that        *)
(* first-order provers can use.  What is proved by induction is a set      *)
(* here, and the body of a recursive function is a constant operator of    *)
(* this module: whoever defines a function f[n \in Nat] == Body(p, f, n),  *)
(* with parameters p, instantiates the module with that body and learns    *)
(* that there is such a function.                                          *)
(***************************************************************************)
EXTENDS Integers, WellFoundedInduction, TLAPS

CONSTANT Body(_, _, _)

\* The function that is defined by f[n \in Nat] == Body(p, f, n).
Defined(p) == CHOOSE f : f = [n \in Nat |-> Body(p, f, n)]

\* The value at a number depends only on the values at smaller numbers.
DependsOnSmaller ==
  \A p, f, g : \A n \in Nat :
    (\A i \in 0 .. n - 1 : f[i] = g[i]) => Body(p, f, n) = Body(p, g, n)

\* A set of natural numbers has a least member.
LEMMA LeastMember ==
  ASSUME NEW S, S \subseteq Nat, S # {}
  PROVE  \E x \in S : \A y \in S : x <= y
<1>1. IsWellFoundedOn({ss \in Nat \X Nat : ss[1] < ss[2]}, Nat)
  BY NatLessThanWellFounded DEF OpToRel
<1>2. PICK x \in S : \A y \in S : <<y, x>> \notin {ss \in Nat \X Nat : ss[1] < ss[2]}
  BY <1>1, WFMin
<1>3. ASSUME NEW y \in S
      PROVE  x <= y
  <2>1. x \in Nat /\ y \in Nat /\ <<y, x>> \in Nat \X Nat
    OBVIOUS
  <2> QED
    BY <1>2, <2>1
<1> QED
  BY <1>3

\* A set that has every number of which it has all smaller ones has all numbers.
LEMMA Induction ==
  ASSUME NEW S, \A n \in Nat : (\A i \in 0 .. n - 1 : i \in S) => n \in S
  PROVE  \A n \in Nat : n \in S
<1> SUFFICES ASSUME Nat \ S # {}
             PROVE  FALSE
  OBVIOUS
<1>1. PICK n \in Nat \ S : \A i \in Nat \ S : n <= i
  BY LeastMember
<1>2. \A i \in 0 .. n - 1 : i \in S
  BY <1>1
<1> QED
  BY <1>1, <1>2

-----------------------------------------------------------------------------
\* f is the function that is defined, as far as up to n.
IsDefinedTo(p, f, n) == \A i \in 0 .. n : f[i] = Body(p, f, i)

LEMMA DefinitionsAgree ==
  ASSUME DependsOnSmaller, NEW p, NEW f, NEW g, NEW n \in Nat,
         IsDefinedTo(p, f, n), IsDefinedTo(p, g, n)
  PROVE  \A i \in 0 .. n : f[i] = g[i]
<1> DEFINE S == {i \in Nat : i <= n => f[i] = g[i]}
<1>1. ASSUME NEW i \in Nat, \A j \in 0 .. i - 1 : j \in S
      PROVE  i \in S
  <2>1. CASE i <= n
    <3>1. \A j \in 0 .. i - 1 : f[j] = g[j]
      BY <1>1, <2>1
    <3>2. Body(p, f, i) = Body(p, g, i)
      BY <3>1 DEF DependsOnSmaller
    <3> QED
      BY <2>1, <3>2 DEF IsDefinedTo
  <2> QED
    BY <2>1
<1> HIDE DEF S
<1>2. \A i \in Nat : i \in S
  BY <1>1, Induction
<1> QED
  BY <1>2 DEF S

LEMMA DefinedToEach ==
  ASSUME DependsOnSmaller, NEW p
  PROVE  \A n \in Nat : \E f : IsDefinedTo(p, f, n)
<1> DEFINE S == {n \in Nat : \E f : IsDefinedTo(p, f, n)}
<1>1. ASSUME NEW n \in Nat, \A i \in 0 .. n - 1 : i \in S
      PROVE  n \in S
  <2>1. PICK f : \A i \in 0 .. n - 1 : f[i] = Body(p, f, i)
    <3>1. CASE n = 0
      BY <3>1
    <3>2. CASE n > 0
      <4>1. PICK f : IsDefinedTo(p, f, n - 1)
        BY <1>1, <3>2
      <4> QED
        BY <4>1 DEF IsDefinedTo
    <3> QED
      BY <3>1, <3>2
  <2> DEFINE g == [i \in Nat |-> IF i = n THEN Body(p, f, n) ELSE f[i]]
  <2>2. /\ \A i \in 0 .. n - 1 : g[i] = f[i]
        /\ g[n] = Body(p, f, n)
    OBVIOUS
  <2> HIDE DEF g
  <2>3. ASSUME NEW i \in 0 .. n
        PROVE  Body(p, g, i) = Body(p, f, i)
    <3>1. \A j \in 0 .. i - 1 : g[j] = f[j]
      BY <2>2
    <3> QED
      BY <3>1 DEF DependsOnSmaller
  <2>4. IsDefinedTo(p, g, n)
    <3>1. ASSUME NEW i \in 0 .. n
          PROVE  g[i] = Body(p, g, i)
      BY <2>1, <2>2, <2>3
    <3> QED
      BY <3>1 DEF IsDefinedTo
  <2> QED
    BY <2>4
<1> HIDE DEF S
<1>2. \A n \in Nat : n \in S
  BY <1>1, Induction
<1> QED
  BY <1>2 DEF S

\* There is a function that satisfies its recursive definition.
LEMMA RecursiveFunction ==
  ASSUME DependsOnSmaller, NEW p
  PROVE  /\ DOMAIN Defined(p) = Nat
         /\ \A n \in Nat : Defined(p)[n] = Body(p, Defined(p), n)
<1> DEFINE to(n) == CHOOSE f : IsDefinedTo(p, f, n)
           f == [n \in Nat |-> to(n)[n]]
<1>1. \A n \in Nat : IsDefinedTo(p, to(n), n)
  BY DefinedToEach
<1>2. \A n \in Nat : \A i \in 0 .. n : IsDefinedTo(p, to(n), i)
  BY <1>1 DEF IsDefinedTo
<1>3. \A n \in Nat : f[n] = to(n)[n]
  OBVIOUS
<1> HIDE DEF to, f
<1>4. ASSUME NEW n \in Nat
      PROVE  f[n] = Body(p, f, n)
  <2>1. ASSUME NEW i \in 0 .. n - 1
        PROVE  to(n)[i] = f[i]
    <3>1. i \in Nat /\ IsDefinedTo(p, to(n), i) /\ IsDefinedTo(p, to(i), i)
      BY <1>1, <1>2
    <3> QED
      BY <1>3, <3>1, DefinitionsAgree
  <2>2. Body(p, to(n), n) = Body(p, f, n)
    BY <2>1 DEF DependsOnSmaller
  <2>3. to(n)[n] = Body(p, to(n), n)
    BY <1>1 DEF IsDefinedTo
  <2> QED
    BY <1>3, <2>2, <2>3
<1>5. f = [n \in Nat |-> Body(p, f, n)]
  BY <1>4 DEF f
<1>6. Defined(p) = [n \in Nat |-> Body(p, Defined(p), n)]
  BY <1>5, Zenon DEF Defined
<1> DEFINE d == Defined(p)
<1>7. d = [n \in Nat |-> Body(p, d, n)]
  BY <1>6
<1> HIDE DEF d
<1>8. DOMAIN d = Nat /\ \A n \in Nat : d[n] = Body(p, d, n)
  BY <1>7
<1> QED
  BY <1>8 DEF d

=============================================================================
