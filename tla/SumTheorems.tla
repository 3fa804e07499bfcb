----------------------------- MODULE SumTheorems ------------------------------
(***************************************************************************)
(* Sums over finite sets: what SumFunctionOnSet of the module Functions    *)
(* is, and how it changes with the set and with the values.                *)
(*                                                                         *)
(* The induction is over the cardinality of the sets, by the least natural *)
(* number that refutes the claim.                                          *)
(***************************************************************************)
EXTENDS FiniteSetTheorems, TLAPS

\* A set of numbers that holds every number whose predecessors it holds holds all.
LEMMA AllNumbers ==
  ASSUME NEW P \in SUBSET Nat, \A n \in Nat : (\A m \in Nat : m < n => m \in P) => n \in P
  PROVE  Nat \subseteq P
<1> DEFINE R == OpToRel(<, Nat)
           T == Nat \ P
<1>1. IsWellFoundedOn(R, Nat)
  BY NatLessThanWellFounded
<1>2. \A m, n \in Nat : m < n => <<m, n>> \in R
  BY DEF OpToRel
<1> HIDE DEF R
<1>3. ASSUME T # {}
      PROVE  FALSE
  <2>1. T \in SUBSET Nat
    OBVIOUS
  <2> HIDE DEF T
  <2>2. PICK n \in T : \A m \in T : ~(<<m, n>> \in R)
    BY <1>1, <1>3, <2>1, WFMin
  <2>3. n \in Nat /\ \A m \in Nat : m < n => m \notin T
    BY <1>2, <2>1, <2>2, Zenon
  <2>. QED  BY <2>3, <2>2 DEF T
<1>. QED  BY <1>3

\* A collection of subsets of a finite set that holds the empty one, and with a
\* subset every one with an element more, holds the whole set.
LEMMA SubsetInduction ==
  ASSUME NEW S, IsFiniteSet(S), NEW Q \in SUBSET SUBSET S, {} \in Q,
         \A s \in Q : \A x \in S \ s : s \cup {x} \in Q
  PROVE  S \in Q
<1> DEFINE P == {n \in Nat : \A s \in SUBSET S : Cardinality(s) = n => s \in Q}
<1>1. ASSUME NEW n \in Nat, \A m \in Nat : m < n => m \in P
      PROVE  n \in P
  <2>1. ASSUME NEW s \in SUBSET S, Cardinality(s) = n, s # {}
        PROVE  s \in Q
    <3>1. PICK x \in s : TRUE
      BY <2>1
    <3>2. IsFiniteSet(s)
      BY FS_Subset
    <3>3. IsFiniteSet(s \ {x}) /\ Cardinality(s \ {x}) = n - 1
      BY <2>1, <3>2, FS_RemoveElement
    <3>4. n - 1 \in Nat /\ n - 1 < n
      BY <3>3, FS_CardinalityType
    <3>5. n - 1 \in P
      <4> HIDE DEF P
      <4>. QED  BY <1>1, <3>4
    <3>6. s \ {x} \in Q /\ x \in S \ (s \ {x})
      BY <3>3, <3>5
    <3>7. (s \ {x}) \cup {x} = s
      OBVIOUS
    <3>. QED  BY <3>6, <3>7
  <2>. QED  BY <2>1
<1>2. P \in SUBSET Nat
  OBVIOUS
<1> HIDE DEF P
<1>3. Cardinality(S) \in P
  BY <1>1, <1>2, AllNumbers, FS_CardinalityType
<1>. QED  BY <1>3 DEF P

-----------------------------------------------------------------------------
(* The sum, element by element. *)

Some(S) == CHOOSE x \in S : TRUE

\* The sums of the subsets of S, as the library computes them.
SumsOver(f, S) ==
  CHOOSE sums : sums = [s \in SUBSET S |->
    IF s = {} THEN 0 ELSE f[Some(s)] + sums[s \ {Some(s)}]]

AreSums(f, S, sums) ==
  sums = [s \in SUBSET S |-> IF s = {} THEN 0 ELSE f[Some(s)] + sums[s \ {Some(s)}]]

LEMMA SomeMember ==
  ASSUME NEW S, S # {} PROVE Some(S) \in S
BY DEF Some

LEMMA SumUnfolds ==
  ASSUME NEW f, NEW S
  PROVE  SumFunctionOnSet(f, S) = SumsOver(f, S)[S]
BY DEF SumFunctionOnSet, FoldFunctionOnSet, MapThenFoldSet, SumsOver, Some

LEMMA SumsExist ==
  ASSUME NEW f, NEW S, IsFiniteSet(S)
  PROVE  AreSums(f, S, SumsOver(f, S))
<1> DEFINE Upto(n, sums) == \A s \in SUBSET S : Cardinality(s) <= n =>
             sums[s] = IF s = {} THEN 0 ELSE f[Some(s)] + sums[s \ {Some(s)}]
           P == {n \in Nat : \E sums : sums = [s \in SUBSET S |-> sums[s]] /\ Upto(n, sums)}
<1>1. \A s \in SUBSET S : /\ IsFiniteSet(s) /\ Cardinality(s) \in Nat
                          /\ Cardinality(s) = 0 <=> s = {}
  BY FS_Subset, FS_CardinalityType, FS_EmptySet
<1>2. \A s \in SUBSET S : s # {} => /\ s \ {Some(s)} \in SUBSET S
                                    /\ Cardinality(s \ {Some(s)}) = Cardinality(s) - 1
  BY <1>1, SomeMember, FS_RemoveElement
<1>3. ASSUME NEW n \in Nat, \A m \in Nat : m < n => m \in P
      PROVE  n \in P
  <2>1. CASE n = 0
    <3> DEFINE sums == [s \in SUBSET S |-> 0]
    <3>1. Upto(0, sums)
      <4>1. \A s \in SUBSET S : Cardinality(s) <= 0 => s = {}
        BY <1>1
      <4>. QED  BY <4>1
    <3>2. sums = [s \in SUBSET S |-> sums[s]]
      OBVIOUS
    <3> HIDE DEF sums
    <3>. QED  BY <2>1, <3>1, <3>2
  <2>2. CASE n # 0
    <3>1. n - 1 \in P
      <4>1. n - 1 \in Nat /\ n - 1 < n
        BY <2>2
      <4> HIDE DEF P
      <4>. QED  BY <1>3, <4>1
    <3>2. PICK old : old = [s \in SUBSET S |-> old[s]] /\ Upto(n - 1, old)
      BY <3>1
    <3> DEFINE sums == [s \in SUBSET S |->
                 IF Cardinality(s) = n THEN f[Some(s)] + old[s \ {Some(s)}] ELSE old[s]]
    <3>3. ASSUME NEW s \in SUBSET S, Cardinality(s) <= n
          PROVE  sums[s] = IF s = {} THEN 0 ELSE f[Some(s)] + sums[s \ {Some(s)}]
      <4>1. CASE s = {}
        <5>1. Cardinality(s) = 0 /\ 0 <= n - 1
          BY <1>1, <2>2, <4>1
        <5>2. old[s] = 0
          BY <3>2, <4>1, <5>1
        <5>. QED  BY <2>2, <4>1, <5>1, <5>2
      <4>2. CASE s # {}
        <5>1. s \ {Some(s)} \in SUBSET S /\ Cardinality(s \ {Some(s)}) # n
          BY <1>1, <1>2, <3>3, <4>2
        <5>2. sums[s \ {Some(s)}] = old[s \ {Some(s)}]
          BY <5>1
        <5>3. Cardinality(s) # n => Cardinality(s) <= n - 1
          BY <1>1, <3>3
        <5>4. sums[s] = f[Some(s)] + old[s \ {Some(s)}]
          BY <3>2, <4>2, <5>3
        <5>. QED  BY <4>2, <5>2, <5>4
      <4>. QED  BY <4>1, <4>2
    <3>4. sums = [s \in SUBSET S |-> sums[s]]
      OBVIOUS
    <3> HIDE DEF sums
    <3>5. Upto(n, sums)
      BY <3>3
    <3>. QED  BY <3>4, <3>5
  <2>. QED  BY <2>1, <2>2
<1>4. Cardinality(S) \in P
  <2>1. P \in SUBSET Nat
    OBVIOUS
  <2> HIDE DEF P
  <2>2. Nat \subseteq P
    BY <1>3, <2>1, AllNumbers
  <2>. QED  BY <1>1, <2>2
<1>5. PICK sums : sums = [s \in SUBSET S |-> sums[s]] /\ Upto(Cardinality(S), sums)
  BY <1>4
<1>6. \A s \in SUBSET S : Cardinality(s) <= Cardinality(S)
  BY FS_Subset
<1>7. AreSums(f, S, sums)
  BY <1>5, <1>6 DEF AreSums
<1>. QED  BY <1>7 DEF SumsOver, AreSums

\* The sums of a subset are those of the set.
LEMMA SumsAgree ==
  ASSUME NEW f, NEW S, IsFiniteSet(S), NEW T \in SUBSET S
  PROVE  SumsOver(f, T)[T] = SumsOver(f, S)[T]
<1> DEFINE whole == SumsOver(f, S)
           part == SumsOver(f, T)
           P == {n \in Nat : \A s \in SUBSET T : Cardinality(s) = n => part[s] = whole[s]}
<1>1. IsFiniteSet(T)
  BY FS_Subset
<1>2. AreSums(f, S, whole) /\ AreSums(f, T, part)
  BY <1>1, SumsExist
<1>3. \A s \in SUBSET T : s # {} => /\ s \ {Some(s)} \in SUBSET T
                                    /\ Cardinality(s \ {Some(s)}) \in Nat
                                    /\ Cardinality(s \ {Some(s)}) < Cardinality(s)
  <2> SUFFICES ASSUME NEW s \in SUBSET T, s # {}
               PROVE  /\ s \ {Some(s)} \in SUBSET T
                      /\ Cardinality(s \ {Some(s)}) \in Nat
                      /\ Cardinality(s \ {Some(s)}) < Cardinality(s)
    OBVIOUS
  <2>1. IsFiniteSet(s) /\ Some(s) \in s
    BY <1>1, FS_Subset, SomeMember
  <2>2. /\ IsFiniteSet(s \ {Some(s)}) /\ Cardinality(s) \in Nat
        /\ Cardinality(s \ {Some(s)}) = Cardinality(s) - 1
    BY <2>1, FS_RemoveElement, FS_CardinalityType
  <2>3. Cardinality(s \ {Some(s)}) \in Nat
    BY <2>2, FS_CardinalityType
  <2>. QED  BY <2>2, <2>3
<1> HIDE DEF whole, part
<1>4. ASSUME NEW n \in Nat, \A m \in Nat : m < n => m \in P
      PROVE  n \in P
  <2>1. ASSUME NEW s \in SUBSET T, Cardinality(s) = n
        PROVE  part[s] = whole[s]
    <3>1. /\ whole[s] = IF s = {} THEN 0 ELSE f[Some(s)] + whole[s \ {Some(s)}]
          /\ part[s] = IF s = {} THEN 0 ELSE f[Some(s)] + part[s \ {Some(s)}]
      BY <1>2 DEF AreSums
    <3>2. CASE s # {}
      <4>1. part[s \ {Some(s)}] = whole[s \ {Some(s)}]
        BY <1>3, <1>4, <2>1, <3>2
      <4>. QED  BY <3>1, <4>1
    <3>. QED  BY <3>1, <3>2
  <2>. QED  BY <2>1
<1>5. P \in SUBSET Nat
  OBVIOUS
<1> HIDE DEF P
<1>6. Nat \subseteq P
  BY <1>4, <1>5, AllNumbers
<1>7. Cardinality(T) \in P
  BY <1>1, <1>6, FS_CardinalityType
<1>. QED  BY <1>7 DEF P, part, whole

\* A sum is the value of one of the elements and the sum of the others.
LEMMA SumStep ==
  ASSUME NEW f, NEW S, IsFiniteSet(S)
  PROVE  SumFunctionOnSet(f, S) =
           IF S = {} THEN 0 ELSE f[Some(S)] + SumFunctionOnSet(f, S \ {Some(S)})
<1>1. SumsOver(f, S)[S] = IF S = {} THEN 0 ELSE f[Some(S)] + SumsOver(f, S)[S \ {Some(S)}]
  <2> DEFINE sums == SumsOver(f, S)
  <2>1. AreSums(f, S, sums)
    BY SumsExist
  <2> HIDE DEF sums
  <2>2. sums[S] = IF S = {} THEN 0 ELSE f[Some(S)] + sums[S \ {Some(S)}]
    BY <2>1 DEF AreSums
  <2>. QED  BY <2>2 DEF sums
<1>2. SumsOver(f, S)[S \ {Some(S)}] = SumsOver(f, S \ {Some(S)})[S \ {Some(S)}]
  BY SumsAgree
<1>. QED  BY <1>1, <1>2, SumUnfolds

LEMMA SumEmpty == \A f : SumFunctionOnSet(f, {}) = 0
BY SumStep, FS_EmptySet

\* The sum of integers is an integer; of naturals, a natural number.
LEMMA SumInt ==
  ASSUME NEW f, NEW S, IsFiniteSet(S), \A x \in S : f[x] \in Int
  PROVE  SumFunctionOnSet(f, S) \in Int
<1> DEFINE P == {n \in Nat : \A s \in SUBSET S : Cardinality(s) = n => SumFunctionOnSet(f, s) \in Int}
<1>1. ASSUME NEW n \in Nat, \A m \in Nat : m < n => m \in P
      PROVE  n \in P
  <2>1. ASSUME NEW s \in SUBSET S, Cardinality(s) = n
        PROVE  SumFunctionOnSet(f, s) \in Int
    <3>1. IsFiniteSet(s)
      BY FS_Subset
    <3>2. CASE s = {}
      BY <3>2, SumEmpty
    <3>3. CASE s # {}
      <4>1. Some(s) \in s /\ IsFiniteSet(s \ {Some(s)}) /\ Cardinality(s \ {Some(s)}) = n - 1
        BY <2>1, <3>1, <3>3, SomeMember, FS_RemoveElement
      <4>2. n - 1 \in Nat /\ n - 1 < n
        BY <4>1, FS_CardinalityType
      <4>3. SumFunctionOnSet(f, s \ {Some(s)}) \in Int
        BY <1>1, <4>1, <4>2
      <4>4. f[Some(s)] \in Int
        BY <4>1
      <4>. QED  BY <3>1, <3>3, <4>3, <4>4, SumStep
    <3>. QED  BY <3>2, <3>3
  <2>. QED  BY <2>1
<1>2. P \in SUBSET Nat
  OBVIOUS
<1> HIDE DEF P
<1>3. Cardinality(S) \in P
  BY <1>1, <1>2, AllNumbers, FS_CardinalityType
<1>. QED  BY <1>3 DEF P

Sums(f, S) == IsFiniteSet(S) /\ \A x \in S : f[x] \in Int

\* ... of any one of the elements.
LEMMA SumRemove ==
  ASSUME NEW f, NEW S, Sums(f, S), NEW x \in S
  PROVE  SumFunctionOnSet(f, S) = f[x] + SumFunctionOnSet(f, S \ {x})
<1> DEFINE P == {n \in Nat : \A s \in SUBSET S : Cardinality(s) = n =>
                   \A y \in s : SumFunctionOnSet(f, s) = f[y] + SumFunctionOnSet(f, s \ {y})}
<1>1. \A s \in SUBSET S : IsFiniteSet(s) /\ SumFunctionOnSet(f, s) \in Int
  BY FS_Subset, SumInt DEF Sums
<1>2. ASSUME NEW n \in Nat, \A m \in Nat : m < n => m \in P
      PROVE  n \in P
  <2>1. ASSUME NEW s \in SUBSET S, Cardinality(s) = n, NEW y \in s
        PROVE  SumFunctionOnSet(f, s) = f[y] + SumFunctionOnSet(f, s \ {y})
    <3> DEFINE z == Some(s)
    <3>1. z \in s /\ SumFunctionOnSet(f, s) = f[z] + SumFunctionOnSet(f, s \ {z})
      BY <1>1, <2>1, SomeMember, SumStep
    <3> HIDE DEF z
    <3>2. CASE y # z
      <4>1. /\ n - 1 \in Nat /\ n - 1 < n
            /\ Cardinality(s \ {y}) = n - 1 /\ Cardinality(s \ {z}) = n - 1
        <5>1. IsFiniteSet(s \ {y}) /\ Cardinality(s \ {y}) = n - 1 /\ Cardinality(s \ {z}) = n - 1
          BY <1>1, <2>1, <3>1, FS_RemoveElement
        <5>2. Cardinality(s \ {y}) \in Nat
          BY <5>1, FS_CardinalityType
        <5>. QED  BY <5>1, <5>2
      <4>2. n - 1 \in P
        <5> HIDE DEF P
        <5>. QED  BY <1>2, <4>1
      <4>3. SumFunctionOnSet(f, s \ {z}) = f[y] + SumFunctionOnSet(f, (s \ {z}) \ {y})
        BY <3>2, <4>1, <4>2
      <4>4. SumFunctionOnSet(f, s \ {y}) = f[z] + SumFunctionOnSet(f, (s \ {y}) \ {z})
        BY <3>1, <3>2, <4>1, <4>2
      <4>5. (s \ {z}) \ {y} = (s \ {y}) \ {z} /\ (s \ {z}) \ {y} \in SUBSET S
        OBVIOUS
      <4> DEFINE rest == SumFunctionOnSet(f, (s \ {y}) \ {z})
      <4>6. rest \in Int /\ f[y] \in Int /\ f[z] \in Int
        BY <1>1, <3>1, <4>5 DEF Sums
      <4>7. /\ SumFunctionOnSet(f, s \ {z}) = f[y] + rest
            /\ SumFunctionOnSet(f, s \ {y}) = f[z] + rest
        BY <4>3, <4>4, <4>5
      <4> HIDE DEF rest
      <4>. QED  BY <3>1, <4>6, <4>7
    <3>. QED  BY <3>1, <3>2
  <2>. QED  BY <2>1
<1>3. P \in SUBSET Nat
  OBVIOUS
<1> HIDE DEF P
<1>4. Cardinality(S) \in P
  BY <1>2, <1>3, AllNumbers, FS_CardinalityType DEF Sums
<1>. QED  BY <1>4 DEF P

\* One more element adds its value.
LEMMA SumAdd ==
  ASSUME NEW f, NEW S, NEW x, Sums(f, S), f[x] \in Int
  PROVE  /\ Sums(f, S \cup {x})
         /\ x \notin S => SumFunctionOnSet(f, S \cup {x}) = f[x] + SumFunctionOnSet(f, S)
<1>1. Sums(f, S \cup {x})
  BY FS_AddElement DEF Sums
<1>2. ASSUME x \notin S
      PROVE  SumFunctionOnSet(f, S \cup {x}) = f[x] + SumFunctionOnSet(f, S)
  <2>1. (S \cup {x}) \ {x} = S
    BY <1>2
  <2>. QED  BY <1>1, <2>1, SumRemove
<1>. QED  BY <1>1, <1>2

\* Larger values make a larger sum.
LEMMA SumMonotone ==
  ASSUME NEW f, NEW g, NEW S, Sums(f, S), Sums(g, S), \A x \in S : f[x] <= g[x]
  PROVE  SumFunctionOnSet(f, S) <= SumFunctionOnSet(g, S)
<1> DEFINE Q == {s \in SUBSET S : SumFunctionOnSet(f, s) <= SumFunctionOnSet(g, s)}
<1>1. {} \in Q
  BY SumEmpty
<1>2. ASSUME NEW s \in Q, NEW x \in S \ s
      PROVE  s \cup {x} \in Q
  <2>1. Sums(f, s) /\ Sums(g, s) /\ f[x] \in Int /\ g[x] \in Int /\ f[x] <= g[x]
    BY FS_Subset DEF Sums
  <2>2. /\ SumFunctionOnSet(f, s \cup {x}) = f[x] + SumFunctionOnSet(f, s)
        /\ SumFunctionOnSet(g, s \cup {x}) = g[x] + SumFunctionOnSet(g, s)
    BY <2>1, SumAdd
  <2>3. SumFunctionOnSet(f, s) \in Int /\ SumFunctionOnSet(g, s) \in Int
    BY <2>1, SumInt DEF Sums
  <2>. QED  BY <2>1, <2>2, <2>3
<1>3. Q \in SUBSET SUBSET S
  OBVIOUS
<1> HIDE DEF Q
<1>4. S \in Q
  BY <1>1, <1>2, <1>3, SubsetInduction DEF Sums
<1>. QED  BY <1>4 DEF Q

\* Only the values of the elements matter.
LEMMA SumSame ==
  ASSUME NEW f, NEW g, NEW S, Sums(f, S), \A x \in S : f[x] = g[x]
  PROVE  Sums(g, S) /\ SumFunctionOnSet(f, S) = SumFunctionOnSet(g, S)
<1>1. Sums(g, S)
  BY DEF Sums
<1>2. /\ SumFunctionOnSet(f, S) <= SumFunctionOnSet(g, S)
      /\ SumFunctionOnSet(g, S) <= SumFunctionOnSet(f, S)
  <2>1. \A x \in S : f[x] <= g[x] /\ g[x] <= f[x]
    BY DEF Sums
  <2>. QED  BY <1>1, <2>1, SumMonotone
<1>3. SumFunctionOnSet(f, S) \in Int /\ SumFunctionOnSet(g, S) \in Int
  BY <1>1, SumInt DEF Sums
<1>. QED  BY <1>1, <1>2, <1>3

\* The sum of natural numbers is one.
LEMMA SumNat ==
  ASSUME NEW f, NEW S, IsFiniteSet(S), \A x \in S : f[x] \in Nat
  PROVE  SumFunctionOnSet(f, S) \in Nat
<1> DEFINE Q == {s \in SUBSET S : SumFunctionOnSet(f, s) \in Nat}
<1>1. {} \in Q
  BY SumEmpty
<1>2. ASSUME NEW s \in Q, NEW x \in S \ s
      PROVE  s \cup {x} \in Q
  <2>1. Sums(f, s) /\ f[x] \in Nat
    BY FS_Subset DEF Sums
  <2>2. SumFunctionOnSet(f, s \cup {x}) = f[x] + SumFunctionOnSet(f, s)
    BY <2>1, SumAdd
  <2>. QED  BY <2>1, <2>2
<1>3. Q \in SUBSET SUBSET S
  OBVIOUS
<1> HIDE DEF Q
<1>4. S \in Q
  BY <1>1, <1>2, <1>3, SubsetInduction
<1>. QED  BY <1>4 DEF Q

\* The sum over two sets with no element in common is the sum of theirs.
LEMMA SumUnion ==
  ASSUME NEW f, NEW S, NEW T, Sums(f, S), Sums(f, T), S \cap T = {}
  PROVE  SumFunctionOnSet(f, S \cup T) = SumFunctionOnSet(f, S) + SumFunctionOnSet(f, T)
<1> DEFINE Q == {t \in SUBSET T :
                   SumFunctionOnSet(f, S \cup t) = SumFunctionOnSet(f, S) + SumFunctionOnSet(f, t)}
<1>1. {} \in Q
  <2>1. S \cup {} = S /\ SumFunctionOnSet(f, S) \in Int
    BY SumInt DEF Sums
  <2>. QED  BY <2>1, SumEmpty
<1>2. ASSUME NEW t \in Q, NEW x \in T \ t
      PROVE  t \cup {x} \in Q
  <2>1. Sums(f, t) /\ f[x] \in Int
    BY FS_Subset DEF Sums
  <2>2. Sums(f, S \cup t)
    BY <2>1, FS_Union DEF Sums
  <2>3. x \notin t /\ x \notin S \cup t /\ (S \cup t) \cup {x} = S \cup (t \cup {x})
    OBVIOUS
  <2>4. /\ SumFunctionOnSet(f, t \cup {x}) = f[x] + SumFunctionOnSet(f, t)
        /\ SumFunctionOnSet(f, S \cup (t \cup {x})) = f[x] + SumFunctionOnSet(f, S \cup t)
    BY <2>1, <2>2, <2>3, SumAdd
  <2>5. SumFunctionOnSet(f, t) \in Int /\ SumFunctionOnSet(f, S) \in Int
    BY <2>1, SumInt DEF Sums
  <2>. QED  BY <2>1, <2>4, <2>5
<1>3. Q \in SUBSET SUBSET T
  OBVIOUS
<1> HIDE DEF Q
<1>4. T \in Q
  BY <1>1, <1>2, <1>3, SubsetInduction DEF Sums
<1>. QED  BY <1>4 DEF Q

\* The natural numbers of a subset add up to no more.
LEMMA SumSubset ==
  ASSUME NEW f, NEW S, NEW T \in SUBSET S, IsFiniteSet(S), \A x \in S : f[x] \in Nat
  PROVE  /\ IsFiniteSet(T)
         /\ SumFunctionOnSet(f, T) \in Nat /\ SumFunctionOnSet(f, S) \in Nat
         /\ SumFunctionOnSet(f, T) <= SumFunctionOnSet(f, S)
<1>1. /\ IsFiniteSet(T) /\ IsFiniteSet(S \ T)
  BY FS_Subset
<1>2. /\ SumFunctionOnSet(f, T) \in Nat /\ SumFunctionOnSet(f, S) \in Nat
      /\ SumFunctionOnSet(f, S \ T) \in Nat
  BY <1>1, SumNat
<1>3. SumFunctionOnSet(f, S) = SumFunctionOnSet(f, T) + SumFunctionOnSet(f, S \ T)
  <2> DEFINE R == S \ T
  <2>1. Sums(f, T) /\ Sums(f, R) /\ T \cap R = {}
    BY <1>1 DEF Sums
  <2>2. T \cup R = S
    OBVIOUS
  <2> HIDE DEF R
  <2>3. SumFunctionOnSet(f, T \cup R) = SumFunctionOnSet(f, T) + SumFunctionOnSet(f, R)
    BY <2>1, SumUnion
  <2>. QED  BY <2>2, <2>3 DEF R
<1>. QED  BY <1>1, <1>2, <1>3

\* A sum of which one value changes.
LEMMA SumChange ==
  ASSUME NEW f, NEW g, NEW S, Sums(f, S), NEW x \in S, g[x] \in Int,
         \A y \in S \ {x} : g[y] = f[y]
  PROVE  SumFunctionOnSet(g, S) = SumFunctionOnSet(f, S) - f[x] + g[x]
<1>1. Sums(f, S \ {x}) /\ Sums(g, S)
  BY FS_RemoveElement DEF Sums
<1>2. SumFunctionOnSet(g, S \ {x}) = SumFunctionOnSet(f, S \ {x})
  BY <1>1, SumSame
<1>3. /\ SumFunctionOnSet(f, S) = f[x] + SumFunctionOnSet(f, S \ {x})
      /\ SumFunctionOnSet(g, S) = g[x] + SumFunctionOnSet(g, S \ {x})
  BY <1>1, SumRemove
<1>4. f[x] \in Int /\ SumFunctionOnSet(f, S \ {x}) \in Int
  BY <1>1, SumInt DEF Sums
<1>. QED  BY <1>2, <1>3, <1>4

\* A sum to which one element may come, from which it may go, or whose value of
\* it may change.
LEMMA SumMoves ==
  ASSUME NEW f, NEW g, NEW S, NEW T, NEW x, Sums(f, S), Sums(g, T), S \ {x} = T \ {x},
         \A y \in S \ {x} : g[y] = f[y]
  PROVE  SumFunctionOnSet(g, T) = SumFunctionOnSet(f, S)
           - (IF x \in S THEN f[x] ELSE 0) + (IF x \in T THEN g[x] ELSE 0)
<1> DEFINE R == S \ {x}
<1>1. Sums(f, R) /\ Sums(g, R) /\ SumFunctionOnSet(g, R) = SumFunctionOnSet(f, R)
  <2>1. Sums(f, R)
    BY FS_RemoveElement DEF Sums
  <2>. QED  BY <2>1, SumSame
<1>2. SumFunctionOnSet(f, S) = (IF x \in S THEN f[x] ELSE 0) + SumFunctionOnSet(f, R)
  <2>1. CASE x \in S
    BY <2>1, SumRemove
  <2>2. CASE x \notin S
    <3>1. R = S /\ SumFunctionOnSet(f, S) \in Int
      BY <2>2, SumInt DEF Sums
    <3> HIDE DEF R
    <3>. QED  BY <2>2, <3>1
  <2>. QED  BY <2>1, <2>2
<1>3. SumFunctionOnSet(g, T) = (IF x \in T THEN g[x] ELSE 0) + SumFunctionOnSet(g, R)
  <2>1. CASE x \in T
    BY <2>1, SumRemove
  <2>2. CASE x \notin T
    <3>1. R = T /\ SumFunctionOnSet(g, T) \in Int
      BY <2>2, SumInt DEF Sums
    <3> HIDE DEF R
    <3>. QED  BY <2>2, <3>1
  <2>. QED  BY <2>1, <2>2
<1>4. SumFunctionOnSet(f, R) \in Int /\ SumFunctionOnSet(g, R) \in Int
  BY <1>1, SumInt DEF Sums
<1>5. (IF x \in S THEN f[x] ELSE 0) \in Int /\ (IF x \in T THEN g[x] ELSE 0) \in Int
  BY DEF Sums
<1> HIDE DEF R
<1>. QED  BY <1>1, <1>2, <1>3, <1>4, <1>5

\* A larger set of larger natural numbers makes a larger sum.
LEMMA SumWithin ==
  ASSUME NEW f, NEW g, NEW S, NEW T \in SUBSET S, IsFiniteSet(S),
         \A x \in T : f[x] \in Nat /\ f[x] <= g[x], \A x \in S : g[x] \in Nat
  PROVE  SumFunctionOnSet(f, T) <= SumFunctionOnSet(g, S)
<1>1. /\ IsFiniteSet(T) /\ SumFunctionOnSet(g, T) <= SumFunctionOnSet(g, S)
      /\ SumFunctionOnSet(g, T) \in Nat /\ SumFunctionOnSet(g, S) \in Nat
  BY SumSubset
<1>2. Sums(f, T) /\ Sums(g, T)
  BY <1>1 DEF Sums
<1>3. SumFunctionOnSet(f, T) <= SumFunctionOnSet(g, T)
  BY <1>2, SumMonotone
<1>4. SumFunctionOnSet(f, T) \in Nat
  BY <1>1, SumNat
<1>. QED  BY <1>1, <1>3, <1>4

LEMMA SumZero ==
  ASSUME NEW f, NEW S, IsFiniteSet(S), \A x \in S : f[x] = 0
  PROVE  SumFunctionOnSet(f, S) = 0
<1> DEFINE Q == {s \in SUBSET S : SumFunctionOnSet(f, s) = 0}
<1>1. {} \in Q
  BY SumEmpty
<1>2. ASSUME NEW s \in Q, NEW x \in S \ s
      PROVE  s \cup {x} \in Q
  <2>1. Sums(f, s) /\ f[x] = 0 /\ f[x] \in Int
    BY FS_Subset DEF Sums
  <2>2. SumFunctionOnSet(f, s \cup {x}) = f[x] + SumFunctionOnSet(f, s)
    BY <2>1, SumAdd
  <2>. QED  BY <2>1, <2>2
<1>3. Q \in SUBSET SUBSET S
  OBVIOUS
<1> HIDE DEF Q
<1>4. S \in Q
  BY <1>1, <1>2, <1>3, SubsetInduction
<1>. QED  BY <1>4 DEF Q

\* A function of which one value grows.
Grown(f, g, D, x, n) ==
  /\ IsFiniteSet(D) /\ x \in D /\ n \in Nat
  /\ f \in [D -> Nat] /\ g \in [D -> Nat]
  /\ \A y \in D : g[y] = IF y = x THEN f[y] + n ELSE f[y]

LEMMA SumGrows ==
  ASSUME NEW f, NEW g, NEW D, NEW x, NEW n, Grown(f, g, D, x, n)
  PROVE  /\ SumFunction(f) \in Nat
         /\ SumFunction(g) = SumFunction(f) + n
<1> USE DEF Grown
<1>1. g[x] = f[x] + n /\ \A y \in D \ {x} : g[y] = f[y]
  OBVIOUS
<1>2. SumFunction(g) = SumFunctionOnSet(g, D) /\ SumFunction(f) = SumFunctionOnSet(f, D)
  BY DEF SumFunction
<1>3. Sums(f, D) /\ f[x] \in Int /\ g[x] \in Int
  BY <1>1 DEF Sums
<1>4. SumFunctionOnSet(g, D) = SumFunctionOnSet(f, D) - f[x] + g[x]
  BY <1>1, <1>3, SumChange
<1>5. SumFunctionOnSet(f, D) \in Nat
  BY SumNat
<1>6. SumFunctionOnSet(g, D) = SumFunctionOnSet(f, D) + n
  BY <1>1, <1>3, <1>4, <1>5
<1>. QED  BY <1>2, <1>5, <1>6
===============================================================================
