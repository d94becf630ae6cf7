----------------------------- MODULE WireProofs -----------------------------
(***************************************************************************)
(* Theorems about Wire: the five invariants that its run checks, for every *)
(* context the primary may fill, lists of any length and any validators.   *)
(*                                                                         *)
(* The arithmetic and the tree come first: the sum of M PreCommits is the  *)
(* same whoever they are from, and the Merkle root tells the lists that    *)
(* repeat no hash.  Both are inductions, over the size of a set and the    *)
(* level of a tree; each is an argument about the least number for which a *)
(* claim is wrong.  Then the inductive invariant WInv, with a lemma for    *)
(* each conversion and each action, and the theorems that follow from it.  *)
(***************************************************************************)
EXTENDS Wire, FiniteSetTheorems, SequenceTheorems, TLAPS

-----------------------------------------------------------------------------
(* Numbers and sums.                                                        *)

\* A set of natural numbers that has an element has a least one.
LEMMA LeastNumber ==
    ASSUME NEW T \in SUBSET Nat, T # {}
    PROVE  \E n \in T : \A k \in T : n <= k
<1>1. PICK n \in T : \A k \in T : ~(<<k, n>> \in OpToRel(<, Nat))
  <2>1. IsWellFoundedOn(OpToRel(<, Nat), Nat)
    BY NatLessThanWellFounded
  <2> QED BY <2>1, WFMin
<1>2. ASSUME NEW k \in T, ~(n <= k) PROVE FALSE
  <2>1. k < n /\ k \in Nat /\ n \in Nat
    BY <1>2
  <2>2. <<k, n>> \in OpToRel(<, Nat)
    BY <2>1, Zenon DEF OpToRel
  <2> QED BY <2>2, <1>1
<1> QED BY <1>2

\* Seconds survive a count in nanoseconds (nanoSecToSec, secToNanoSec).
LEMMA SecondsSurvive ==
    ASSUME NEW t \in Nat
    PROVE  nanoSecToSec(secToNanoSec(t)) = t /\ secToNanoSec(t) \in Nat
BY NumbersAssumption, Z3 DEF nanoSecToSec, secToNanoSec

-----------------------------------------------------------------------------
(* The Merkle tree (merkle_tree.go).                                        *)

\* What is above a level.
Above(s) == IF Len(s) = 1 THEN s ELSE Parents(s)

\* The recursive function of Levels exists.
LEMMA LevelsDefined ==
    ASSUME NEW s, Len(s) \in Nat
    PROVE  /\ DOMAIN Levels(s) = 0 .. Len(s)
           /\ Levels(s)[0] = s
           /\ \A k \in 1 .. Len(s) : Levels(s)[k] = Above(Levels(s)[k - 1])
<1> DEFINE Grown(f, n) == [k \in 0 .. n |-> IF k = 0 THEN s ELSE Above(f[k - 1])]
           Bad == {n \in Nat : ~\E f : f = Grown(f, n)}
<1>1. Bad = {}
  <2>1. SUFFICES ASSUME Bad # {} PROVE FALSE
    OBVIOUS
  <2>2. PICK n \in Bad : \A k \in Bad : n <= k
    <3>1. Bad \in SUBSET Nat
      OBVIOUS
    <3> HIDE DEF Bad
    <3> QED BY <2>1, <3>1, LeastNumber
  <2>3. n \in Nat /\ ~\E f : f = Grown(f, n)
    BY <2>2
  <2>4. CASE n = 0
    <3> DEFINE f == [k \in 0 .. n |-> s]
    <3>1. f = Grown(f, n)
      BY <2>4
    <3> QED BY <3>1, <2>3
  <2>5. CASE n # 0
    <3>1. n - 1 \in Nat /\ n - 1 \notin Bad
      <4>1. n - 1 \in Nat /\ ~(n <= n - 1)
        BY <2>3, <2>5
      <4> HIDE DEF Bad
      <4> QED BY <4>1, <2>2
    <3>2. PICK f : f = Grown(f, n - 1)
      BY <3>1
    <3> DEFINE g == [k \in 0 .. n |-> IF k = n THEN Above(f[n - 1]) ELSE f[k]]
    <3>3. ASSUME NEW k \in 0 .. n PROVE g[k] = Grown(g, n)[k]
      <4>1. CASE k = n
        <5>1. g[k - 1] = f[n - 1] /\ k # 0
          BY <4>1, <2>3, <2>5
        <5>2. g[k] = Above(f[n - 1])
          BY <4>1
        <5> QED BY <5>1, <5>2, <4>1
      <4>2. CASE k # n
        <5>1. k \in 0 .. n - 1 /\ g[k] = f[k]
          BY <4>2, <2>3
        <5>2. f[k] = IF k = 0 THEN s ELSE Above(f[k - 1])
          BY <3>2, <5>1
        <5>3. k # 0 => g[k - 1] = f[k - 1]
          BY <4>2, <2>3
        <5> QED BY <5>1, <5>2, <5>3
      <4> QED BY <4>1, <4>2
    <3>4. g = Grown(g, n)
      BY <3>3
    <3> QED BY <3>4, <2>3
  <2> QED BY <2>4, <2>5
<1>2. \E f : f = Grown(f, Len(s))
  BY <1>1
<1>3. Levels(s) = Grown(Levels(s), Len(s))
  BY <1>2 DEF Levels, Above
<1> QED BY <1>3

\* A sequence with an element at least: the lists, and the levels of a tree.
IsList(s) == Len(s) \in Nat \ {0} /\ s = [i \in 1 .. Len(s) |-> s[i]]

Distinct(s) == \A i, j \in 1 .. Len(s) : s[i] = s[j] => i = j

LEMMA LengthOfFunction ==
    ASSUME NEW n \in Nat, NEW f, f = [i \in 1 .. n |-> f[i]]
    PROVE  Len(f) = n
<1> DEFINE S == {f[i] : i \in 1 .. n}
<1>1. f \in [1 .. n -> S]
  OBVIOUS
<1> HIDE DEF S
<1>2. f \in Seq(S)
  BY <1>1, SeqDef
<1>3. 1 .. Len(f) = 1 .. n /\ Len(f) \in Nat
  BY <1>1, <1>2, LenProperties
<1> QED BY <1>3

\* A level of pairs has half the nodes of the one below it.
LEMMA ParentsAreList ==
    ASSUME NEW s, IsList(s)
    PROVE  /\ IsList(Parents(s))
           /\ Len(Parents(s)) = (Len(s) + 1) \div 2
           /\ \A i \in 1 .. Len(Parents(s)) :
                Parents(s)[i] = <<s[2 * i - 1], IF 2 * i > Len(s) THEN s[2 * i - 1] ELSE s[2 * i]>>
<1> DEFINE n == (Len(s) + 1) \div 2
<1>1. n \in Nat \ {0}
  BY DEF IsList
<1>2. Parents(s) = [i \in 1 .. n |-> Parents(s)[i]]
  BY DEF Parents
<1>3. Len(Parents(s)) = n
  BY <1>1, <1>2, LengthOfFunction
<1>4. IsList(Parents(s))
  BY <1>1, <1>2, <1>3 DEF IsList
<1> QED BY <1>3, <1>4 DEF Parents

\* Nodes that differ have parents that differ.
LEMMA ParentsDistinct ==
    ASSUME NEW s, IsList(s), Distinct(s)
    PROVE  Distinct(Parents(s))
<1> SUFFICES ASSUME NEW i \in 1 .. Len(Parents(s)), NEW j \in 1 .. Len(Parents(s)),
                    Parents(s)[i] = Parents(s)[j]
             PROVE  i = j
  BY DEF Distinct
<1>1. s[2 * i - 1] = s[2 * j - 1]
  BY ParentsAreList
<1>2. 2 * i - 1 \in 1 .. Len(s) /\ 2 * j - 1 \in 1 .. Len(s) /\ i \in Int /\ j \in Int
  <2>1. Len(s) \in Nat /\ Len(Parents(s)) = (Len(s) + 1) \div 2
    BY ParentsAreList DEF IsList
  <2> QED BY <2>1
<1>3. 2 * i - 1 = 2 * j - 1
  BY <1>1, <1>2 DEF Distinct
<1> QED BY <1>2, <1>3

\* Parents tell the nodes below them, when these differ from each other: the
\* pairing of a last node with itself is then not the pairing of two nodes.
LEMMA ParentsInjective ==
    ASSUME NEW s, NEW t, IsList(s), IsList(t), Distinct(s), Distinct(t),
           Parents(s) = Parents(t)
    PROVE  s = t
<1>1. (Len(s) + 1) \div 2 = (Len(t) + 1) \div 2
  BY ParentsAreList
<1>2. Len(s) \in Nat \ {0} /\ Len(t) \in Nat \ {0}
  BY DEF IsList
<1>3. ASSUME NEW i \in 1 .. (Len(s) + 1) \div 2
      PROVE  /\ s[2 * i - 1] = t[2 * i - 1]
             /\ (IF 2 * i > Len(s) THEN s[2 * i - 1] ELSE s[2 * i])
                    = (IF 2 * i > Len(t) THEN t[2 * i - 1] ELSE t[2 * i])
  BY <1>1, ParentsAreList
<1>4. Len(s) = Len(t)
  <2>1. ASSUME Len(s) < Len(t) PROVE FALSE
    <3>1. \E i \in 1 .. (Len(s) + 1) \div 2 : 2 * i > Len(s) /\ 2 * i = Len(t)
      BY <1>1, <1>2, <2>1
    <3>2. PICK i \in 1 .. (Len(s) + 1) \div 2 : 2 * i > Len(s) /\ 2 * i = Len(t)
      BY <3>1
    <3>3. t[2 * i - 1] = t[2 * i]
      BY <1>2, <1>3, <3>2
    <3>4. 2 * i - 1 \in 1 .. Len(t) /\ 2 * i \in 1 .. Len(t) /\ 2 * i - 1 # 2 * i
      BY <1>2, <3>2
    <3> QED BY <3>3, <3>4 DEF Distinct
  <2>2. ASSUME Len(t) < Len(s) PROVE FALSE
    <3>1. \E i \in 1 .. (Len(s) + 1) \div 2 : 2 * i > Len(t) /\ 2 * i = Len(s)
      BY <1>1, <1>2, <2>2
    <3>2. PICK i \in 1 .. (Len(s) + 1) \div 2 : 2 * i > Len(t) /\ 2 * i = Len(s)
      BY <3>1
    <3>3. s[2 * i - 1] = s[2 * i]
      BY <1>2, <1>3, <3>2
    <3>4. 2 * i - 1 \in 1 .. Len(s) /\ 2 * i \in 1 .. Len(s) /\ 2 * i - 1 # 2 * i
      BY <1>2, <3>2
    <3> QED BY <3>3, <3>4 DEF Distinct
  <2> QED BY <1>2, <2>1, <2>2
<1>5. ASSUME NEW k \in 1 .. Len(s) PROVE s[k] = t[k]
  <2>1. \E i \in 1 .. (Len(s) + 1) \div 2 : k = 2 * i - 1 \/ k = 2 * i
    <3>1. /\ (k + 1) \div 2 \in 1 .. (Len(s) + 1) \div 2
          /\ k = 2 * ((k + 1) \div 2) - 1 \/ k = 2 * ((k + 1) \div 2)
      BY <1>2
    <3> QED BY <3>1
  <2>2. PICK i \in 1 .. (Len(s) + 1) \div 2 : k = 2 * i - 1 \/ k = 2 * i
    BY <2>1
  <2>3. CASE k = 2 * i - 1
    BY <1>3, <2>3
  <2>4. CASE k = 2 * i
    <3>1. ~(2 * i > Len(s)) /\ ~(2 * i > Len(t))
      BY <1>2, <1>4, <2>4
    <3> QED BY <1>3, <2>4, <3>1
  <2> QED BY <2>2, <2>3, <2>4
<1> QED BY <1>4, <1>5 DEF IsList

\* A level: nodes that differ, none of them the zero hash.
IsLevel(s) == IsList(s) /\ Distinct(s) /\ \A i \in 1 .. Len(s) : s[i] # <<>>

\* Above a level is another one, shorter unless it is the root alone.
LEMMA AboveLevel ==
    ASSUME NEW s, IsLevel(s)
    PROVE  /\ IsLevel(Above(s))
           /\ Len(s) # 1 => Above(s) = Parents(s) /\ Len(Above(s)) < Len(s)
           /\ Len(s) = 1 => Above(s) = s
<1>1. Len(s) # 1 => (Len(s) + 1) \div 2 < Len(s)
  BY DEF IsLevel, IsList
<1>2. IsLevel(Parents(s))
  <2>1. ASSUME NEW i \in 1 .. Len(Parents(s)) PROVE Parents(s)[i] # <<>>
    <3>1. \E x, y : Parents(s)[i] = <<x, y>>
      BY ParentsAreList DEF IsLevel
    <3> QED BY <3>1
  <2> QED BY <2>1, ParentsAreList, ParentsDistinct DEF IsLevel
<1> QED BY <1>1, <1>2, ParentsAreList DEF Above, IsLevel

\* All that is above leaves is a level, and the last one holds the root alone.
LEMMA LevelsAreLevels ==
    ASSUME NEW s, IsLevel(s)
    PROVE  /\ \A k \in 0 .. Len(s) : IsLevel(Levels(s)[k])
           /\ Len(Levels(s)[Len(s)]) = 1
<1> DEFINE L == Levels(s)
           Good(k) == /\ IsLevel(L[k])
                      /\ Len(L[k]) = 1 \/ Len(L[k]) + k <= Len(s)
           Bad == {k \in 0 .. Len(s) : ~Good(k)}
<1>1. Len(s) \in Nat
  BY DEF IsLevel, IsList
<1>2. Bad = {}
  <2>1. SUFFICES ASSUME Bad # {} PROVE FALSE
    OBVIOUS
  <2>2. Bad \in SUBSET Nat
    BY <1>1
  <2>3. PICK k \in Bad : \A j \in Bad : k <= j
    <3> HIDE DEF Bad
    <3> QED BY <2>1, <2>2, LeastNumber
  <2>4. k \in 0 .. Len(s) /\ ~Good(k)
    BY <2>3
  <2>5. CASE k = 0
    <3>1. L[0] = s
      BY <1>1, LevelsDefined
    <3> QED BY <1>1, <2>4, <2>5, <3>1
  <2>6. CASE k # 0
    <3>1. k \in 1 .. Len(s) /\ k - 1 \in 0 .. Len(s) /\ ~(k <= k - 1)
      BY <1>1, <2>4, <2>6
    <3>2. k - 1 \notin Bad
      <4> HIDE DEF Bad
      <4> QED BY <2>3, <3>1
    <3>3. Good(k - 1)
      BY <3>1, <3>2
    <3>4. L[k] = Above(L[k - 1])
      BY <1>1, <3>1, LevelsDefined
    <3>5. Len(L[k - 1]) \in Nat /\ Len(L[k]) \in Nat
      BY <3>3, <3>4, AboveLevel DEF IsLevel, IsList
    <3>6. Len(L[k]) = 1 \/ Len(L[k]) + k <= Len(s)
      <4>1. CASE Len(L[k - 1]) = 1
        BY <3>3, <3>4, <4>1, AboveLevel
      <4>2. CASE Len(L[k - 1]) # 1
        <5>1. Len(L[k]) < Len(L[k - 1])
          BY <3>3, <3>4, <4>2, AboveLevel
        <5>2. Len(L[k - 1]) + (k - 1) <= Len(s)
          BY <3>3, <4>2
        <5> QED BY <1>1, <3>1, <3>5, <5>1, <5>2
      <4> QED BY <4>1, <4>2
    <3>7. Good(k)
      BY <3>3, <3>4, <3>6, AboveLevel
    <3> QED BY <2>4, <3>7
  <2> QED BY <2>5, <2>6
<1>3. ASSUME NEW k \in 0 .. Len(s) PROVE Good(k)
  BY <1>2
<1>4. Len(L[Len(s)]) = 1
  <2>1. Good(Len(s))
    BY <1>1, <1>3
  <2>2. Len(L[Len(s)]) \in Nat \ {0}
    BY <2>1 DEF IsLevel, IsList
  <2> QED BY <1>1, <2>1, <2>2
<1> QED BY <1>3, <1>4

\* Leaves are told by the root: there is a lowest level that the two trees have
\* in common, and below the leaves of both there is none.
LEMMA BuildTreeInjective ==
    ASSUME NEW s, NEW t, IsLevel(s), IsLevel(t),
           \A i \in 1 .. Len(s) : Len(s[i]) = 1, \A i \in 1 .. Len(t) : Len(t[i]) = 1,
           buildTree(s) = buildTree(t)
    PROVE  s = t
<1> DEFINE n == Len(s)
           m == Len(t)
           L == Levels(s)
           R == Levels(t)
           K == {k \in 0 .. n : \E l \in 0 .. m : L[k] = R[l]}
<1>1. n \in Nat \ {0} /\ m \in Nat \ {0}
  BY DEF IsLevel, IsList
<1>2. /\ \A k \in 0 .. n : IsLevel(L[k])
      /\ \A l \in 0 .. m : IsLevel(R[l])
      /\ Len(L[n]) = 1 /\ Len(R[m]) = 1
  BY LevelsAreLevels
<1>3. /\ L[0] = s /\ \A k \in 1 .. n : L[k] = Above(L[k - 1])
      /\ R[0] = t /\ \A l \in 1 .. m : R[l] = Above(R[l - 1])
  BY <1>1, LevelsDefined
<1>4. L[n] = R[m]
  <2>1. L[n][1] = R[m][1]
    BY DEF buildTree
  <2>2. IsList(L[n]) /\ IsList(R[m])
    BY <1>1, <1>2 DEF IsLevel
  <2>3. L[n] = [i \in 1 .. 1 |-> L[n][i]] /\ R[m] = [i \in 1 .. 1 |-> R[m][i]]
    BY <1>2, <2>2 DEF IsList
  <2> QED BY <2>1, <2>3
<1> HIDE DEF n, m, L, R
<1>5. PICK k \in K : \A j \in K : k <= j
  <2>1. n \in K /\ K \in SUBSET Nat
    BY <1>1, <1>4
  <2> HIDE DEF K
  <2> QED BY <2>1, LeastNumber
<1> DEFINE J == {l \in 0 .. m : L[k] = R[l]}
<1>6. PICK l \in J : \A j \in J : l <= j
  <2>1. J # {} /\ J \in SUBSET Nat
    BY <1>1, <1>5
  <2> HIDE DEF J
  <2> QED BY <2>1, LeastNumber
<1>7. k \in 0 .. n /\ l \in 0 .. m /\ L[k] = R[l]
  BY <1>5, <1>6
<1>8. k # 0 => k - 1 \in 0 .. n /\ k \in 1 .. n /\ \A j \in 0 .. m : L[k - 1] # R[j]
  <2>1. k # 0 => k - 1 \in 0 .. n /\ k \in 1 .. n /\ ~(k <= k - 1)
    BY <1>1, <1>7
  <2>2. k # 0 => k - 1 \notin K
    <3> HIDE DEF K
    <3> QED BY <1>5, <2>1
  <2> QED BY <2>1, <2>2
<1>9. l # 0 => l - 1 \in 0 .. m /\ l \in 1 .. m /\ L[k] # R[l - 1]
  <2>1. l # 0 => l - 1 \in 0 .. m /\ l \in 1 .. m /\ ~(l <= l - 1)
    BY <1>1, <1>7
  <2>2. l # 0 => l - 1 \notin J
    <3> HIDE DEF J
    <3> QED BY <1>6, <2>1
  <2> QED BY <2>1, <2>2
<1>10. k # 0 => L[k] = Parents(L[k - 1]) /\ Len(L[k][1]) = 2
  <2> SUFFICES ASSUME k # 0 PROVE L[k] = Parents(L[k - 1]) /\ Len(L[k][1]) = 2
    OBVIOUS
  <2>1. IsLevel(L[k - 1]) /\ L[k] = Above(L[k - 1])
    BY <1>2, <1>3, <1>8
  <2>2. L[k] # L[k - 1]
    BY <1>7, <1>8
  <2>3. L[k] = Parents(L[k - 1])
    BY <2>1, <2>2, AboveLevel
  <2>4. 1 \in 1 .. Len(Parents(L[k - 1]))
    BY <2>1, ParentsAreList DEF IsLevel, IsList
  <2>5. \E x, y : L[k][1] = <<x, y>>
    <3>1. Parents(L[k - 1])[1] =
            <<L[k - 1][2 * 1 - 1],
              IF 2 * 1 > Len(L[k - 1]) THEN L[k - 1][2 * 1 - 1] ELSE L[k - 1][2 * 1]>>
      BY <2>1, <2>4, ParentsAreList DEF IsLevel
    <3> QED BY <2>3, <3>1
  <2>6. Len(L[k][1]) = 2
    BY <2>5
  <2> QED BY <2>3, <2>6
<1>11. l # 0 => R[l] = Parents(R[l - 1]) /\ Len(R[l][1]) = 2
  <2> SUFFICES ASSUME l # 0 PROVE R[l] = Parents(R[l - 1]) /\ Len(R[l][1]) = 2
    OBVIOUS
  <2>1. IsLevel(R[l - 1]) /\ R[l] = Above(R[l - 1])
    BY <1>2, <1>3, <1>9
  <2>2. R[l] # R[l - 1]
    BY <1>7, <1>9
  <2>3. R[l] = Parents(R[l - 1])
    BY <2>1, <2>2, AboveLevel
  <2>4. 1 \in 1 .. Len(Parents(R[l - 1]))
    BY <2>1, ParentsAreList DEF IsLevel, IsList
  <2>5. \E x, y : R[l][1] = <<x, y>>
    <3>1. Parents(R[l - 1])[1] =
            <<R[l - 1][2 * 1 - 1],
              IF 2 * 1 > Len(R[l - 1]) THEN R[l - 1][2 * 1 - 1] ELSE R[l - 1][2 * 1]>>
      BY <2>1, <2>4, ParentsAreList DEF IsLevel
    <3> QED BY <2>3, <3>1
  <2>6. Len(R[l][1]) = 2
    BY <2>5
  <2> QED BY <2>3, <2>6
<1>12. Len(s[1]) = 1 /\ Len(t[1]) = 1
  BY <1>1 DEF n, m
<1>13. ASSUME k # 0, l # 0 PROVE FALSE
  <2>1. Parents(L[k - 1]) = Parents(R[l - 1])
    BY <1>7, <1>10, <1>11, <1>13
  <2>2. IsLevel(L[k - 1]) /\ IsLevel(R[l - 1])
    BY <1>2, <1>8, <1>9, <1>13
  <2>3. L[k - 1] = R[l - 1]
    BY <2>1, <2>2, ParentsInjective DEF IsLevel
  <2> QED BY <1>8, <1>9, <1>13, <2>3
<1>14. k = 0 /\ l = 0
  <2>1. ASSUME k = 0, l # 0 PROVE FALSE
    <3>1. R[l] = s
      BY <1>3, <1>7, <2>1
    <3>2. Len(R[l][1]) = 1
      BY <1>12, <3>1
    <3> QED BY <1>11, <2>1, <3>2
  <2>2. ASSUME k # 0, l = 0 PROVE FALSE
    <3>1. L[k] = t
      BY <1>3, <1>7, <2>2
    <3>2. Len(L[k][1]) = 1
      BY <1>12, <3>1
    <3> QED BY <1>10, <2>2, <3>2
  <2> QED BY <1>13, <2>1, <2>2
<1> QED BY <1>3, <1>7, <1>14

LEMMA SingleTuple == \A x : Len(<<x>>) = 1 /\ <<x>> # <<>>
OBVIOUS

\* Lists that repeat no hash are told by their roots, the empty one too
\* (NewMerkleTree).
THEOREM MerkleRootInjective ==
    ASSUME NEW S, NEW s \in Seq(S), NEW t \in Seq(S), Distinct(s), Distinct(t),
           MerkleRoot(s) = MerkleRoot(t)
    PROVE  s = t

<1> DEFINE Leaves(u) == [i \in DOMAIN u |-> <<u[i]>>]
<1>1. ASSUME NEW u \in Seq(S), u # <<>>, Distinct(u)
      PROVE  /\ IsLevel(Leaves(u)) /\ Len(Leaves(u)) = Len(u)
             /\ \A i \in 1 .. Len(Leaves(u)) : Leaves(u)[i] = <<u[i]>>
             /\ MerkleRoot(u) = buildTree(Leaves(u))
  <2>1. DOMAIN u = 1 .. Len(u) /\ Len(u) \in Nat \ {0}
    BY <1>1, LenProperties, EmptySeq
  <2>2. Leaves(u) = [i \in 1 .. Len(u) |-> Leaves(u)[i]]
    BY <2>1
  <2>3. Len(Leaves(u)) = Len(u)
    BY <2>1, <2>2, LengthOfFunction
  <2>4. \A i \in 1 .. Len(u) : Leaves(u)[i] = <<u[i]>>
    BY <2>1
  <2>5. MerkleRoot(u) = buildTree(Leaves(u))
    BY <1>1 DEF MerkleRoot
  <2>6. Distinct(Leaves(u))
    <3> HIDE DEF Leaves
    <3>1. ASSUME NEW i \in 1 .. Len(u), NEW j \in 1 .. Len(u), Leaves(u)[i] = Leaves(u)[j]
          PROVE  u[i] = u[j]
      <4>1. <<u[i]>> = <<u[j]>>
        BY <2>4, <3>1
      <4> QED BY <4>1
    <3> QED BY <1>1, <2>3, <3>1 DEF Distinct
  <2> HIDE DEF Leaves
  <2>7. \A i \in 1 .. Len(Leaves(u)) : Leaves(u)[i] # <<>>
    BY <2>3, <2>4, SingleTuple
  <2> QED BY <2>1, <2>2, <2>3, <2>4, <2>5, <2>6, <2>7 DEF IsLevel, IsList
<1> HIDE DEF Leaves
<1>2. ASSUME NEW u \in Seq(S), u # <<>>, Distinct(u)
      PROVE  MerkleRoot(u) # <<>>
  <2> DEFINE l == Leaves(u)
             root == Levels(l)[Len(l)]
  <2>1. IsLevel(l) /\ Len(l) \in Nat
    BY <1>1, <1>2 DEF IsLevel, IsList
  <2>2. IsLevel(root) /\ Len(root) = 1
    BY <2>1, LevelsAreLevels
  <2>3. MerkleRoot(u) = root[1]
    BY <1>1, <1>2 DEF buildTree
  <2> QED BY <2>2, <2>3 DEF IsLevel
<1>3. CASE s = <<>> \/ t = <<>>
  BY <1>2, <1>3 DEF MerkleRoot
<1>4. CASE s # <<>> /\ t # <<>>
  <2>1. Leaves(s) = Leaves(t)
    <3>1. \A i \in 1 .. Len(Leaves(s)) : Len(Leaves(s)[i]) = 1
      <4>1. \A i \in 1 .. Len(Leaves(s)) : Leaves(s)[i] = <<s[i]>>
        BY <1>1, <1>4
      <4> QED BY <4>1, SingleTuple
    <3>2. \A i \in 1 .. Len(Leaves(t)) : Len(Leaves(t)[i]) = 1
      <4>1. \A i \in 1 .. Len(Leaves(t)) : Leaves(t)[i] = <<t[i]>>
        BY <1>1, <1>4
      <4> QED BY <4>1, SingleTuple
    <3>3. /\ IsLevel(Leaves(s)) /\ IsLevel(Leaves(t))
          /\ buildTree(Leaves(s)) = buildTree(Leaves(t))
      BY <1>1, <1>4
    <3> QED BY <3>1, <3>2, <3>3, BuildTreeInjective
  <2>2. Len(s) = Len(t)
    BY <1>1, <1>4, <2>1
  <2>3. ASSUME NEW i \in 1 .. Len(s) PROVE s[i] = t[i]
    <3>1. <<s[i]>> = <<t[i]>>
      BY <1>1, <1>4, <2>1, <2>2
    <3> QED BY <3>1
  <2> QED BY <2>2, <2>3, SeqEqual
<1> QED BY <1>3, <1>4

\* A node that has all transactions has a list without a repetition, since it
\* keeps them by their hashes (hasAllTransactions).
LEMMA AllTransactionsDistinct ==
    ASSUME NEW c, Hashes(c) \in Seq(Int), hasAllTransactions(c)
    PROVE  Distinct(Hashes(c))
<1> DEFINE s == Hashes(c)
           T == {s[i] : i \in DOMAIN s}
<1>1. DOMAIN s = 1 .. Len(s) /\ Len(s) \in Nat /\ s \in [1 .. Len(s) -> Int]
  BY LenProperties
<1>2. s \in Surjection(1 .. Len(s), T)
  <2>1. s \in [1 .. Len(s) -> T]
    BY <1>1
  <2> QED BY <1>1, <2>1 DEF Surjection
<1>3. IsFiniteSet(1 .. Len(s)) /\ Cardinality(1 .. Len(s)) = Len(s)
  BY <1>1, FS_Interval
<1>4. Cardinality(T) = Len(s)
  BY DEF hasAllTransactions
<1> HIDE DEF T
<1>5. s \in Injection(1 .. Len(s), T)
  BY <1>2, <1>3, <1>4, FS_Surjection
<1> QED BY <1>1, <1>5 DEF Injection, IsInjective, Distinct

-----------------------------------------------------------------------------
(* The data of M PreCommits (amev_block.go).                                *)

LEMMA NodesFinite == Nodes \subseteq Nat /\ IsFiniteSet(Nodes) /\ Primary \in Nodes
BY ValidatorsAssumption, FS_AddElement DEF Nodes

\* When there are M PreCommits, M of them are taken (FirstM).
LEMMA FirstMSize ==
    ASSUME NEW p, Cardinality(Have(p)) >= M
    PROVE  IsFiniteSet(FirstM(p)) /\ Cardinality(FirstM(p)) = M
<1> DEFINE H == Have(p)
           N == Cardinality(H)
           UpTo(i) == {j \in H : j <= i}
           rank == [i \in H |-> Cardinality(UpTo(i))]
           g == [i \in FirstM(p) |-> rank[i]]
<1>1. H \subseteq Nat /\ IsFiniteSet(H) /\ N \in Nat /\ N >= M
  BY NodesFinite, FS_Subset, FS_CardinalityType DEF Have
<1>2. FirstM(p) \subseteq H /\ \A i \in H : i \in FirstM(p) <=> rank[i] <= M
  BY DEF FirstM
<1> HIDE DEF H
<1>3. \A i \in H : UpTo(i) \subseteq H /\ IsFiniteSet(UpTo(i)) /\ Cardinality(UpTo(i)) \in 1 .. N
  <2> SUFFICES ASSUME NEW i \in H
               PROVE  UpTo(i) \subseteq H /\ IsFiniteSet(UpTo(i)) /\ Cardinality(UpTo(i)) \in 1 .. N
    OBVIOUS
  <2>1. UpTo(i) \subseteq H /\ i \in UpTo(i)
    BY <1>1
  <2>2. IsFiniteSet(UpTo(i)) /\ Cardinality(UpTo(i)) <= N
    BY <1>1, <2>1, FS_Subset
  <2>3. Cardinality(UpTo(i)) \in Nat /\ Cardinality(UpTo(i)) # 0
    BY <2>1, <2>2, FS_CardinalityType, FS_EmptySet
  <2> QED BY <1>1, <2>1, <2>2, <2>3
<1>4. ASSUME NEW i \in H, NEW j \in H, i < j
      PROVE  rank[i] # rank[j]
  <2>1. UpTo(i) \in SUBSET UpTo(j) /\ j \in UpTo(j) /\ j \notin UpTo(i)
    <3>1. i \in Nat /\ j \in Nat /\ ~(j <= i) /\ j <= j
      BY <1>1, <1>4
    <3>2. ASSUME NEW k \in UpTo(i) PROVE k \in UpTo(j)
      <4>1. k \in H /\ k \in Nat /\ k <= i
        BY <1>1, <3>2
      <4>2. k <= j
        BY <1>4, <3>1, <4>1
      <4> QED BY <4>1, <4>2
    <3> QED BY <3>1, <3>2
  <2>2. UpTo(i) # UpTo(j)
    BY <2>1
  <2>3. Cardinality(UpTo(j)) # Cardinality(UpTo(i))
    BY <1>3, <2>1, <2>2, FS_Subset
  <2> QED BY <2>3
<1>5. rank \in Injection(H, 1 .. N)
  <2>1. rank \in [H -> 1 .. N]
    BY <1>3
  <2>2. ASSUME NEW i \in H, NEW j \in H, rank[i] = rank[j] PROVE i = j
    <3>1. ~(i < j) /\ ~(j < i)
      BY <1>4, <2>2
    <3> QED BY <1>1, <3>1
  <2> HIDE DEF rank
  <2> QED BY <2>1, <2>2 DEF Injection, IsInjective
<1>6. \A t \in 1 .. N : \E i \in H : rank[i] = t
  <2>1. IsFiniteSet(1 .. N) /\ Cardinality(1 .. N) = N
    BY <1>1, FS_Interval
  <2>2. rank \in Surjection(H, 1 .. N)
    <3> HIDE DEF rank
    <3> QED BY <1>5, <2>1, FS_Injection
  <2> QED BY <2>2 DEF Surjection
<1>7. g \in Injection(FirstM(p), 1 .. M) /\ g \in Surjection(FirstM(p), 1 .. M)
  <2>1. rank \in [H -> 1 .. N] /\ \A i, j \in H : rank[i] = rank[j] => i = j
    BY <1>5 DEF Injection, IsInjective
  <2> HIDE DEF rank
  <2>2. g \in [FirstM(p) -> 1 .. M]
    <3>1. ASSUME NEW i \in FirstM(p) PROVE g[i] \in 1 .. M
      <4>1. i \in H /\ rank[i] \in 1 .. N /\ rank[i] <= M /\ g[i] = rank[i]
        BY <1>2, <2>1
      <4> HIDE DEF g
      <4> QED BY <1>1, <4>1, NumbersAssumption
    <3> QED BY <3>1
  <2>3. \A i, j \in FirstM(p) : g[i] = g[j] => i = j
    BY <1>2, <2>1
  <2>4. \A t \in 1 .. M : \E i \in FirstM(p) : g[i] = t
    <3> SUFFICES ASSUME NEW t \in 1 .. M PROVE \E i \in FirstM(p) : g[i] = t
      OBVIOUS
    <3>1. t \in 1 .. N /\ t <= M
      BY <1>1, NumbersAssumption
    <3>2. PICK i \in H : rank[i] = t
      BY <1>6, <3>1
    <3> QED BY <1>2, <3>1, <3>2
  <2> HIDE DEF g
  <2> QED BY <2>2, <2>3, <2>4 DEF Injection, IsInjective, Surjection
<1>8. IsFiniteSet(1 .. M) /\ Cardinality(1 .. M) = M
  BY NumbersAssumption, FS_Interval
<1> HIDE DEF g
<1> QED BY <1>7, <1>8, FS_Injection

\* M data that are all the same have one sum, whoever they are from.
LEMMA SumOfEqual ==
    ASSUME NEW p, NEW S, IsFiniteSet(S), \A i \in S : p[i] = Index
    PROVE  SumFunctionOnSet(p, S) = Cardinality(S) * Index
<1> DEFINE Summed(f) ==
              [T \in SUBSET S |->
                  IF T = {} THEN 0
                  ELSE p[CHOOSE x \in T : TRUE] + f[T \ {CHOOSE x \in T : TRUE}]]
           sum == CHOOSE f : f = Summed(f)
           g == [T \in SUBSET S |-> Cardinality(T) * Index]
<1>1. SumFunctionOnSet(p, S) = sum[S]
  BY DEF SumFunctionOnSet, FoldFunctionOnSet, MapThenFoldSet
<1>2. ASSUME NEW T \in SUBSET S
      PROVE  /\ IsFiniteSet(T) /\ Cardinality(T) \in Nat
             /\ T = {} => Cardinality(T) = 0
             /\ T # {} => LET x == CHOOSE x \in T : TRUE
                          IN  /\ x \in T /\ T \ {x} \in SUBSET S
                              /\ Cardinality(T) # 0
                              /\ Cardinality(T \ {x}) = Cardinality(T) - 1
  BY FS_Subset, FS_CardinalityType, FS_EmptySet, FS_RemoveElement
<1>3. g = Summed(g)
  <2>1. ASSUME NEW T \in SUBSET S PROVE g[T] = Summed(g)[T]
    <3>1. CASE T = {}
      BY <1>2, <3>1, NumbersAssumption
    <3>2. CASE T # {}
      <4> DEFINE x == CHOOSE x \in T : TRUE
      <4>1. /\ p[x] = Index /\ T \ {x} \in SUBSET S
            /\ Cardinality(T) \in Nat /\ Cardinality(T \ {x}) = Cardinality(T) - 1
        BY <1>2, <3>2
      <4>2. g[T \ {x}] = (Cardinality(T) - 1) * Index
        BY <4>1
      <4>3. (Cardinality(T) - 1) * Index + Index = Cardinality(T) * Index
        BY <4>1, NumbersAssumption
      <4> QED BY <3>2, <4>1, <4>2, <4>3, NumbersAssumption
    <3> QED BY <3>1, <3>2
  <2> QED BY <2>1
<1>4. sum = Summed(sum)
  BY <1>3
<1>5. \A T \in SUBSET S : sum[T] = Cardinality(T) * Index
  <2> DEFINE Bad == {n \in Nat : \E T \in SUBSET S :
                        Cardinality(T) = n /\ sum[T] # Cardinality(T) * Index}
  <2>1. ASSUME Bad # {} PROVE FALSE
    <3>1. PICK n \in Bad : \A k \in Bad : n <= k
      <4>1. Bad \in SUBSET Nat
        OBVIOUS
      <4> HIDE DEF Bad
      <4> QED BY <2>1, <4>1, LeastNumber
    <3>2. PICK T \in SUBSET S : Cardinality(T) = n /\ sum[T] # Cardinality(T) * Index
      BY <3>1
    <3> DEFINE x == CHOOSE x \in T : TRUE
    <3>3. T # {}
      <4>1. ASSUME T = {} PROVE FALSE
        <5>1. sum[T] = 0 /\ Cardinality(T) = 0
          BY <1>2, <1>4, <4>1
        <5> QED BY <3>2, <5>1, NumbersAssumption
      <4> QED BY <4>1
    <3>4. /\ p[x] = Index /\ T \ {x} \in SUBSET S /\ n \in Nat
          /\ Cardinality(T \ {x}) = n - 1 /\ n - 1 \in Nat
      BY <1>2, <3>2, <3>3
    <3>5. sum[T] = Index + sum[T \ {x}]
      BY <1>4, <3>3, <3>4
    <3>6. n - 1 \notin Bad
      <4>1. ~(n <= n - 1)
        BY <3>4
      <4> HIDE DEF Bad
      <4> QED BY <3>1, <4>1
    <3>7. sum[T \ {x}] = (n - 1) * Index
      BY <3>4, <3>6
    <3>8. Index + (n - 1) * Index = n * Index
      BY <3>4, NumbersAssumption
    <3> QED BY <3>2, <3>5, <3>7, <3>8
  <2> HIDE DEF sum
  <2>2. ASSUME NEW T \in SUBSET S PROVE sum[T] = Cardinality(T) * Index
    <3>1. Cardinality(T) \in Nat
      BY <1>2
    <3> QED BY <2>1, <3>1
  <2> QED BY <2>2
<1> QED BY <1>1, <1>5

-----------------------------------------------------------------------------
(* The inductive invariant: what a node r of state n keeps when the payloads *)
(* S have been broadcast.                                                   *)

Roots == {MerkleRoot(s) : s \in Seq(Int)}

Headers ==
    [Timestamp : Nat, Index : {Index}, ConsensusData : Nat, MerkleRoot : Roots]

NodeStates ==
    [context : Contexts \cup {Nil}, request : RequestPayloads \cup {Nil},
     responses : [Nodes -> RequestPayloads \cup {Nil}],
     preCommits : [Nodes -> {Index, Nil}],
     header : Headers \cup {Nil}, commit : [by : Nodes, data : Headers] \cup {Nil}]

Response(i, h) == [type |-> "PrepareResponse", from |-> i, preparationHash |-> h]

PreCommits == [type : {"PreCommit"}, from : Nodes, data : {Index}]

Messages ==
    RequestPayloads \cup {Response(i, h) : i \in Backups, h \in RequestPayloads}
        \cup PreCommits

\* The header that a request leads to, with and without the extension.
Expected(mev, m) ==
    [Timestamp |-> m.timestamp, Index |-> Index, ConsensusData |-> m.nonce,
     MerkleRoot |-> MerkleRoot(
        IF mev THEN Append(m.transactionHashes, -1 - M * Index) ELSE m.transactionHashes)]

Known(m, S) == \E q \in RequestsOf(S) : Hash(q) = Hash(m)

\* Context and request tell the same, below the second aside.
ContextOK(r, n) ==
    /\ n.request = Nil <=> n.context = Nil
    /\ n.request # Nil =>
        /\ nanoSecToSec(n.context.Timestamp) = n.request.timestamp
        /\ n.context.Nonce = n.request.nonce
        /\ n.context.TransactionHashes = n.request.transactionHashes
        /\ r \in Backups => n.context = Proposal(n.request)

Answered(i, S) == \E h \in RequestPayloads : Response(i, h) \in S

\* A response of i with hash h is one that a recovery message may bring.
Restorable(lost, i, h, S) ==
    /\ h \in RequestPayloads /\ Answered(i, S)
    /\ ~lost => Response(i, h) \in S

\* The responses a node keeps are from backups that have responded, a backup
\* with a request keeps none for another one, and its own it has sent.  As long
\* as the primary is not lost it keeps no others either, and they all have been
\* sent.
ResponsesOK(lost, r, n, S) ==
    \A i \in Nodes : n.responses[i] # Nil =>
        /\ i \in Backups /\ Answered(i, S)
        /\ ~lost \/ i = r => Response(i, n.responses[i]) \in S
        /\ (~lost \/ r \in Backups) /\ n.request # Nil => n.responses[i] = Hash(n.request)

\* A backup that has responded keeps its response, the request and all of the
\* transactions.
PromiseOK(r, n, S) ==
    r \in Backups =>
        \A h \in RequestPayloads : Response(r, h) \in S =>
            /\ n.responses[r] = h
            /\ n.request # Nil /\ Hash(n.request) = h /\ hasAllTransactions(n.context)

\* A header is the one of the request, and is signed.
HeaderOK(mev, r, n) ==
    IF n.header = Nil
    THEN n.commit = Nil
    ELSE /\ n.request # Nil /\ n.request.transactionHashes # Nil
         /\ n.header = Expected(mev, n.request)
         /\ n.commit = Sign(r, n.header)

NodeOK(mev, lost, r, n, S) ==
    /\ n \in NodeStates
    /\ ContextOK(r, n)
    /\ n.request # Nil => Known(n.request, S)
    /\ ResponsesOK(lost, r, n, S)
    /\ PromiseOK(r, n, S)
    /\ HeaderOK(mev, r, n)

WInv ==
    /\ encoded \in BOOLEAN /\ antiMEV \in BOOLEAN
    /\ sent \subseteq Messages
    /\ DOMAIN node = Nodes /\ node = [r \in Nodes |-> node[r]]
    /\ \A r \in Nodes : NodeOK(antiMEV, restarted, r, node[r], sent)
    /\ restarted \in BOOLEAN
    /\ restarted \/ node[Primary].request # Nil \/ RequestsOf(sent) = {}

-----------------------------------------------------------------------------
(* Payloads and their hashes.                                               *)

\* The encoding changes nothing that a hash is taken of (EncodeBinary, Hash).
LEMMA HashOfPayload ==
    ASSUME NEW m \in RequestPayloads
    PROVE  /\ Hash(m) \in RequestPayloads /\ Hash(m) # Nil /\ m # Nil
           /\ EncodeDecode(m) \in RequestPayloads
           /\ Hash(EncodeDecode(m)) = Hash(m)
<1>1. Gob(m.transactionHashes) \in {Nil} \cup Seq(Int)
  BY DEF RequestPayloads, Gob
<1>2. EncodeDecode(m) \in RequestPayloads
  BY <1>1 DEF EncodeDecode, RequestPayloads
<1>3. Gob(Gob(m.transactionHashes)) = Gob(m.transactionHashes)
  BY DEF Gob
<1>4. EncodeDecode(EncodeDecode(m)) = EncodeDecode(m)
  BY <1>3 DEF EncodeDecode, RequestPayloads
<1> QED BY <1>2, <1>4, NilAssumption DEF Hash

\* Requests with one hash tell the same proposal; an empty list may be nil.
LEMMA HashTells ==
    ASSUME NEW m \in RequestPayloads, NEW q \in RequestPayloads, Hash(m) = Hash(q)
    PROVE  /\ m.timestamp = q.timestamp /\ m.nonce = q.nonce
           /\ m.transactionHashes # Nil /\ q.transactionHashes # Nil
                => m.transactionHashes = q.transactionHashes
<1>1. Gob(m.transactionHashes) = Gob(q.transactionHashes)
  BY DEF Hash, EncodeDecode, RequestPayloads
<1>2. m.timestamp = q.timestamp /\ m.nonce = q.nonce
  BY DEF Hash, EncodeDecode, RequestPayloads
<1>3. /\ m.transactionHashes \in {Nil} \cup Seq(Int)
      /\ q.transactionHashes \in {Nil} \cup Seq(Int)
  BY DEF RequestPayloads
<1> QED BY <1>1, <1>2, <1>3, NilAssumption DEF Gob

\* What NewPrepareRequest makes of a context, and a backup of the payload.
LEMMA ProposalOfRequest ==
    /\ \A c \in Fills : NewPrepareRequest(c) \in RequestPayloads
    /\ \A m \in RequestPayloads :
        /\ Proposal(m) \in Contexts
        /\ nanoSecToSec(Proposal(m).Timestamp) = m.timestamp
<1>1. ASSUME NEW c \in Fills PROVE NewPrepareRequest(c) \in RequestPayloads
  <2>1. c \in Contexts
    BY FillsAssumption
  <2>2. nanoSecToSec(c.Timestamp) \in Nat
    BY <2>1, NumbersAssumption DEF nanoSecToSec, Contexts
  <2> QED BY <2>1, <2>2 DEF NewPrepareRequest, RequestPayloads, Contexts
<1>2. ASSUME NEW m \in RequestPayloads
      PROVE  /\ Proposal(m) \in Contexts
             /\ nanoSecToSec(Proposal(m).Timestamp) = m.timestamp
  <2>1. m.timestamp \in Nat
    BY DEF RequestPayloads
  <2> QED BY <2>1, SecondsSurvive DEF Proposal, Contexts, RequestPayloads
<1> QED BY <1>1, <1>2

\* Payloads are told by their type.
LEMMA MessageTypes ==
    /\ \A m \in RequestPayloads : m.type = "PrepareRequest" /\ m.from = Primary
    /\ \A i, h : /\ Response(i, h).type = "PrepareResponse" /\ Response(i, h).from = i
                 /\ Response(i, h).preparationHash = h
                 /\ Response(i, h) \notin RequestPayloads \cup PreCommits
    /\ \A m \in PreCommits : m.type = "PreCommit" /\ m.data = Index
    /\ \A i, j, h, g : Response(i, h) = Response(j, g) => i = j /\ h = g
BY DEF RequestPayloads, Response, PreCommits

-----------------------------------------------------------------------------
(* What the handlers make of a node.                                        *)

\* More payloads do not disturb a node that has not sent a response among them,
\* nor does the primary that is lost.
LEMMA NodeElsewhere ==
    ASSUME NEW mev, NEW was, NEW lost, NEW r, NEW n, NEW S, NEW T,
           NodeOK(mev, was, r, n, S), S \subseteq T, was => lost,
           was \in BOOLEAN, lost \in BOOLEAN,
           r \in Backups => \A h \in RequestPayloads : Response(r, h) \in T => Response(r, h) \in S
    PROVE  NodeOK(mev, lost, r, n, T)
<1>1. ASSUME n.request # Nil PROVE Known(n.request, T)
  BY <1>1 DEF NodeOK, Known, RequestsOf
<1>2. ResponsesOK(lost, r, n, T)
  BY DEF NodeOK, ResponsesOK, Answered
<1>3. PromiseOK(r, n, T)
  BY DEF NodeOK, PromiseOK
<1> QED BY <1>1, <1>2, <1>3 DEF NodeOK

\* accept: a backup that takes a request keeps the responses to it, and its own
\* is the only one that is new.
LEMMA AcceptKeeps ==
    ASSUME NEW mev, NEW lost, NEW r \in Backups, NEW n, NEW S, NodeOK(mev, lost, r, n, S),
           NEW m \in RequestPayloads, Known(m, S)
    PROVE  LET d == accept(r, n, m)
               T == IF d.responses[r] = n.responses[r]
                    THEN S ELSE S \cup {Response(r, d.responses[r])}
           IN  /\ NodeOK(mev, lost, r, d, T)
               /\ \/ d.responses[r] = n.responses[r]
                  \/ n.responses[r] = Nil /\ d.responses[r] \in RequestPayloads
<1> DEFINE d == accept(r, n, m)
           kept == [i \in Nodes |->
                        IF n.responses[i] # Hash(m) THEN Nil ELSE n.responses[i]]
           own == IF hasAllTransactions(Proposal(m))
                  THEN [kept EXCEPT ![r] = Hash(m)] ELSE kept
           T == IF d.responses[r] = n.responses[r]
                THEN S ELSE S \cup {Response(r, d.responses[r])}
<1> SUFFICES /\ NodeOK(mev, lost, r, d, T)
             /\ \/ d.responses[r] = n.responses[r]
                \/ n.responses[r] = Nil /\ d.responses[r] \in RequestPayloads
  OBVIOUS
<1>1. CASE n.request # Nil
  <2>1. d = n
    BY <1>1 DEF accept
  <2> HIDE DEF d
  <2> QED BY <2>1
<1>2. CASE n.request = Nil
  <2>1. r \in Nodes /\ n \in NodeStates
    BY DEF Nodes, NodeOK
  <2>2. n.responses[r] = Nil
    <3>1. ASSUME n.responses[r] # Nil PROVE FALSE
      <4>1. Response(r, n.responses[r]) \in S /\ n.responses[r] \in RequestPayloads
        BY <2>1, <3>1 DEF NodeOK, ResponsesOK, NodeStates
      <4> QED BY <1>2, <4>1 DEF NodeOK, PromiseOK
    <3> QED BY <3>1
  <2>3. n.header = Nil /\ n.commit = Nil
    BY <1>2 DEF NodeOK, HeaderOK
  <2>4. Hash(m) \in RequestPayloads /\ Hash(m) # Nil /\ m # Nil
    BY HashOfPayload
  <2>5. own \in [Nodes -> RequestPayloads \cup {Nil}]
    BY <2>1, <2>4 DEF NodeStates
  <2>6. /\ d.context = Proposal(m) /\ d.request = m /\ d.responses = own
        /\ d.preCommits = n.preCommits /\ d.header = Nil /\ d.commit = Nil
        /\ d \in NodeStates
    <3>1. Proposal(m) \in Contexts
      BY ProposalOfRequest
    <3>2. d = [n EXCEPT !.context = Proposal(m), !.request = m, !.responses = own]
      BY <1>2, <2>1 DEF accept, NodeStates
    <3> HIDE DEF d, own
    <3> QED BY <2>1, <2>3, <2>5, <3>1, <3>2 DEF NodeStates
  <2>7. \A i \in Nodes : own[i] # Nil =>
            own[i] = Hash(m) /\ (i = r \/ own[i] = n.responses[i])
    BY <2>1
  <2>8. own[r] = IF hasAllTransactions(Proposal(m)) THEN Hash(m) ELSE Nil
    BY <2>1, <2>2, <2>4
  <2> HIDE DEF d, own
  <2>9. ContextOK(r, d)
    BY <2>4, <2>6, ProposalOfRequest, NilAssumption DEF ContextOK, Proposal
  <2>10. Known(m, T)
    BY DEF Known, RequestsOf
  <2>11. S \subseteq T /\ (own[r] # Nil => Response(r, own[r]) \in T)
    BY <2>2, <2>6
  <2>12. ResponsesOK(lost, r, d, T)
    <3>1. ASSUME NEW i \in Nodes, own[i] # Nil
          PROVE  /\ i \in Backups /\ Answered(i, T) /\ own[i] = Hash(m)
                 /\ ~lost \/ i = r => Response(i, own[i]) \in T
      <4>1. CASE i = r
        BY <2>4, <2>7, <2>11, <3>1, <4>1 DEF Answered
      <4>2. CASE i # r
        BY <2>7, <2>11, <3>1, <4>2 DEF NodeOK, ResponsesOK, Answered
      <4> QED BY <4>1, <4>2
    <3> QED BY <2>6, <3>1 DEF ResponsesOK
  <2>13. PromiseOK(r, d, T)
    <3>1. ASSUME NEW h \in RequestPayloads, Response(r, h) \in T
          PROVE  own[r] = h /\ Hash(m) = h /\ hasAllTransactions(Proposal(m))
      <4>1. Response(r, h) \notin S
        BY <1>2 DEF NodeOK, PromiseOK
      <4>2. own[r] # Nil /\ Response(r, h) = Response(r, own[r])
        BY <2>2, <2>6, <3>1, <4>1
      <4>3. h = own[r]
        BY <4>2, MessageTypes
      <4> QED BY <2>8, <4>2, <4>3
    <3> QED BY <2>4, <2>6, <3>1 DEF PromiseOK
  <2>14. HeaderOK(mev, r, d)
    BY <2>6 DEF HeaderOK
  <2>15. NodeOK(mev, lost, r, d, T)
    BY <2>6, <2>9, <2>10, <2>12, <2>13, <2>14 DEF NodeOK
  <2>16. d.responses[r] = n.responses[r] \/ d.responses[r] \in RequestPayloads
    BY <2>2, <2>4, <2>6, <2>8
  <2> QED BY <2>2, <2>15, <2>16
<1> QED BY <1>1, <1>2

\* confirm: a response is taken that is the first of its sender and does not
\* contradict the request.
LEMMA ConfirmTakes ==
    ASSUME NEW n \in NodeStates, NEW i \in Nodes, NEW h
    PROVE  \/ confirm(n, i, h).responses[i] = n.responses[i]
           \/ /\ n.responses[i] = Nil /\ confirm(n, i, h).responses[i] = h
              /\ n.request # Nil => Hash(n.request) = h
BY DEF confirm, NodeStates

\* What it takes has been sent, and keeps the invariant.
LEMMA ConfirmKeeps ==
    ASSUME NEW mev, NEW lost, NEW r \in Nodes, NEW n, NEW S, NodeOK(mev, lost, r, n, S),
           NEW i \in Nodes, NEW h \in RequestPayloads, Response(i, h) \in S,
           i # Primary, i # r
    PROVE  NodeOK(mev, lost, r, confirm(n, i, h), S)
<1> DEFINE d == confirm(n, i, h)
<1>1. n \in NodeStates
  BY DEF NodeOK
<1>2. CASE d = n
  BY <1>1, <1>2 DEF NodeStates
<1>3. CASE d # n
  <2>1. /\ n.responses[i] = Nil /\ (n.request # Nil => Hash(n.request) = h)
        /\ d = [n EXCEPT !.responses[i] = h]
    BY <1>3 DEF confirm
  <2> HIDE DEF d
  <2>2. /\ d \in NodeStates /\ d.responses = [n.responses EXCEPT ![i] = h]
        /\ d.context = n.context /\ d.request = n.request /\ d.header = n.header
        /\ d.commit = n.commit
    BY <1>1, <2>1 DEF NodeStates
  <2>3. i \in Backups
    BY DEF Nodes
  <2>4. ResponsesOK(lost, r, d, S)
    BY <1>1, <2>1, <2>2, <2>3 DEF NodeOK, ResponsesOK, NodeStates, Answered
  <2>5. ContextOK(r, d) /\ PromiseOK(r, d, S) /\ HeaderOK(mev, r, d)
    BY <1>1, <2>2 DEF NodeOK, ContextOK, PromiseOK, HeaderOK, NodeStates
  <2>6. NodeOK(mev, lost, r, d, S)
    BY <2>2, <2>4, <2>5 DEF NodeOK
  <2> QED BY <2>6 DEF d
<1> QED BY <1>2, <1>3

\* Another field of a node that the invariant does not look at.
LEMMA PreCommitsKeep ==
    ASSUME NEW mev, NEW lost, NEW r \in Nodes, NEW n, NEW S, NodeOK(mev, lost, r, n, S),
           NEW p \in [Nodes -> {Index, Nil}]
    PROVE  NodeOK(mev, lost, r, [n EXCEPT !.preCommits = p], S)
<1> DEFINE d == [n EXCEPT !.preCommits = p]
<1>1. n \in NodeStates
  BY DEF NodeOK
<1>2. /\ d \in NodeStates /\ d.responses = n.responses
      /\ d.context = n.context /\ d.request = n.request /\ d.header = n.header
      /\ d.commit = n.commit
  BY <1>1 DEF NodeStates
<1> HIDE DEF d
<1>3. /\ ContextOK(r, d) /\ PromiseOK(r, d, S) /\ HeaderOK(mev, r, d)
      /\ ResponsesOK(lost, r, d, S)
  BY <1>2 DEF NodeOK, ContextOK, PromiseOK, HeaderOK, ResponsesOK
<1>4. NodeOK(mev, lost, r, d, S)
  BY <1>2, <1>3 DEF NodeOK
<1> QED BY <1>4 DEF d

\* The responses of a recovery message are taken or left one by one; a backup
\* that is named among them has its own already.
LEMMA AnsweredKeeps ==
    ASSUME NEW mev, NEW lost, NEW r \in Nodes, NEW n, NEW S, NodeOK(mev, lost, r, n, S),
           NEW R \in SUBSET Backups, NEW h,
           \A i \in R : Restorable(lost, i, h, S)
    PROVE  LET d == [n EXCEPT !.responses =
                        [i \in Nodes |->
                            IF i \in R THEN confirm(n, i, h).responses[i] ELSE @[i]]]
           IN  /\ NodeOK(mev, lost, r, d, S)
               /\ d.responses[r] = n.responses[r]
<1> DEFINE new == [i \in Nodes |->
                       IF i \in R THEN confirm(n, i, h).responses[i] ELSE n.responses[i]]
           d == [n EXCEPT !.responses = new]
<1>1. n \in NodeStates
  BY DEF NodeOK
<1>2. ASSUME NEW i \in Nodes
      PROVE  \/ new[i] = n.responses[i]
             \/ /\ n.responses[i] = Nil /\ i \in R /\ new[i] = h /\ h \in RequestPayloads
                /\ i # r /\ Answered(i, S) /\ (~lost => Response(i, h) \in S)
                /\ n.request # Nil => Hash(n.request) = h
  <2>1. CASE i \in R
    <3>1. /\ h \in RequestPayloads /\ Answered(i, S) /\ (~lost => Response(i, h) \in S)
          /\ i = r => n.responses[i] # Nil
      BY <2>1, NilAssumption DEF NodeOK, PromiseOK, Answered, Restorable
    <3>2. new[i] = confirm(n, i, h).responses[i]
      BY <2>1
    <3>3. \/ confirm(n, i, h).responses[i] = n.responses[i]
          \/ /\ n.responses[i] = Nil /\ confirm(n, i, h).responses[i] = h
             /\ n.request # Nil => Hash(n.request) = h
      BY <1>1, ConfirmTakes
    <3> HIDE DEF new
    <3> QED BY <2>1, <3>1, <3>2, <3>3
  <2>2. CASE i \notin R
    BY <2>2
  <2> QED BY <2>1, <2>2
<1>3. new \in [Nodes -> RequestPayloads \cup {Nil}]
  <2>1. \A i \in Nodes : new[i] \in RequestPayloads \cup {Nil}
    <3> HIDE DEF new
    <3> QED BY <1>1, <1>2 DEF NodeStates
  <2> QED BY <2>1
<1> HIDE DEF new
<1>4. /\ d \in NodeStates /\ d.responses = new
      /\ d.context = n.context /\ d.request = n.request /\ d.header = n.header
      /\ d.commit = n.commit
  BY <1>1, <1>3 DEF NodeStates
<1> HIDE DEF d
<1>5. ResponsesOK(lost, r, d, S)
  <2> SUFFICES ASSUME NEW i \in Nodes, new[i] # Nil
               PROVE  /\ i \in Backups /\ Answered(i, S)
                      /\ ~lost \/ i = r => Response(i, new[i]) \in S
                      /\ (~lost \/ r \in Backups) /\ n.request # Nil =>
                            new[i] = Hash(n.request)
    BY <1>4 DEF ResponsesOK
  <2>1. CASE new[i] = n.responses[i]
    BY <2>1 DEF NodeOK, ResponsesOK
  <2>2. CASE new[i] # n.responses[i]
    BY <1>2, <2>2
  <2> QED BY <2>1, <2>2
<1>6. d.responses[r] = n.responses[r]
  BY <1>2, <1>4
<1>7. ContextOK(r, d) /\ PromiseOK(r, d, S) /\ HeaderOK(mev, r, d)
  BY <1>4, <1>6 DEF NodeOK, ContextOK, PromiseOK, HeaderOK
<1>8. NodeOK(mev, lost, r, d, S)
  BY <1>4, <1>5, <1>7 DEF NodeOK
<1> QED BY <1>6, <1>8 DEF d, new

\* A recovery message holds a request that has been made, and one hash for
\* responses that all confirm it unless the primary is lost (AddPayload).
LEMMA RecoveryGenuine ==
    ASSUME WInv, NEW s \in Nodes
    PROVE  LET rm == Transmitted(makeRecoveryMessage(node[s]))
           IN  /\ \/ rm.prepareRequest = Nil
                  \/ rm.prepareRequest \in RequestPayloads /\ Known(rm.prepareRequest, sent)
               /\ GetPrepareResponses(rm) \in SUBSET Backups
               /\ \A i \in GetPrepareResponses(rm) :
                    Restorable(restarted, i, rm.preparationHash, sent)
               /\ rm.preCommitPayloads \in [Nodes -> {Index, Nil}]
<1> DEFINE n == node[s]
           rm == Transmitted(makeRecoveryMessage(n))
<1>1. n \in NodeStates /\ NodeOK(antiMEV, restarted, s, n, sent)
  BY DEF WInv, NodeOK
<1>2. ASSUME n.request # Nil, NEW i \in Nodes, n.responses[i] # Nil
      PROVE  i \in Backups /\ Restorable(restarted, i, Hash(n.request), sent)
  <2>1. n.request \in RequestPayloads /\ Hash(n.request) \in RequestPayloads
    BY <1>1, <1>2, HashOfPayload DEF NodeStates
  <2> QED BY <1>1, <1>2, <2>1 DEF NodeOK, ResponsesOK, Restorable
<1>3. /\ rm.prepareRequest =
            IF encoded /\ n.request # Nil THEN EncodeDecode(n.request) ELSE n.request
      /\ rm.preparationHash =
            IF n.request = Nil \/ encoded THEN Nil ELSE Hash(n.request)
      /\ rm.preparationPayloads = Have(n.responses)
      /\ rm.preCommitPayloads =
            IF encoded THEN [i \in Nodes |-> Nil] ELSE n.preCommits
  BY DEF Transmitted, makeRecoveryMessage
<1> HIDE DEF rm
<1>4. n.request # Nil => n.request \in RequestPayloads /\ Known(n.request, sent)
  <2>1. n.request \in RequestPayloads \cup {Nil}
    BY <1>1 DEF NodeStates
  <2>2. n.request # Nil => Known(n.request, sent)
    BY <1>1 DEF NodeOK
  <2> QED BY <2>1, <2>2
<1>5. \/ rm.prepareRequest = Nil
      \/ rm.prepareRequest \in RequestPayloads /\ Known(rm.prepareRequest, sent)
  <2>1. CASE n.request = Nil
    BY <1>3, <2>1
  <2>2. CASE n.request # Nil
    BY <1>3, <1>4, <2>2, HashOfPayload DEF Known
  <2> QED BY <2>1, <2>2
<1>6. rm.preCommitPayloads \in [Nodes -> {Index, Nil}]
  BY <1>1, <1>3 DEF NodeStates
<1>7. ASSUME NEW i \in GetPrepareResponses(rm)
      PROVE  i \in Backups /\ Restorable(restarted, i, rm.preparationHash, sent)
  <2>1. rm.preparationHash # Nil /\ i \in Have(n.responses)
    BY <1>3, <1>7 DEF GetPrepareResponses
  <2>2. n.request # Nil /\ rm.preparationHash = Hash(n.request)
    BY <1>3, <2>1
  <2>3. i \in Nodes /\ n.responses[i] # Nil
    BY <2>1 DEF Have
  <2> QED BY <1>2, <2>2, <2>3
<1> QED BY <1>5, <1>6, <1>7 DEF rm

\* recovered: the request, the responses and the PreCommits of a recovery
\* message; the only response of the node itself that is new is the one to a
\* request it has accepted.
LEMMA RecoveredKeeps ==
    ASSUME WInv, NEW s \in Nodes, NEW r \in Backups
    PROVE  LET d == recovered(r, Transmitted(makeRecoveryMessage(node[s])))
           IN  /\ NodeOK(antiMEV, restarted, r, d, sent \cup NewResponses(r, d))
               /\ \/ d.responses[r] = node[r].responses[r]
                  \/ d.responses[r] \in RequestPayloads
<1> DEFINE n == node[r]
           rm == Transmitted(makeRecoveryMessage(node[s]))
           locked == n.commit # Nil \/ n.preCommits[r] # Nil
           asked == IF locked \/ rm.prepareRequest = Nil
                    THEN n ELSE accept(r, n, GetPrepareRequest(rm))
           R == IF locked THEN {} ELSE GetPrepareResponses(rm)
           T == IF asked.responses[r] = n.responses[r]
                THEN sent ELSE sent \cup {Response(r, asked.responses[r])}
           answered ==
              [asked EXCEPT !.responses =
                 [i \in Nodes |-> IF i \in R
                                  THEN confirm(asked, i, rm.preparationHash).responses[i]
                                  ELSE @[i]]]
           p == [i \in Nodes |->
                    IF rm.preCommitPayloads[i] = Nil
                    THEN answered.preCommits[i]
                    ELSE preCommitted(answered, i, rm.preCommitPayloads[i]).preCommits[i]]
           d == [answered EXCEPT !.preCommits = p]
<1>1. d = recovered(r, rm)
  BY DEF recovered
<1>2. r \in Nodes /\ NodeOK(antiMEV, restarted, r, n, sent)
  BY DEF WInv, Nodes
<1>3. /\ \/ rm.prepareRequest = Nil
         \/ rm.prepareRequest \in RequestPayloads /\ Known(rm.prepareRequest, sent)
      /\ GetPrepareResponses(rm) \in SUBSET Backups
      /\ \A i \in GetPrepareResponses(rm) :
            Restorable(restarted, i, rm.preparationHash, sent)
      /\ rm.preCommitPayloads \in [Nodes -> {Index, Nil}]
  BY RecoveryGenuine
<1> HIDE DEF n, rm
<1>4. rm.prepareRequest # Nil => GetPrepareRequest(rm) = rm.prepareRequest
  <2> SUFFICES ASSUME rm.prepareRequest # Nil PROVE GetPrepareRequest(rm) = rm.prepareRequest
    OBVIOUS
  <2>1. rm.prepareRequest \in RequestPayloads /\ rm.prepareRequest.timestamp \in Nat
    BY <1>3 DEF RequestPayloads
  <2>2. nanoSecToSec(secToNanoSec(rm.prepareRequest.timestamp)) = rm.prepareRequest.timestamp
    BY <2>1, SecondsSurvive
  <2> QED BY <2>1, <2>2 DEF GetPrepareRequest, RequestPayloads
<1>5. /\ NodeOK(antiMEV, restarted, r, asked, T)
      /\ \/ asked.responses[r] = n.responses[r]
         \/ n.responses[r] = Nil /\ asked.responses[r] \in RequestPayloads
  <2>1. CASE locked \/ rm.prepareRequest = Nil
    <3>1. asked = n
      BY <2>1
    <3> HIDE DEF asked
    <3> QED BY <1>2, <3>1
  <2>2. CASE ~(locked \/ rm.prepareRequest = Nil)
    <3>1. /\ asked = accept(r, n, rm.prepareRequest)
          /\ rm.prepareRequest \in RequestPayloads /\ Known(rm.prepareRequest, sent)
      BY <1>3, <1>4, <2>2
    <3> DEFINE a == accept(r, n, rm.prepareRequest)
    <3>2. /\ NodeOK(antiMEV, restarted, r, a, IF a.responses[r] = n.responses[r]
                                   THEN sent ELSE sent \cup {Response(r, a.responses[r])})
          /\ \/ a.responses[r] = n.responses[r]
             \/ n.responses[r] = Nil /\ a.responses[r] \in RequestPayloads
      BY <1>2, <3>1, AcceptKeeps
    <3> HIDE DEF asked
    <3> QED BY <3>1, <3>2
  <2> QED BY <2>1, <2>2
<1>6. R \in SUBSET Backups /\ sent \subseteq T
      /\ \A i \in R : Restorable(restarted, i, rm.preparationHash, T)
  BY <1>3 DEF Answered, Restorable
<1> HIDE DEF asked, R, T
<1>7. /\ NodeOK(antiMEV, restarted, r, answered, T)
      /\ answered.responses[r] = asked.responses[r]
  BY <1>2, <1>5, <1>6, AnsweredKeeps
<1> HIDE DEF answered
<1>8. p \in [Nodes -> {Index, Nil}]
  <2>1. answered \in NodeStates
    BY <1>7 DEF NodeOK
  <2>2. ASSUME NEW i \in Nodes, NEW v \in {Index, Nil}
        PROVE  preCommitted(answered, i, v).preCommits[i] \in {Index, Nil}
    BY <2>1 DEF preCommitted, NodeStates
  <2>3. \A i \in Nodes : answered.preCommits[i] \in {Index, Nil}
    BY <2>1 DEF NodeStates
  <2> QED BY <1>3, <2>2, <2>3
<1> HIDE DEF p
<1>9. NodeOK(antiMEV, restarted, r, d, T)
  BY <1>2, <1>7, <1>8, PreCommitsKeep
<1>10. d.responses = answered.responses
  <2>1. answered \in NodeStates
    BY <1>7 DEF NodeOK
  <2> QED BY <2>1 DEF NodeStates
<1> HIDE DEF d
<1>11. sent \cup NewResponses(r, d) = T
  <2>1. CASE asked.responses[r] # n.responses[r]
    <3>1. asked.responses[r] \in RequestPayloads /\ asked.responses[r] # Nil
      BY <1>5, <2>1, NilAssumption
    <3>2. d.responses[r] = asked.responses[r]
      BY <1>7, <1>10, <3>1
    <3>3. NewResponses(r, d) = {Response(r, asked.responses[r])}
      BY <2>1, <3>2 DEF NewResponses, Response, n
    <3> QED BY <2>1, <3>3 DEF T
  <2>2. CASE asked.responses[r] = n.responses[r]
    <3>1. T = sent /\ d.responses[r] = n.responses[r]
      BY <1>7, <1>10, <2>2 DEF T
    <3>2. NewResponses(r, d) = {}
      BY <3>1 DEF NewResponses, n
    <3> QED BY <3>1, <3>2
  <2> QED BY <2>1, <2>2
<1>12. d.responses[r] = n.responses[r] \/ d.responses[r] \in RequestPayloads
  BY <1>5, <1>6, <1>7, <1>10
<1> QED BY <1>1, <1>9, <1>11, <1>12 DEF n, rm

-----------------------------------------------------------------------------
(* Headers.                                                                 *)

\* With the extension on and M PreCommits, nodes that have the PreCommits of
\* different validators build one block of one request (NewAMEVBlock).
LEMMA HeaderOfRequest ==
    ASSUME NEW r, NEW n, NEW S, NodeOK(antiMEV, restarted, r, n, S), antiMEV \in BOOLEAN,
           n.request # Nil, MakeHeader(n) # Nil,
           antiMEV => Cardinality(Have(n.preCommits)) >= M
    PROVE  /\ n.request.transactionHashes # Nil
           /\ MakeHeader(n) = Expected(antiMEV, n.request)
           /\ MakeHeader(n) \in Headers
<1> DEFINE c == n.context
           m == n.request
<1>1. /\ c.TransactionHashes # Nil
      /\ MakeHeader(n) = IF antiMEV THEN NewAMEVBlock(c, n.preCommits) ELSE NewBlock(c)
  BY DEF MakeHeader, newBlockFromContext
<1>2. /\ n \in NodeStates /\ m \in RequestPayloads
      /\ c.Timestamp \div Second = m.timestamp /\ c.Nonce = m.nonce
      /\ c.TransactionHashes = m.transactionHashes
  BY DEF NodeOK, NodeStates, ContextOK, nanoSecToSec
<1>3. m.timestamp \in Nat /\ m.nonce \in Nat /\ m.transactionHashes \in Seq(Int)
  BY <1>1, <1>2 DEF RequestPayloads
<1>4. CASE ~antiMEV
  <2>1. MakeHeader(n) = Expected(antiMEV, m)
    BY <1>1, <1>2, <1>4 DEF NewBlock, Expected
  <2>2. Expected(antiMEV, m) \in Headers
    BY <1>3, <1>4, NumbersAssumption DEF Expected, Headers, Roots
  <2> QED BY <1>1, <1>2, <2>1, <2>2
<1>5. CASE antiMEV
  <2> DEFINE p == n.preCommits
             tx == -1 - M * Index
  <2>1. \A i \in FirstM(p) : p[i] = Index
    BY <1>2 DEF FirstM, Have, NodeStates
  <2>2. IsFiniteSet(FirstM(p)) /\ Cardinality(FirstM(p)) = M
    BY <1>5, FirstMSize
  <2>3. SumFunctionOnSet(p, FirstM(p)) = M * Index
    BY <2>1, <2>2, SumOfEqual
  <2>4. NewAMEVBlock(c, p) =
            [NewBlock(c) EXCEPT !.MerkleRoot = MerkleRoot(Append(c.TransactionHashes, tx))]
    BY <2>3 DEF NewAMEVBlock
  <2>5. MakeHeader(n) = Expected(antiMEV, m)
    BY <1>1, <1>2, <1>5, <2>4 DEF NewBlock, Expected
  <2>6. tx \in Int
    BY NumbersAssumption
  <2>7. Append(m.transactionHashes, tx) \in Seq(Int)
    BY <1>3, <2>6
  <2>8. Expected(antiMEV, m) \in Headers
    <3> HIDE DEF tx
    <3>1. MerkleRoot(Append(m.transactionHashes, tx)) \in Roots
      BY <2>7 DEF Roots
    <3> QED BY <1>3, <1>5, <3>1, NumbersAssumption DEF Expected, Headers, tx
  <2> QED BY <1>1, <1>2, <2>5, <2>8
<1> QED BY <1>4, <1>5

-----------------------------------------------------------------------------
(* The steps.                                                               *)

\* When node r becomes d, what the others keep still holds.
LEMMA StepOfNode ==
    ASSUME WInv, NEW r \in Nodes, NEW d, NEW X \in SUBSET Messages,
           node' = [node EXCEPT ![r] = d], sent' = sent \cup X,
           UNCHANGED <<encoded, antiMEV>>, restarted' \in {restarted, TRUE},
           NodeOK(antiMEV, restarted', r, d, sent \cup X),
           \A q, h : Response(q, h) \in X => q = r,
           restarted' \/ RequestsOf(X) = {} \/ (r = Primary /\ d.request # Nil),
           restarted' \/ r # Primary \/ node[r].request = Nil \/ d.request # Nil
    PROVE  WInv'
<1>1. sent' \subseteq Messages
  BY DEF WInv
<1>2. DOMAIN node' = Nodes /\ node' = [q \in Nodes |-> node'[q]]
  BY DEF WInv
<1>3. ASSUME NEW q \in Nodes PROVE NodeOK(antiMEV, restarted', q, node'[q], sent \cup X)
  <2>1. CASE q = r
    BY <2>1 DEF WInv
  <2>2. CASE q # r
    <3>1. node'[q] = node[q] /\ NodeOK(antiMEV, restarted, q, node[q], sent)
      BY <2>2 DEF WInv
    <3>2. \A h \in RequestPayloads : Response(q, h) \in sent \cup X => Response(q, h) \in sent
      BY <2>2
    <3>3. restarted \in BOOLEAN /\ restarted' \in BOOLEAN /\ (restarted => restarted')
      BY DEF WInv
    <3>4. NodeOK(antiMEV, restarted', q, node[q], sent \cup X)
      <4> HIDE DEF WInv
      <4> QED BY <3>1, <3>2, <3>3, NodeElsewhere
    <3> QED BY <3>1, <3>4
  <2> QED BY <2>1, <2>2
<1>4. restarted' \/ node'[Primary].request # Nil \/ RequestsOf(sent \cup X) = {}
  <2>1. CASE restarted' \/ (r = Primary /\ d.request # Nil)
    BY <2>1 DEF WInv
  <2>2. CASE ~(restarted' \/ (r = Primary /\ d.request # Nil))
    <3>1. ~restarted /\ RequestsOf(X) = {} /\ node'[Primary].request = node[Primary].request
      BY <2>2, NodesFinite DEF WInv
    <3>2. RequestsOf(sent \cup X) = RequestsOf(sent) \cup RequestsOf(X)
      BY DEF RequestsOf
    <3> QED BY <3>1, <3>2 DEF WInv
  <2> QED BY <2>1, <2>2
<1>5. restarted' \in BOOLEAN
  BY DEF WInv
<1> QED BY <1>1, <1>2, <1>3, <1>4, <1>5 DEF WInv

LEMMA StepOfBecomes ==
    ASSUME WInv, NEW r \in Nodes, NEW d, Becomes(r, d),
           NodeOK(antiMEV, restarted, r, d, sent \cup NewResponses(r, d)),
           d.responses[r] = node[r].responses[r] \/ d.responses[r] \in RequestPayloads,
           r # Primary \/ node[r].request = Nil \/ d.request # Nil
    PROVE  WInv'
<1>1. NewResponses(r, d) \in SUBSET Messages
  BY DEF NewResponses, Messages, Response
<1>2. ASSUME NEW q, NEW h, Response(q, h) \in NewResponses(r, d) PROVE q = r
  <2>1. Response(q, h) = Response(r, d.responses[r])
    BY <1>2 DEF NewResponses, Response
  <2> QED BY <2>1, MessageTypes
<1>3. /\ node' = [node EXCEPT ![r] = d] /\ sent' = sent \cup NewResponses(r, d)
      /\ UNCHANGED <<encoded, antiMEV, restarted>>
  BY DEF Becomes
<1>4. RequestsOf(NewResponses(r, d)) = {}
  BY DEF RequestsOf, NewResponses
<1> QED BY <1>1, <1>2, <1>3, <1>4, StepOfNode

LEMMA NewNodeOK ==
    ASSUME NEW mev, NEW lost, NEW r \in Nodes, NEW S, r \in Backups => \A h : Response(r, h) \notin S
    PROVE  NodeOK(mev, lost, r, NewNode, S)
<1>1. NewNode \in NodeStates
  BY DEF NewNode, NodeStates
<1> QED BY <1>1 DEF NodeOK, NewNode, ContextOK, ResponsesOK, PromiseOK, HeaderOK

LEMMA InitStep == Init => WInv
<1> SUFFICES ASSUME Init PROVE WInv
  OBVIOUS
<1>1. \A r \in Nodes : NodeOK(antiMEV, restarted, r, NewNode, {})
  BY NewNodeOK
<1> QED BY <1>1 DEF Init, WInv, RequestsOf

LEMMA ProposeStep ==
    ASSUME WInv, NEW c \in Fills, Propose(c)
    PROVE  WInv'
<1> DEFINE n == node[Primary]
           msg == NewPrepareRequest(c)
           d == [n EXCEPT !.context = c, !.request = msg]
           S == sent \cup {msg}
<1>1. /\ Primary \in Nodes /\ n \in NodeStates /\ NodeOK(antiMEV, restarted, Primary, n, sent)
      /\ Primary \notin Backups
  BY NodesFinite, ValidatorsAssumption DEF WInv, NodeOK
<1>2. c \in Contexts /\ c # Nil /\ msg \in RequestPayloads /\ msg # Nil
  BY ProposalOfRequest, FillsAssumption, NilAssumption
<1>3. /\ n.request = Nil /\ node' = [node EXCEPT ![Primary] = d] /\ sent' = S
      /\ UNCHANGED <<encoded, antiMEV, restarted>>
  BY DEF Propose, WInv
<1>4. /\ nanoSecToSec(c.Timestamp) = msg.timestamp /\ c.Nonce = msg.nonce
      /\ c.TransactionHashes = msg.transactionHashes
  BY DEF NewPrepareRequest
<1>5. n.header = Nil /\ n.commit = Nil
  BY <1>1, <1>3 DEF NodeOK, HeaderOK
<1>6. Known(msg, S)
  BY <1>2, MessageTypes DEF Known, RequestsOf
<1> HIDE DEF msg, n
<1>7. /\ d \in NodeStates /\ d.context = c /\ d.request = msg
      /\ d.responses = n.responses /\ d.header = Nil /\ d.commit = Nil
  BY <1>1, <1>2, <1>5 DEF NodeStates
<1> HIDE DEF d
<1>8. ContextOK(Primary, d) /\ PromiseOK(Primary, d, S) /\ HeaderOK(antiMEV, Primary, d)
  BY <1>1, <1>2, <1>4, <1>7 DEF ContextOK, PromiseOK, HeaderOK
<1>9. ResponsesOK(restarted, Primary, d, S)
  <2>1. ASSUME ~restarted, NEW i \in Nodes PROVE n.responses[i] = Nil
    <3>1. ASSUME n.responses[i] # Nil PROVE FALSE
      <4>1. i \in Backups /\ Answered(i, sent) /\ NodeOK(antiMEV, restarted, i, node[i], sent)
        BY <1>1, <3>1 DEF NodeOK, ResponsesOK, WInv
      <4>2. Known(node[i].request, sent)
        BY <4>1 DEF NodeOK, PromiseOK, Answered
      <4>3. RequestsOf(sent) = {}
        BY <1>3, <2>1 DEF WInv, n
      <4> QED BY <4>2, <4>3 DEF Known
    <3> QED BY <3>1
  <2> QED BY <1>1, <1>7, <2>1 DEF NodeOK, ResponsesOK, Answered
<1>10. NodeOK(antiMEV, restarted, Primary, d, S)
  BY <1>6, <1>7, <1>8, <1>9 DEF NodeOK
<1>11. {msg} \in SUBSET Messages /\ \A q, h : Response(q, h) \in {msg} => q = Primary
  BY <1>2, MessageTypes DEF Messages
<1> QED BY <1>1, <1>2, <1>3, <1>7, <1>10, <1>11, StepOfNode

LEMMA EquivocateStep ==
    ASSUME WInv, NEW c \in Fills, Equivocate(c)
    PROVE  WInv'
<1> DEFINE n == node[Primary]
           msg == NewPrepareRequest(c)
           S == sent \cup {msg}
<1>1. /\ Primary \in Nodes /\ NodeOK(antiMEV, restarted, Primary, n, sent)
      /\ restarted \in BOOLEAN /\ node = [node EXCEPT ![Primary] = n]
  BY NodesFinite, ValidatorsAssumption DEF WInv
<1>2. msg \in RequestPayloads
  BY ProposalOfRequest, FillsAssumption
<1>3. /\ n.request # Nil /\ node' = node /\ sent' = S
      /\ UNCHANGED <<encoded, antiMEV, restarted>>
  BY DEF Equivocate
<1>4. {msg} \in SUBSET Messages /\ \A q, h : Response(q, h) \notin {msg}
  BY <1>2, MessageTypes DEF Messages
<1> HIDE DEF msg, n
<1>5. NodeOK(antiMEV, restarted, Primary, n, S)
  BY <1>1, <1>4, NodeElsewhere
<1> QED BY <1>1, <1>3, <1>4, <1>5, StepOfNode

LEMMA RestartStep ==
    ASSUME WInv, Restart
    PROVE  WInv'
<1>1. Primary \in Nodes /\ NodeOK(antiMEV, TRUE, Primary, NewNode, sent \cup {})
  BY NodesFinite, ValidatorsAssumption, NewNodeOK
<1>2. /\ node' = [node EXCEPT ![Primary] = NewNode] /\ sent' = sent \cup {}
      /\ UNCHANGED <<encoded, antiMEV>> /\ restarted' = TRUE
  BY DEF Restart
<1>3. {} \in SUBSET Messages /\ \A q, h : Response(q, h) \in {} => q = Primary
  OBVIOUS
<1> QED BY <1>1, <1>2, <1>3, StepOfNode

LEMMA DeliverStep ==
    ASSUME WInv, NEW r \in Nodes, NEW msg \in sent, Deliver(msg, r)
    PROVE  WInv'
<1> DEFINE n == node[r]
<1>1. n \in NodeStates /\ NodeOK(antiMEV, restarted, r, n, sent) /\ msg \in Messages /\ msg.from # r
  BY DEF WInv, NodeOK, Deliver
<1>2. CASE msg \in RequestPayloads
  <2> DEFINE m == Received(msg)
             d == accept(r, n, m)
  <2>1. r \in Backups /\ msg.type = "PrepareRequest"
    BY <1>1, <1>2, MessageTypes DEF Nodes
  <2>2. Becomes(r, d)
    BY <2>1 DEF Deliver
  <2>3. m \in RequestPayloads /\ Hash(m) = Hash(msg)
    BY <1>2, HashOfPayload DEF Received
  <2>4. Known(m, sent)
    BY <2>1, <2>3 DEF Known, RequestsOf
  <2> HIDE DEF m, n
  <2>5. /\ NodeOK(antiMEV, restarted, r, d, IF d.responses[r] = n.responses[r]
                                  THEN sent ELSE sent \cup {Response(r, d.responses[r])})
        /\ \/ d.responses[r] = n.responses[r]
           \/ n.responses[r] = Nil /\ d.responses[r] \in RequestPayloads
    BY <1>1, <2>1, <2>3, <2>4, AcceptKeeps
  <2> HIDE DEF d
  <2>6. sent \cup NewResponses(r, d) =
          IF d.responses[r] = n.responses[r]
          THEN sent ELSE sent \cup {Response(r, d.responses[r])}
    BY <2>1 DEF NewResponses, Response, n
  <2>7. NodeOK(antiMEV, restarted, r, d, sent \cup NewResponses(r, d))
    BY <2>5, <2>6
  <2>8. d.responses[r] = node[r].responses[r] \/ d.responses[r] \in RequestPayloads
    BY <2>5 DEF n
  <2>9. r # Primary
    BY <2>1, ValidatorsAssumption
  <2> QED BY <2>2, <2>7, <2>8, <2>9, StepOfBecomes
<1>3. ASSUME NEW i \in Backups, NEW h \in RequestPayloads, msg = Response(i, h)
      PROVE  WInv'
  <2> DEFINE d == confirm(n, i, h)
  <2>1. msg.type = "PrepareResponse" /\ msg.from = i /\ msg.preparationHash = h
    BY <1>3, MessageTypes
  <2>2. Becomes(r, d)
    BY <2>1 DEF Deliver
  <2>3. i \in Nodes /\ i # Primary /\ i # r /\ Response(i, h) \in sent
    BY <1>1, <1>3, <2>1, ValidatorsAssumption DEF Nodes
  <2>4. NodeOK(antiMEV, restarted, r, d, sent)
    BY <1>1, <2>3, ConfirmKeeps
  <2>5. d.responses[r] = n.responses[r] /\ d.request = n.request
    BY <1>1, <2>3 DEF confirm, NodeStates
  <2>6. NewResponses(r, d) = {}
    BY <2>5 DEF NewResponses
  <2> HIDE DEF d
  <2>7. NodeOK(antiMEV, restarted, r, d, sent \cup NewResponses(r, d))
    BY <2>4, <2>6
  <2> QED BY <2>2, <2>5, <2>7, StepOfBecomes
<1>4. CASE msg \in PreCommits
  <2> DEFINE d == preCommitted(n, msg.from, msg.data)
  <2>1. msg.type = "PreCommit" /\ msg.data = Index /\ msg.from \in Nodes
    BY <1>4 DEF PreCommits
  <2>2. Becomes(r, d)
    BY <2>1 DEF Deliver
  <2>3. \E p \in [Nodes -> {Index, Nil}] : d = [n EXCEPT !.preCommits = p]
    <3>1. CASE d = n
      <4>1. n.preCommits \in [Nodes -> {Index, Nil}] /\ n = [n EXCEPT !.preCommits = n.preCommits]
        BY <1>1 DEF NodeStates
      <4> QED BY <3>1, <4>1
    <3>2. CASE d # n
      <4> DEFINE p == [n.preCommits EXCEPT ![msg.from] = Index]
      <4>1. d = [n EXCEPT !.preCommits[msg.from] = Index]
        BY <2>1, <3>2 DEF preCommitted
      <4>2. p \in [Nodes -> {Index, Nil}]
        BY <1>1, <2>1 DEF NodeStates
      <4>3. d = [n EXCEPT !.preCommits = p]
        BY <4>1
      <4> QED BY <4>2, <4>3
    <3> QED BY <3>1, <3>2
  <2> HIDE DEF d
  <2>4. PICK p \in [Nodes -> {Index, Nil}] : d = [n EXCEPT !.preCommits = p]
    BY <2>3
  <2>5. NodeOK(antiMEV, restarted, r, d, sent)
    BY <1>1, <2>4, PreCommitsKeep
  <2>6. d.responses[r] = n.responses[r] /\ d.request = n.request
    BY <1>1, <2>4 DEF NodeStates
  <2>7. NewResponses(r, d) = {}
    BY <2>6 DEF NewResponses
  <2>8. NodeOK(antiMEV, restarted, r, d, sent \cup NewResponses(r, d))
    BY <2>5, <2>7
  <2> QED BY <2>2, <2>6, <2>8, StepOfBecomes
<1> QED BY <1>1, <1>2, <1>3, <1>4 DEF Messages

LEMMA SendPreCommitStep ==
    ASSUME WInv, NEW r \in Nodes, SendPreCommit(r)
    PROVE  WInv'
<1> DEFINE n == node[r]
           msg == [type |-> "PreCommit", from |-> r, data |-> SetData]
           p == [n.preCommits EXCEPT ![r] = Index]
           d == [n EXCEPT !.preCommits = p]
<1>1. n \in NodeStates /\ NodeOK(antiMEV, restarted, r, n, sent)
  BY DEF WInv, NodeOK
<1>2. /\ node' = [node EXCEPT ![r].preCommits[r] = Index] /\ sent' = sent \cup {msg}
      /\ UNCHANGED <<encoded, antiMEV, restarted>>
  BY DEF SendPreCommit, SetData
<1>3. node' = [node EXCEPT ![r] = d]
  BY <1>2 DEF WInv
<1>4. msg \in PreCommits
  BY DEF PreCommits, SetData
<1>5. /\ p \in [Nodes -> {Index, Nil}] /\ d.request = n.request
      /\ restarted \in BOOLEAN /\ RequestsOf({msg}) = {}
  BY <1>1 DEF NodeStates, RequestsOf, WInv
<1> HIDE DEF msg, p, n
<1>6. NodeOK(antiMEV, restarted, r, d, sent)
  BY <1>1, <1>5, PreCommitsKeep
<1> HIDE DEF d
<1>7. \A q, h : Response(q, h) \notin {msg}
  BY <1>4, MessageTypes
<1>8. NodeOK(antiMEV, restarted, r, d, sent \cup {msg})
  BY <1>5, <1>6, <1>7, NodeElsewhere
<1>9. {msg} \in SUBSET Messages
  BY <1>4 DEF Messages
<1> QED BY <1>2, <1>3, <1>5, <1>7, <1>8, <1>9, StepOfNode DEF n

LEMMA SendCommitStep ==
    ASSUME WInv, NEW r \in Nodes, SendCommit(r)
    PROVE  WInv'
<1> DEFINE n == node[r]
           header == MakeHeader(n)
           d == [n EXCEPT !.header = header, !.commit = Sign(r, header)]
<1>1. n \in NodeStates /\ NodeOK(antiMEV, restarted, r, n, sent) /\ antiMEV \in BOOLEAN
  BY DEF WInv, NodeOK
<1>2. /\ n.request # Nil /\ header # Nil
      /\ antiMEV => Cardinality(Have(n.preCommits)) >= M
      /\ node' = [node EXCEPT ![r].header = header, ![r].commit = Sign(r, header)]
      /\ UNCHANGED <<encoded, antiMEV, sent, restarted>>
  BY DEF SendCommit
<1>3. node' = [node EXCEPT ![r] = d]
  BY <1>2 DEF WInv
<1>4. /\ n.request.transactionHashes # Nil /\ header \in Headers
      /\ header = Expected(antiMEV, n.request)
  BY <1>1, <1>2, HeaderOfRequest
<1>5. Sign(r, header) \in [by : Nodes, data : Headers]
  BY <1>4 DEF Sign
<1> HIDE DEF header, n
<1>6. /\ d \in NodeStates /\ d.context = n.context /\ d.request = n.request
      /\ d.responses = n.responses /\ d.header = header /\ d.commit = Sign(r, header)
  BY <1>1, <1>4, <1>5 DEF NodeStates
<1> HIDE DEF d
<1>7. /\ ContextOK(r, d) /\ ResponsesOK(restarted, r, d, sent) /\ PromiseOK(r, d, sent)
      /\ d.request # Nil => Known(d.request, sent)
  BY <1>1, <1>6 DEF NodeOK, ContextOK, ResponsesOK, PromiseOK
<1>8. HeaderOK(antiMEV, r, d)
  BY <1>2, <1>4, <1>6 DEF HeaderOK
<1>9. NodeOK(antiMEV, restarted, r, d, sent \cup {}) /\ sent' = sent \cup {}
  BY <1>2, <1>6, <1>7, <1>8 DEF NodeOK
<1>10. /\ {} \in SUBSET Messages /\ RequestsOf({}) = {}
       /\ \A q, h : Response(q, h) \in {} => q = r
  BY DEF RequestsOf
<1> QED BY <1>2, <1>3, <1>6, <1>9, <1>10, StepOfNode

LEMMA RecoverStep ==
    ASSUME WInv, NEW s \in Nodes, NEW r \in Backups, Recover(s, r)
    PROVE  WInv'
<1> DEFINE d == recovered(r, Transmitted(makeRecoveryMessage(node[s])))
<1>1. Becomes(r, d) /\ r \in Nodes /\ r # Primary
  BY ValidatorsAssumption DEF Recover, Nodes
<1>2. /\ NodeOK(antiMEV, restarted, r, d, sent \cup NewResponses(r, d))
      /\ d.responses[r] = node[r].responses[r] \/ d.responses[r] \in RequestPayloads
  BY <1>1, RecoveredKeeps
<1> HIDE DEF d
<1> QED BY <1>1, <1>2, StepOfBecomes

\* The invariant of Wire.
THEOREM WInvariant == Spec => []WInv
<1>1. Init => WInv
  BY InitStep
<1>2. WInv /\ [Next]_vars => WInv'
  <2> SUFFICES ASSUME WInv, [Next]_vars PROVE WInv'
    OBVIOUS
  <2>1. antiMEV \in BOOLEAN /\ Live[antiMEV] \subseteq Nodes
    BY ValidatorsAssumption DEF WInv
  <2>2. ASSUME NEW c \in Fills, Propose(c) PROVE WInv'
    BY <2>2, ProposeStep
  <2>9. ASSUME NEW c \in Fills, Equivocate(c) PROVE WInv'
    BY <2>9, EquivocateStep
  <2>3. CASE Restart
    BY <2>3, RestartStep
  <2>4. ASSUME NEW r \in Live[antiMEV], NEW msg \in sent, Deliver(msg, r) PROVE WInv'
    BY <2>1, <2>4, DeliverStep
  <2>5. ASSUME NEW r \in Live[antiMEV], SendPreCommit(r) PROVE WInv'
    BY <2>1, <2>5, SendPreCommitStep
  <2>6. ASSUME NEW r \in Live[antiMEV], SendCommit(r) PROVE WInv'
    BY <2>1, <2>6, SendCommitStep
  <2>7. ASSUME NEW s \in Live[antiMEV], NEW r \in Backups \cap Live[antiMEV], Recover(s, r)
        PROVE  WInv'
    BY <2>1, <2>7, RecoverStep
  <2>8. CASE UNCHANGED vars
    BY <2>8 DEF vars, WInv
  <2> QED BY <2>2, <2>3, <2>4, <2>5, <2>6, <2>7, <2>8, <2>9 DEF Next
<1> QED BY <1>1, <1>2, PTL DEF Spec

-----------------------------------------------------------------------------
(* What the conversions keep, for every context the primary may fill, every *)
(* number of validators, and PreCommits of any of them.                     *)

\* The types of what a node keeps, and that what it has signed is its header.
THEOREM PayloadTypes == Spec => []TypeOK
<1>1. WInv => TypeOK
  <2> SUFFICES ASSUME WInv PROVE TypeOK
    OBVIOUS
  <2>1. ASSUME NEW r \in Nodes
        PROVE  /\ node[r].request \in RequestPayloads \cup {Nil}
               /\ node[r].request = Nil <=> node[r].context = Nil
               /\ IF node[r].header = Nil
                  THEN node[r].commit = Nil
                  ELSE node[r].commit = Sign(r, node[r].header)
               /\ \A i \in Nodes : node[r].preCommits[i] \in {Index, Nil}
    BY DEF WInv, NodeOK, NodeStates, ContextOK, HeaderOK
  <2>2. RequestsOf(sent) \subseteq RequestPayloads
    <3>1. ASSUME NEW m \in sent, m.type = "PrepareRequest" PROVE m \in RequestPayloads
      BY <3>1, MessageTypes DEF WInv, Messages
    <3> QED BY <3>1 DEF RequestsOf
  <2> QED BY <2>1, <2>2 DEF WInv, TypeOK
<1> QED BY <1>1, WInvariant, PTL

\* A request has one hash wherever it has travelled, directly, as bytes or in
\* recovery messages (Hash, EncodeBinary, GetPrepareRequest).
THEOREM OneHash == Spec => []RequestsKeepTheirHash
<1>1. WInv => RequestsKeepTheirHash
  BY DEF WInv, NodeOK, Known, RequestsKeepTheirHash
<1> QED BY <1>1, WInvariant, PTL

\* As long as the primary has not restarted no node keeps a response that its
\* sender has not made, restored from recovery messages or not, although the
\* primary may have sent several requests (GetPrepareResponses).
THEOREM ResponsesAreGenuine == Spec => []ResponsesGenuine
<1>1. WInv => ResponsesGenuine
  BY DEF WInv, NodeOK, ResponsesOK, Response, ResponsesGenuine
<1> QED BY <1>1, WInvariant, PTL

\* Whoever has committed to the same request, with PreCommits of whomever,
\* has signed what the others verify (NewBlock, NewAMEVBlock, Sign, Verify).
THEOREM SignaturesAreVerified == Spec => []SignaturesVerify
<1>1. WInv => SignaturesVerify
  <2> SUFFICES ASSUME WInv, NEW r \in Nodes, NEW s \in Nodes,
                      node[r].header # Nil, node[s].header # Nil,
                      Hash(node[r].request) = Hash(node[s].request)
               PROVE  VerifySignature(s, node[r].header, node[s].commit)
    BY DEF SignaturesVerify
  <2>1. ASSUME NEW q \in Nodes, node[q].header # Nil
        PROVE  /\ node[q].request \in RequestPayloads
               /\ node[q].request.transactionHashes # Nil
               /\ node[q].header = Expected(antiMEV, node[q].request)
               /\ node[q].commit = Sign(q, node[q].header)
    BY <2>1 DEF WInv, NodeOK, NodeStates, HeaderOK
  <2> DEFINE m == node[r].request
             k == node[s].request
  <2>2. /\ m.timestamp = k.timestamp /\ m.nonce = k.nonce
        /\ m.transactionHashes = k.transactionHashes
    BY <2>1, HashTells
  <2>3. Expected(antiMEV, m) = Expected(antiMEV, k)
    BY <2>2 DEF Expected
  <2> QED BY <2>1, <2>3 DEF VerifySignature
<1> QED BY <1>1, WInvariant, PTL

\* No two requests that are both answered lead to one header, however long
\* their lists are: a list is told by its Merkle root when no hash is repeated,
\* and one that repeats a hash is never complete (buildTree, hasAllTransactions).
THEOREM HeadersTell == Spec => []HeadersTellRequests
<1>1. WInv => HeadersTellRequests
  <2> SUFFICES ASSUME WInv, NEW r \in Backups, NEW s \in Backups,
                      node[r].responses[r] # Nil, node[s].responses[s] # Nil,
                      newBlockFromContext(node[r].context) = newBlockFromContext(node[s].context),
                      newBlockFromContext(node[r].context) # Nil
               PROVE  Hash(node[r].request) = Hash(node[s].request)
    BY DEF HeadersTellRequests
  <2>1. ASSUME NEW q \in Backups, node[q].responses[q] # Nil,
               newBlockFromContext(node[q].context) # Nil
        PROVE  LET c == node[q].context
                   m == node[q].request
               IN  /\ m \in RequestPayloads /\ m.transactionHashes \in Seq(Int)
                   /\ c.TransactionHashes = m.transactionHashes
                   /\ c.Timestamp \div Second = m.timestamp /\ c.Nonce = m.nonce
                   /\ Distinct(m.transactionHashes)
                   /\ newBlockFromContext(c) = NewBlock(c)
    <3> DEFINE n == node[q]
    <3>1. q \in Nodes /\ n \in NodeStates /\ NodeOK(antiMEV, restarted, q, n, sent)
      BY DEF WInv, NodeOK, Nodes
    <3>2. n.responses[q] \in RequestPayloads /\ Response(q, n.responses[q]) \in sent
      BY <2>1, <3>1 DEF NodeOK, NodeStates, ResponsesOK
    <3>3. n.request # Nil /\ hasAllTransactions(n.context)
      BY <3>1, <3>2 DEF NodeOK, PromiseOK
    <3>4. n.context.TransactionHashes # Nil /\ newBlockFromContext(n.context) = NewBlock(n.context)
      BY <2>1 DEF newBlockFromContext
    <3>5. /\ n.request \in RequestPayloads
          /\ n.context.TransactionHashes = n.request.transactionHashes
          /\ n.context.Timestamp \div Second = n.request.timestamp
          /\ n.context.Nonce = n.request.nonce
      BY <3>1, <3>3 DEF NodeStates, NodeOK, ContextOK, nanoSecToSec
    <3>6. n.request.transactionHashes \in Seq(Int)
      BY <3>4, <3>5 DEF RequestPayloads
    <3>7. Hashes(n.context) = n.request.transactionHashes
      BY <3>4, <3>5 DEF Hashes
    <3>8. Distinct(n.request.transactionHashes)
      BY <3>3, <3>6, <3>7, AllTransactionsDistinct
    <3> QED BY <3>4, <3>5, <3>6, <3>8
  <2> DEFINE m == node[r].request
             k == node[s].request
  <2>2. /\ m \in RequestPayloads /\ k \in RequestPayloads
        /\ m.timestamp = k.timestamp /\ m.nonce = k.nonce
        /\ MerkleRoot(m.transactionHashes) = MerkleRoot(k.transactionHashes)
    <3>1. NewBlock(node[r].context) = NewBlock(node[s].context)
      BY <2>1
    <3> QED BY <2>1, <3>1 DEF NewBlock
  <2>3. m.transactionHashes = k.transactionHashes
    BY <2>1, <2>2, MerkleRootInjective
  <2>4. m = k
    BY <2>2, <2>3 DEF RequestPayloads
  <2> QED BY <2>4
<1> QED BY <1>1, WInvariant, PTL
=============================================================================
