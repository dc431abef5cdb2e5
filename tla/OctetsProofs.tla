---------------------------- MODULE OctetsProofs ----------------------------
(***************************************************************************)
(* Lemmas about the operators of Octets that hold of byte strings of any   *)
(* length.  The sums are folds, so most of them need induction, which is   *)
(* stated here for sets of numbers: the library states it for predicates,  *)
(* that is, with an operator as a parameter.                               *)
(***************************************************************************)
EXTENDS Octets, SequencesExt, FiniteSetTheorems, WellFoundedInduction, TLAPS

(* A set of numbers that is not empty has a least element.                 *)
LEMMA LeastNumber ==
  ASSUME NEW T \in SUBSET Nat, T # {}
  PROVE  \E m \in T : \A n \in T : m <= n
<1>1. PICK m \in T : \A n \in T : ~(<<n, m>> \in OpToRel(<, Nat))
  BY WFMin, NatLessThanWellFounded
<1>2. \A n \in T : ~(n < m)
  BY <1>1 DEF OpToRel
<1>3. \A n \in T : m <= n
  <2> TAKE n \in T
  <2>1. m \in Nat /\ n \in Nat
    OBVIOUS
  <2>2. ~(n < m)
    BY <1>2
  <2>3. QED
    BY <2>1, <2>2
<1>4. QED
  BY <1>3

(* A set with zero and the successor of each of its elements has them all. *)
LEMMA Induction ==
  ASSUME NEW T \in SUBSET Nat, 0 \in T, \A n \in T : n + 1 \in T
  PROVE  T = Nat
<1>1. SUFFICES ASSUME Nat \ T # {}
               PROVE  FALSE
  OBVIOUS
<1>2. PICK m \in Nat \ T : \A n \in Nat \ T : m <= n
  BY <1>1, LeastNumber
<1>3. m # 0
  OBVIOUS
<1>4. m - 1 \in T
  BY <1>2, <1>3
<1>5. (m - 1) + 1 = m
  BY <1>2
<1>6. QED
  BY <1>2, <1>4, <1>5

-----------------------------------------------------------------------------
(* The sum of a function over a set, as the community modules define it:   *)
(* in whatever order CHOOSE yields the elements.                           *)
Chosen(s) == CHOOSE x \in s : TRUE
AddsUp(f, w, S) ==
    f = [s \in SUBSET S |->
            IF s = {} THEN 0 ELSE w[Chosen(s)] + f[s \ {Chosen(s)}]]

(* The definition of the sum, unfolded once                                *)
LEMMA SumIsChosen ==
  ASSUME NEW w
  PROVE  SumFunction(w) = (CHOOSE f : AddsUp(f, w, DOMAIN w))[DOMAIN w]
BY Zenon DEF SumFunction, SumFunctionOnSet, FoldFunctionOnSet, MapThenFoldSet, AddsUp, Chosen

(* A set of indices without one of its elements                            *)
LEMMA OneLess ==
  ASSUME NEW S, IsFiniteSet(S), NEW s \in SUBSET S, NEW x \in s
  PROVE  /\ s \ {x} \in SUBSET S /\ s # {}
         /\ Cardinality(s) \in Nat
         /\ Cardinality(s \ {x}) \in Nat
         /\ Cardinality(s) = Cardinality(s \ {x}) + 1
<1>1. IsFiniteSet(s) /\ IsFiniteSet(s \ {x})
  BY FS_Subset, FS_RemoveElement
<1>2. Cardinality(s) \in Nat /\ Cardinality(s \ {x}) \in Nat
  BY <1>1, FS_CardinalityType
<1>3. Cardinality(s \ {x}) = Cardinality(s) - 1
  BY <1>1, FS_RemoveElement
<1>4. QED
  BY <1>2, <1>3

(* CHOOSE yields an element of a set that is not empty.                    *)
LEMMA ChosenIn == ASSUME NEW s, s # {} PROVE Chosen(s) \in s
BY DEF Chosen

(* A function that obeys the equation exists: by induction over the size   *)
(* of the sets that it is asked for.                                       *)
LEMMA SumExists ==
  ASSUME NEW S, IsFiniteSet(S), NEW w \in [S -> Nat]
  PROVE  \E f \in [SUBSET S -> Nat] : AddsUp(f, w, S)
<1> DEFINE Upto(f, k) ==
      \A s \in SUBSET S : Cardinality(s) <= k =>
         f[s] = IF s = {} THEN 0 ELSE w[Chosen(s)] + f[s \ {Chosen(s)}]
<1> DEFINE T == {k \in Nat : \E f \in [SUBSET S -> Nat] : Upto(f, k)}
<1>1. 0 \in T
  <2>1. \A s \in SUBSET S : Cardinality(s) <= 0 => s = {}
    <3> TAKE s \in SUBSET S
    <3>1. IsFiniteSet(s)
      BY FS_Subset
    <3>2. QED
      BY <3>1, FS_CardinalityType, FS_EmptySet
  <2>2. [s \in SUBSET S |-> 0] \in [SUBSET S -> Nat]
    OBVIOUS
  <2>3. Upto([s \in SUBSET S |-> 0], 0)
    BY <2>1
  <2>4. QED
    BY <2>2, <2>3
<1>2. ASSUME NEW k \in T PROVE k + 1 \in T
  <2>1. PICK f \in [SUBSET S -> Nat] : Upto(f, k)
    OBVIOUS
  <2> DEFINE g == [s \in SUBSET S |->
                     IF Cardinality(s) = k + 1
                     THEN w[Chosen(s)] + f[s \ {Chosen(s)}] ELSE f[s]]
  <2>2. g \in [SUBSET S -> Nat]
    <3>1. ASSUME NEW s \in SUBSET S, Cardinality(s) = k + 1
          PROVE  w[Chosen(s)] + f[s \ {Chosen(s)}] \in Nat
      <4>1. k \in Nat /\ Cardinality(s) # 0
        BY <3>1
      <4>2. s # {}
        BY <4>1, FS_EmptySet
      <4>3. Chosen(s) \in s
        BY <4>2, ChosenIn
      <4>4. w[Chosen(s)] \in Nat /\ f[s \ {Chosen(s)}] \in Nat
        BY <4>3
      <4>5. QED
        BY <4>4
    <3>2. QED
      BY <3>1
  <2>3. Upto(g, k + 1)
    <3> SUFFICES ASSUME NEW s \in SUBSET S, Cardinality(s) <= k + 1
                 PROVE  g[s] = IF s = {} THEN 0 ELSE w[Chosen(s)] + g[s \ {Chosen(s)}]
      OBVIOUS
    <3>1. CASE s = {}
      <4>1. Cardinality(s) = 0 /\ k \in Nat
        BY <3>1, FS_EmptySet
      <4>2. g[s] = f[s] /\ f[s] = 0
        BY <2>1, <3>1, <4>1
      <4>3. QED
        BY <3>1, <4>2
    <3>2. CASE s # {}
      <4> DEFINE r == s \ {Chosen(s)}
      <4>1. Chosen(s) \in s
        BY <3>2, ChosenIn
      <4>2. /\ r \in SUBSET S /\ Cardinality(s) \in Nat
            /\ Cardinality(r) \in Nat /\ Cardinality(s) = Cardinality(r) + 1
        BY <4>1, OneLess
      <4>3. Cardinality(r) # k + 1 /\ k \in Nat
        BY <4>2
      <4>4. g[r] = f[r]
        BY <4>2, <4>3
      <4>5. CASE Cardinality(s) = k + 1
        BY <3>2, <4>4, <4>5
      <4>6. CASE Cardinality(s) # k + 1
        <5>1. Cardinality(s) <= k
          BY <4>2, <4>3, <4>6
        <5>2. g[s] = f[s]
          BY <4>6
        <5>3. f[s] = w[Chosen(s)] + f[r]
          BY <2>1, <3>2, <5>1
        <5>4. QED
          BY <3>2, <4>4, <5>2, <5>3
      <4>7. QED
        BY <4>5, <4>6
    <3>3. QED
      BY <3>1, <3>2
  <2>4. k + 1 \in Nat
    OBVIOUS
  <2>5. QED
    BY <2>2, <2>3, <2>4
<1>3. T = Nat
  <2>1. T \in SUBSET Nat
    OBVIOUS
  <2> HIDE DEF T
  <2>2. QED
    BY <1>1, <1>2, <2>1, Induction
<1>4. Cardinality(S) \in Nat
  BY FS_CardinalityType
<1>5. PICK f \in [SUBSET S -> Nat] : Upto(f, Cardinality(S))
  BY <1>3, <1>4
<1>6. \A s \in SUBSET S : Cardinality(s) <= Cardinality(S)
  BY FS_Subset
<1>7. \A s \in SUBSET S :
        f[s] = IF s = {} THEN 0 ELSE w[Chosen(s)] + f[s \ {Chosen(s)}]
  BY <1>5, <1>6
<1>8. AddsUp(f, w, S)
  BY <1>7, Zenon DEF AddsUp
<1>9. QED
  BY <1>8

(* It can be taken in any order.                                           *)
InAnyOrder(f, w, S) ==
    \A s \in SUBSET S : \A x \in s : f[s] = w[x] + f[s \ {x}]

(* Such a function may take any element away first: by induction over the  *)
(* size of the set.                                                        *)
LEMMA AnyOrder ==
  ASSUME NEW S, IsFiniteSet(S), NEW w \in [S -> Nat],
         NEW f \in [SUBSET S -> Nat], AddsUp(f, w, S)
  PROVE  InAnyOrder(f, w, S)
<1> DEFINE T == {k \in Nat : \A s \in SUBSET S : Cardinality(s) = k =>
                                \A x \in s : f[s] = w[x] + f[s \ {x}]}
<1>1. \A s \in SUBSET S : s # {} => f[s] = w[Chosen(s)] + f[s \ {Chosen(s)}]
  BY Zenon DEF AddsUp
<1>2. 0 \in T
  <2>1. \A s \in SUBSET S : Cardinality(s) = 0 => s = {}
    BY FS_Subset, FS_EmptySet
  <2>2. QED
    BY <2>1
<1>3. ASSUME NEW k \in T PROVE k + 1 \in T
  <2> SUFFICES ASSUME NEW s \in SUBSET S, Cardinality(s) = k + 1, NEW x \in s
               PROVE  f[s] = w[x] + f[s \ {x}]
    OBVIOUS
  <2> DEFINE c == Chosen(s)
  <2>1. s # {} /\ c \in s
    BY ChosenIn
  <2>2. /\ s \ {x} \in SUBSET S /\ s \ {c} \in SUBSET S
        /\ Cardinality(s \ {x}) = k /\ Cardinality(s \ {c}) = k
    BY <2>1, OneLess
  <2>3. CASE x = c
    BY <1>1, <2>1, <2>3
  <2>4. CASE x # c
    <3>1. x \in s \ {c} /\ c \in s \ {x}
      BY <2>1, <2>4
    <3>2. f[s \ {c}] = w[x] + f[(s \ {c}) \ {x}]
      BY <2>2, <3>1
    <3>3. f[s \ {x}] = w[c] + f[(s \ {x}) \ {c}]
      BY <2>2, <3>1
    <3>4. (s \ {c}) \ {x} = (s \ {x}) \ {c} /\ (s \ {c}) \ {x} \in SUBSET S
      OBVIOUS
    <3>5. f[s] = w[c] + f[s \ {c}]
      BY <1>1, <2>1
    <3>6. w[c] \in Nat /\ w[x] \in Nat /\ f[(s \ {c}) \ {x}] \in Nat
      BY <2>1, <3>4
    <3>7. \A a, b, d \in Nat : a + (b + d) = b + (a + d)
      OBVIOUS
    <3>8. w[c] + (w[x] + f[(s \ {c}) \ {x}]) = w[x] + (w[c] + f[(s \ {c}) \ {x}])
      BY <3>6, <3>7, ZenonT(60)
    <3>9. QED
      BY <3>2, <3>3, <3>4, <3>5, <3>8, Zenon
  <2>5. QED
    BY <2>3, <2>4
<1>4. T = Nat
  <2>1. T \in SUBSET Nat
    OBVIOUS
  <2> HIDE DEF T
  <2>2. QED
    BY <1>2, <1>3, <2>1, Induction
<1>5. SUFFICES ASSUME NEW s \in SUBSET S, NEW x \in s
               PROVE  f[s] = w[x] + f[s \ {x}]
  BY DEF InAnyOrder
<1>6. Cardinality(s) \in Nat
  BY OneLess
<1>7. QED
  BY <1>4, <1>6

(* The sum of a function over a finite set is a number, and may be taken   *)
(* in any order.                                                           *)
LEMMA SumFacts ==
  ASSUME NEW S, IsFiniteSet(S), NEW w \in [S -> Nat]
  PROVE  \E f \in [SUBSET S -> Nat] :
            /\ f[{}] = 0
            /\ InAnyOrder(f, w, S)
            /\ SumFunction(w) = f[S]
<1>1. PICK f : AddsUp(f, w, S) /\ SumFunction(w) = f[S]
  <2>1. \E g : AddsUp(g, w, S)
    BY SumExists
  <2>2. DOMAIN w = S
    OBVIOUS
  <2>3. AddsUp(CHOOSE f : AddsUp(f, w, S), w, S)
    BY <2>1
  <2>4. SumFunction(w) = (CHOOSE f : AddsUp(f, w, S))[S]
    BY <2>2, SumIsChosen
  <2>5. QED
    BY <2>3, <2>4
<1>2. \A s \in SUBSET S :
        f[s] = IF s = {} THEN 0 ELSE w[Chosen(s)] + f[s \ {Chosen(s)}]
  BY <1>1, Zenon DEF AddsUp
<1>3. f[{}] = 0
  BY <1>2
<1> DEFINE T == {k \in Nat : \A s \in SUBSET S : Cardinality(s) = k => f[s] \in Nat}
<1>4. 0 \in T
  <2>1. \A s \in SUBSET S : Cardinality(s) = 0 => s = {}
    BY FS_Subset, FS_EmptySet
  <2>2. QED
    BY <1>3, <2>1
<1>5. ASSUME NEW k \in T PROVE k + 1 \in T
  <2> SUFFICES ASSUME NEW s \in SUBSET S, Cardinality(s) = k + 1
               PROVE  f[s] \in Nat
    OBVIOUS
  <2>1. k \in Nat /\ Cardinality(s) # 0
    OBVIOUS
  <2>2. s # {} /\ Chosen(s) \in s
    BY <2>1, FS_EmptySet, ChosenIn
  <2>3. /\ s \ {Chosen(s)} \in SUBSET S
        /\ Cardinality(s \ {Chosen(s)}) \in Nat
        /\ Cardinality(s) = Cardinality(s \ {Chosen(s)}) + 1
    BY <2>2, OneLess
  <2>4. Cardinality(s \ {Chosen(s)}) = k
    BY <2>1, <2>3
  <2>5. f[s \ {Chosen(s)}] \in Nat /\ w[Chosen(s)] \in Nat
    BY <2>2, <2>3, <2>4
  <2>6. f[s] = w[Chosen(s)] + f[s \ {Chosen(s)}]
    BY <1>2, <2>2
  <2>7. QED
    BY <2>5, <2>6
<1>6. T = Nat
  <2>1. T \in SUBSET Nat
    OBVIOUS
  <2> HIDE DEF T
  <2>2. QED
    BY <1>4, <1>5, <2>1, Induction
<1>7. f \in [SUBSET S -> Nat]
  <2>1. \A s \in SUBSET S : Cardinality(s) \in Nat
    BY FS_Subset, FS_CardinalityType
  <2>2. \A s \in SUBSET S : f[s] \in Nat
    BY <1>6, <2>1
  <2>3. f = [s \in SUBSET S |-> f[s]]
    BY <1>1, Zenon DEF AddsUp
  <2>4. QED
    BY <2>2, <2>3
<1>8. InAnyOrder(f, w, S)
  BY <1>1, <1>7, AnyOrder, Zenon
<1>9. QED
  BY <1>1, <1>3, <1>7, <1>8

(* The sums of the beginnings of a sequence                                *)
LEMMA SumEquations ==
  ASSUME NEW n \in Nat, NEW w \in [1..n -> Nat]
  PROVE  \E f \in [SUBSET (1..n) -> Nat] :
            /\ f[{}] = 0
            /\ \A k \in 1..n : f[1..k] = w[k] + f[1..(k-1)]
            /\ SumFunction(w) = f[1..n]
<1>1. PICK S : S = 1..n
  OBVIOUS
<1>2. IsFiniteSet(S) /\ w \in [S -> Nat]
  <2>1. IsFiniteSet(1..n)
    BY FS_Interval
  <2>2. QED
    BY <1>1, <2>1, Zenon
<1>3. PICK f \in [SUBSET S -> Nat] :
            /\ f[{}] = 0
            /\ InAnyOrder(f, w, S)
            /\ SumFunction(w) = f[S]
  BY <1>2, SumFacts, Zenon
<1>4. ASSUME NEW k \in 1..n
      PROVE  f[1..k] = w[k] + f[1..(k-1)]
  <2>1. 1..k \in SUBSET S /\ k \in 1..k
    BY <1>1
  <2>2. f[1..k] = w[k] + f[(1..k) \ {k}]
    BY <1>3, <2>1 DEF InAnyOrder
  <2>3. (1..k) \ {k} = 1..(k-1)
    OBVIOUS
  <2>4. QED
    BY <2>2, <2>3
<1>5. QED
  BY <1>1, <1>3, <1>4, Zenon

(* What the sum of a sequence is: nothing for the empty one, and for a     *)
(* longer one the last element more than for the rest.                     *)
LEMMA SumOfNone == SumFunction(<<>>) = 0
<1>1. <<>> \in [1..0 -> Nat] /\ 1..0 = {}
  OBVIOUS
<1>2. PICK f \in [SUBSET (1..0) -> Nat] : f[{}] = 0 /\ SumFunction(<<>>) = f[1..0]
  BY <1>1, SumEquations, Zenon
<1>3. QED
  BY <1>1, <1>2

(* The same of two functions on beginnings of the numbers, one of which    *)
(* is longer by an element                                                 *)
LEMMA SumOfLonger ==
  ASSUME NEW n \in Nat, NEW m \in Nat, m = n + 1,
         NEW w \in [1..m -> Nat], NEW v \in [1..n -> Nat],
         \A i \in 1..n : v[i] = w[i]
  PROVE  /\ SumFunction(w) = SumFunction(v) + w[m]
         /\ SumFunction(w) \in Nat
         /\ SumFunction(v) \in Nat
<1>1. PICK f \in [SUBSET (1..m) -> Nat] :
            /\ f[{}] = 0
            /\ \A k \in 1..m : f[1..k] = w[k] + f[1..(k-1)]
            /\ SumFunction(w) = f[1..m]
  BY SumEquations, Zenon
<1>2. PICK g \in [SUBSET (1..n) -> Nat] :
            /\ g[{}] = 0
            /\ \A k \in 1..n : g[1..k] = v[k] + g[1..(k-1)]
            /\ SumFunction(v) = g[1..n]
  BY SumEquations, Zenon
<1> DEFINE T == {k \in Nat : k <= n => f[1..k] = g[1..k]}
<1>3. 0 \in T
  <2>1. 1..0 = {}
    OBVIOUS
  <2>2. QED
    BY <1>1, <1>2, <2>1
<1>4. ASSUME NEW k \in T PROVE k + 1 \in T
  <2>1. k \in Nat /\ (k <= n => f[1..k] = g[1..k])
    OBVIOUS
  <2>2. SUFFICES ASSUME k + 1 <= n PROVE f[1..(k+1)] = g[1..(k+1)]
    BY <2>1
  <2>3. k + 1 \in 1..m /\ k + 1 \in 1..n /\ (k + 1) - 1 = k /\ k <= n
    BY <2>1, <2>2
  <2>4. f[1..(k+1)] = w[k+1] + f[1..k]
    BY <1>1, <2>3
  <2>5. g[1..(k+1)] = v[k+1] + g[1..k]
    BY <1>2, <2>3
  <2>6. QED
    BY <2>1, <2>3, <2>4, <2>5
<1>5. T = Nat
  <2>1. T \in SUBSET Nat
    OBVIOUS
  <2> HIDE DEF T
  <2>2. QED
    BY <1>3, <1>4, <2>1, Induction
<1>6. f[1..n] = g[1..n]
  <2>1. n \in T
    BY <1>5
  <2>2. QED
    BY <2>1
<1>7. f[1..m] = w[m] + f[1..n]
  <2>1. m \in 1..m /\ m - 1 = n
    OBVIOUS
  <2>2. QED
    BY <1>1, <2>1
<1>8. w[m] \in Nat /\ g[1..n] \in Nat
  <2>1. m \in 1..m /\ 1..n \in SUBSET (1..n)
    OBVIOUS
  <2>2. QED
    BY <2>1, Zenon
<1>9. QED
  BY <1>1, <1>2, <1>6, <1>7, <1>8

(* The same of a sequence that is not empty                                *)
LEMMA SumOfMore ==
  ASSUME NEW w \in Seq(Nat), NEW n \in Nat, Len(w) = n + 1
  PROVE  /\ SumFunction(w) = SumFunction(SubSeq(w, 1, n)) + w[n + 1]
         /\ SumFunction(w) \in Nat
         /\ SumFunction(SubSeq(w, 1, n)) \in Nat
<1>1. PICK v : v = SubSeq(w, 1, n)
  OBVIOUS
<1>2. v \in Seq(Nat) /\ Len(v) = n /\ \A i \in 1..n : v[i] = w[i]
  BY <1>1, n <= n + 1
<1>3. v \in [1..n -> Nat]
  BY <1>2
<1>4. PICK m \in Nat : m = n + 1
  OBVIOUS
<1>5. w \in [1..m -> Nat]
  BY <1>4
<1>6. /\ SumFunction(w) = SumFunction(v) + w[m]
      /\ SumFunction(w) \in Nat /\ SumFunction(v) \in Nat
  <2>1. \A i \in 1..n : v[i] = w[i]
    BY <1>2
  <2>2. QED
    BY <1>3, <1>4, <1>5, <2>1, SumOfLonger, ZenonT(60)
<1>7. QED
  BY <1>1, <1>4, <1>6

(* A sequence without its last element                                     *)
LEMMA Shorter ==
  ASSUME NEW w \in Seq(Nat), NEW n \in Nat, Len(w) = n + 1
  PROVE  /\ SubSeq(w, 1, n) \in Seq(Nat) /\ Len(SubSeq(w, 1, n)) = n
         /\ \A i \in 1..n : SubSeq(w, 1, n)[i] = w[i]
BY n <= n + 1

(* A sum of natural numbers is one.                                        *)
LEMMA SumIsNatural == ASSUME NEW w \in Seq(Nat) PROVE SumFunction(w) \in Nat
<1>1. CASE Len(w) = 0
  <2>1. w = <<>>
    BY <1>1
  <2>2. QED
    BY <2>1, SumOfNone
<1>2. CASE Len(w) # 0
  <2>1. PICK n \in Nat : n = Len(w) - 1
    BY <1>2
  <2>2. Len(w) = n + 1
    BY <2>1
  <2>3. QED
    BY <2>2, SumOfMore
<1>3. QED
  BY <1>1, <1>2

(* What concatenation returns                                              *)
Joined(x, u, v) ==
    /\ Len(x) = Len(u) + Len(v)
    /\ \A i \in 1..Len(u) : x[i] = u[i]
    /\ \A i \in 1..Len(v) : x[Len(u) + i] = v[i]

(* What \o returns is joined of its parts.                                 *)
LEMMA Concatenated ==
  ASSUME NEW S, NEW u \in Seq(S), NEW v \in Seq(S)
  PROVE  u \o v \in Seq(S) /\ Joined(u \o v, u, v)
BY DEF Joined

(* Two sequences that are joined of the same parts are the same.           *)
LEMMA JoinedOnce ==
  ASSUME NEW S, NEW u \in Seq(S), NEW v \in Seq(S),
         NEW x \in Seq(S), NEW y \in Seq(S), Joined(x, u, v), Joined(y, u, v)
  PROVE  x = y
<1>1. Len(x) = Len(y)
  BY DEF Joined
<1>2. ASSUME NEW i \in 1..Len(x) PROVE x[i] = y[i]
  <2>1. CASE i \in 1..Len(u)
    BY <2>1 DEF Joined
  <2>2. CASE i \notin 1..Len(u)
    <3>1. PICK j \in 1..Len(v) : i = Len(u) + j
      <4>1. i - Len(u) \in 1..Len(v) /\ i = Len(u) + (i - Len(u))
        BY <2>2 DEF Joined
      <4>2. QED
        BY <4>1
    <3>2. QED
      BY <3>1 DEF Joined
  <2>3. QED
    BY <2>1, <2>2
<1>3. QED
  BY <1>1, <1>2

(* The step of the induction below                                         *)
LEMMA SumOfBothLonger ==
  ASSUME NEW u \in Seq(Nat), NEW y \in Seq(Nat), NEW n \in Nat, Len(y) = n + 1,
         NEW z \in Seq(Nat), z = SubSeq(y, 1, n),
         SumFunction(u \o z) = SumFunction(u) + SumFunction(z)
  PROVE  SumFunction(u \o y) = SumFunction(u) + SumFunction(y)
<1>1. PICK k \in Nat : k = Len(u) + n
  OBVIOUS
<1>2. PICK x \in Seq(Nat) : x = u \o y /\ Joined(x, u, y)
  BY Concatenated, Zenon
<1>3. Len(x) = k + 1 /\ x[k + 1] = y[n + 1] /\ y[n + 1] \in Nat
  <2>1. n + 1 \in 1..Len(y) /\ Len(u) + (n + 1) = k + 1
    BY <1>1
  <2>2. QED
    BY <1>1, <1>2, <2>1 DEF Joined
<1>4. Len(z) = n /\ \A i \in 1..n : z[i] = y[i]
  BY Shorter
<1>5. PICK t \in Seq(Nat) :
         t = SubSeq(x, 1, k) /\ Len(t) = k /\ \A i \in 1..k : t[i] = x[i]
  BY <1>3, Shorter
<1>6. Joined(t, u, z)
  <2>1. \A i \in 1..Len(u) : i \in 1..k
    BY <1>1
  <2>2. \A i \in 1..n : Len(u) + i \in 1..k /\ i \in 1..Len(y)
    BY <1>1
  <2>3. \A i \in 1..n : t[Len(u) + i] = z[i]
    BY <1>2, <1>4, <1>5, <2>2 DEF Joined
  <2>4. \A i \in 1..Len(u) : t[i] = u[i]
    BY <1>2, <1>5, <2>1 DEF Joined
  <2>5. QED
    BY <1>1, <1>4, <1>5, <2>3, <2>4 DEF Joined
<1>7. u \o z \in Seq(Nat) /\ Joined(u \o z, u, z)
  BY Concatenated, Zenon
<1>8. t = u \o z
  BY <1>6, <1>7, JoinedOnce, Zenon
<1>9. SumFunction(x) = SumFunction(t) + x[k + 1]
  BY <1>3, <1>5, SumOfMore
<1>10. SumFunction(y) = SumFunction(z) + y[n + 1]
  BY SumOfMore
<1>11. SumFunction(u) \in Nat /\ SumFunction(z) \in Nat
  BY SumIsNatural, Zenon
<1>12. \A a, b, c \in Nat : (a + b) + c = a + (b + c)
  OBVIOUS
<1>13. SumFunction(x) = (SumFunction(u) + SumFunction(z)) + y[n + 1]
  BY <1>3, <1>8, <1>9
<1>14. (SumFunction(u) + SumFunction(z)) + y[n + 1]
           = SumFunction(u) + (SumFunction(z) + y[n + 1])
  BY <1>3, <1>11, <1>12
<1>15. QED
  BY <1>2, <1>10, <1>13, <1>14

(* The sum of two sequences, by induction over the length of the second    *)
LEMMA SumOfBoth ==
  ASSUME NEW u \in Seq(Nat), NEW v \in Seq(Nat)
  PROVE  SumFunction(u \o v) = SumFunction(u) + SumFunction(v)
<1> DEFINE T == {n \in Nat : \A y \in Seq(Nat) : Len(y) = n =>
                    SumFunction(u \o y) = SumFunction(u) + SumFunction(y)}
<1>1. 0 \in T
  <2>1. \A y \in Seq(Nat) : Len(y) = 0 => y = <<>> /\ u \o y = u
    OBVIOUS
  <2>2. SumFunction(u) \in Nat
    BY SumIsNatural
  <2>3. \A y \in Seq(Nat) : Len(y) = 0 =>
           SumFunction(u \o y) = SumFunction(u) + SumFunction(y)
    BY <2>1, <2>2, SumOfNone
  <2>4. QED
    BY <2>3
<1>2. ASSUME NEW n \in T PROVE n + 1 \in T
  <2> SUFFICES ASSUME NEW y \in Seq(Nat), Len(y) = n + 1
               PROVE  SumFunction(u \o y) = SumFunction(u) + SumFunction(y)
    OBVIOUS
  <2>1. n \in Nat
    OBVIOUS
  <2>2. PICK z \in Seq(Nat) : z = SubSeq(y, 1, n) /\ Len(z) = n
    BY <2>1, Shorter
  <2>3. SumFunction(u \o z) = SumFunction(u) + SumFunction(z)
    BY <2>2
  <2>4. QED
    BY <2>1, <2>2, <2>3, SumOfBothLonger
<1>3. T = Nat
  <2>1. T \in SUBSET Nat
    OBVIOUS
  <2> HIDE DEF T
  <2>2. QED
    BY <1>1, <1>2, <2>1, Induction
<1>4. QED
  BY <1>3

-----------------------------------------------------------------------------
(* The two sums of the same bytes, in the order of the host and of the     *)
(* wire: those of the low bytes and of the high bytes change places.       *)
SwapsTo(h, m) == \E a, b \in Nat : h = a + 256 * b /\ m = 256 * a + b
Swapped(h, m) == Len(h) = Len(m) /\ \A i \in 1..Len(h) : SwapsTo(h[i], m[i])

(* Sums of swapped numbers are swapped, whatever they carry.               *)
LEMMA SwapsAdd ==
  ASSUME NEW h, NEW m, NEW j, NEW n, SwapsTo(h, m), SwapsTo(j, n)
  PROVE  SwapsTo(h + j, m + n)
<1>1. PICK a, b \in Nat : h = a + 256 * b /\ m = 256 * a + b
  BY DEF SwapsTo
<1>2. PICK c, d \in Nat : j = c + 256 * d /\ n = 256 * c + d
  BY DEF SwapsTo
<1>3. /\ a + c \in Nat /\ b + d \in Nat
      /\ h + j = (a + c) + 256 * (b + d)
      /\ m + n = 256 * (a + c) + (b + d)
  BY <1>1, <1>2
<1>4. PICK e, f \in Nat : e = a + c /\ f = b + d
  BY <1>3
<1>5. h + j = e + 256 * f /\ m + n = 256 * e + f
  BY SMT, <1>3, <1>4
<1>6. PICK x, y : x = h + j /\ y = m + n
  OBVIOUS
<1>7. SwapsTo(x, y)
  BY SMT, <1>5, <1>6 DEF SwapsTo
<1>8. QED
  BY <1>6, <1>7, Zenon

(* So are the sums of two sequences whose elements are.                    *)
LEMMA SwappedSums ==
  ASSUME NEW h \in Seq(Nat), NEW m \in Seq(Nat), Swapped(h, m)
  PROVE  SwapsTo(SumFunction(h), SumFunction(m))
<1> DEFINE Totals(x, y) == SwapsTo(SumFunction(x), SumFunction(y))
<1> DEFINE T == {n \in Nat : \A x, y \in Seq(Nat) :
                    Len(x) = n /\ Swapped(x, y) => Totals(x, y)}
<1>1. 0 \in T
  <2>1. \A x, y \in Seq(Nat) : Len(x) = 0 /\ Swapped(x, y) => x = <<>> /\ y = <<>>
    BY DEF Swapped
  <2>2. SwapsTo(0, 0)
    BY DEF SwapsTo
  <2>3. Totals(<<>>, <<>>)
    BY <2>2, SumOfNone
  <2> HIDE DEF Totals
  <2>4. \A x, y \in Seq(Nat) : Len(x) = 0 /\ Swapped(x, y) => Totals(x, y)
    BY <2>1, <2>3, Zenon
  <2>5. QED
    BY <2>4
<1>2. ASSUME NEW n \in T PROVE n + 1 \in T
  <2> SUFFICES ASSUME NEW x \in Seq(Nat), NEW y \in Seq(Nat),
                      Len(x) = n + 1, Swapped(x, y)
               PROVE  Totals(x, y)
    OBVIOUS
  <2>1. /\ n \in Nat
        /\ \A v, w \in Seq(Nat) : Len(v) = n /\ Swapped(v, w) => Totals(v, w)
    OBVIOUS
  <2> HIDE DEF T
  <2>2. Len(y) = n + 1
    BY DEF Swapped
  <2>3. PICK v \in Seq(Nat) :
           v = SubSeq(x, 1, n) /\ Len(v) = n /\ \A i \in 1..n : v[i] = x[i]
    BY <2>1, Shorter
  <2>4. PICK w \in Seq(Nat) :
           w = SubSeq(y, 1, n) /\ Len(w) = n /\ \A i \in 1..n : w[i] = y[i]
    BY <2>1, <2>2, Shorter
  <2>5. Swapped(v, w)
    <3>1. \A i \in 1..n : i \in 1..Len(x)
      BY <2>1
    <3>2. \A i \in 1..n : SwapsTo(x[i], y[i])
      BY <3>1 DEF Swapped
    <3>3. QED
      BY <2>3, <2>4, <3>2 DEF Swapped
  <2>6. Totals(v, w)
    BY <2>1, <2>3, <2>5, Zenon
  <2>7. SwapsTo(x[n + 1], y[n + 1])
    <3>1. n + 1 \in 1..Len(x)
      BY <2>1
    <3>2. QED
      BY <3>1, Zenon DEF Swapped
  <2>8. SumFunction(x) = SumFunction(v) + x[n + 1]
    BY <2>1, <2>3, SumOfMore
  <2>9. SumFunction(y) = SumFunction(w) + y[n + 1]
    BY <2>1, <2>2, <2>4, SumOfMore
  <2>10. QED
    BY <2>6, <2>7, <2>8, <2>9, SwapsAdd
<1>3. T = Nat
  <2>1. T \in SUBSET Nat
    OBVIOUS
  <2> HIDE DEF T
  <2>2. QED
    BY <1>1, <1>2, <2>1, Induction
<1>4. \A n \in Nat : n \in T
  BY <1>3, Zenon
<1>5. Len(h) \in Nat
  OBVIOUS
<1>6. QED
  BY <1>4, <1>5, Zenon

-----------------------------------------------------------------------------
HostSum(b) == SumFunction(HostWords(b))
NetSum(b) == SumFunction(NetWords(b))

(* Also beyond the end of b, OctetAt yields a byte.                        *)
LEMMA OctetTypes ==
  ASSUME NEW b \in Seq(Octet), NEW i \in Int
  PROVE  OctetAt(b, i) \in Nat /\ OctetAt(b, i) <= 255
<1>1. \A x \in Octet : x \in Nat /\ x <= 255
  BY DEF Octet
<1>2. CASE i \in DOMAIN b
  <2>1. b[i] \in Octet /\ OctetAt(b, i) = b[i]
    BY <1>2 DEF OctetAt
  <2>2. QED
    BY <1>1, <2>1
<1>3. CASE i \notin DOMAIN b
  BY <1>3 DEF OctetAt
<1>4. QED
  BY <1>2, <1>3

(* The words of the host are those of the wire, swapped.                   *)
LEMMA WordTypes ==
  ASSUME NEW b \in Seq(Octet)
  PROVE  /\ HostWords(b) \in Seq(Nat) /\ NetWords(b) \in Seq(Nat)
         /\ Swapped(HostWords(b), NetWords(b))
<1>1. PICK n \in Nat : n = (Len(b) + 1) \div 2
  OBVIOUS
<1>2. PICK h, m : h = HostWords(b) /\ m = NetWords(b)
  OBVIOUS
<1>3. /\ h = [i \in 1..n |-> OctetAt(b, 2 * i - 1) + 256 * OctetAt(b, 2 * i)]
      /\ m = [i \in 1..n |-> 256 * OctetAt(b, 2 * i - 1) + OctetAt(b, 2 * i)]
  BY <1>1, <1>2, Zenon DEF HostWords, NetWords
<1>4. \A i \in 1..n : OctetAt(b, 2 * i - 1) \in Nat /\ OctetAt(b, 2 * i) \in Nat
  <2> TAKE i \in 1..n
  <2>1. 2 * i - 1 \in Int /\ 2 * i \in Int
    OBVIOUS
  <2>2. QED
    BY <2>1, OctetTypes, Zenon
<1>5. h \in Seq(Nat) /\ m \in Seq(Nat) /\ Len(h) = n /\ Len(m) = n
  <2>1. ASSUME NEW i \in 1..n PROVE h[i] \in Nat /\ m[i] \in Nat
    <3>1. PICK x \in Nat : x = OctetAt(b, 2 * i - 1)
      BY <1>4, Zenon
    <3>2. PICK y \in Nat : y = OctetAt(b, 2 * i)
      BY <1>4, Zenon
    <3>3. h[i] = x + 256 * y /\ m[i] = 256 * x + y
      BY SMT, <1>3, <3>1, <3>2
    <3>4. QED
      BY <3>3
  <2>2. QED
    BY <1>3, <2>1
<1>6. \A i \in 1..n : SwapsTo(h[i], m[i])
  <2> TAKE i \in 1..n
  <2>1. /\ h[i] = OctetAt(b, 2 * i - 1) + 256 * OctetAt(b, 2 * i)
        /\ m[i] = 256 * OctetAt(b, 2 * i - 1) + OctetAt(b, 2 * i)
    BY <1>3
  <2>2. PICK x \in Nat : x = OctetAt(b, 2 * i - 1)
    BY <1>4, Zenon
  <2>3. PICK y \in Nat : y = OctetAt(b, 2 * i)
    BY <1>4, Zenon
  <2>4. PICK v, w : v = h[i] /\ w = m[i]
    OBVIOUS
  <2>5. v = x + 256 * y /\ w = 256 * x + y
    BY SMT, <2>1, <2>2, <2>3, <2>4
  <2>6. SwapsTo(v, w)
    BY SMT, <2>5 DEF SwapsTo
  <2>7. QED
    BY <2>4, <2>6, Zenon
<1>7. QED
  BY <1>2, <1>5, <1>6 DEF Swapped

(* Both sums are natural numbers.                                          *)
LEMMA SumTypes ==
  ASSUME NEW b \in Seq(Octet)
  PROVE  HostSum(b) \in Nat /\ NetSum(b) \in Nat
BY WordTypes, SumIsNatural DEF HostSum, NetSum

(* With the bytes of the words exchanged, a multiple of all ones remains one. *)
LEMMA SwappedMultiple ==
  ASSUME NEW h \in Nat, NEW n \in Nat, SwapsTo(h, n), h > 0, h % 65535 = 0
  PROVE  n > 0 /\ n % 65535 = 0
<1>1. PICK x, y \in Nat : h = x + 256 * y /\ n = 256 * x + y
  BY DEF SwapsTo
<1>2. n > 0
  BY <1>1
<1>3. PICK q \in Nat : h = 65535 * q
  <2>1. h = 65535 * (h \div 65535) /\ h \div 65535 \in Nat
    OBVIOUS
  <2>2. QED
    BY <2>1
<1>4. PICK k \in Int : k = 256 * q - y
  <2>1. 256 * q - y \in Int
    OBVIOUS
  <2>2. WITNESS 256 * q - y \in Int
  <2>3. QED
    OBVIOUS
<1>5. n = 65535 * k
  BY <1>1, <1>3, <1>4
<1>6. n % 65535 = 0
  BY <1>5
<1>7. QED
  BY <1>2, <1>6

(* A receiver that adds up the words of the wire accepts exactly the bytes *)
(* whose sum in the order of the host is all ones, or a multiple of that.  *)
THEOREM AcceptedFromHost ==
  ASSUME NEW b \in Seq(Octet)
  PROVE  Accepted(b) <=> HostSum(b) > 0 /\ HostSum(b) % 65535 = 0
<1>1. SwapsTo(HostSum(b), NetSum(b))
  BY WordTypes, SwappedSums DEF HostSum, NetSum
<1>2. PICK h \in Nat, n \in Nat : h = HostSum(b) /\ n = NetSum(b)
  BY SumTypes
<1>3. PICK x, y \in Nat : h = x + 256 * y /\ n = 256 * x + y
  BY <1>1, <1>2 DEF SwapsTo
<1>4. SwapsTo(h, n)
  BY <1>1, <1>2
<1>5. SwapsTo(n, h)
  BY <1>3 DEF SwapsTo
<1>6. ASSUME h > 0, h % 65535 = 0
      PROVE  n > 0 /\ n % 65535 = 0
  BY <1>4, <1>6, SwappedMultiple
<1>7. ASSUME n > 0, n % 65535 = 0
      PROVE  h > 0 /\ h % 65535 = 0
  BY <1>5, <1>7, SwappedMultiple
<1>8. Accepted(b) <=> n > 0 /\ n % 65535 = 0
  BY <1>2 DEF Accepted, NetSum
<1>9. QED
  BY <1>2, <1>6, <1>7, <1>8

(* The words of two byte strings are those of the one followed by those of *)
(* the other, if the first has no odd byte at its end.                     *)
LEMMA WordsOfBoth ==
  ASSUME NEW k \in Nat, NEW b \in Seq(Octet), Len(b) = 2 * k, NEW c \in Seq(Octet)
  PROVE  HostWords(b \o c) = HostWords(b) \o HostWords(c)
<1>1. PICK x \in Seq(Octet) : x = b \o c /\ Joined(x, b, c)
  BY Concatenated, Zenon
<1>2. PICK n \in Nat : n = (Len(c) + 1) \div 2 /\ 2 * n >= Len(c)
  OBVIOUS
<1>3. Len(x) = 2 * k + Len(c) /\ (Len(x) + 1) \div 2 = k + n /\ (Len(b) + 1) \div 2 = k
  <2>1. Len(x) = 2 * k + Len(c)
    BY <1>1 DEF Joined
  <2>2. PICK l \in Nat : l = Len(c)
    OBVIOUS
  <2>3. (2 * k + l + 1) \div 2 = k + (l + 1) \div 2
    BY SMT
  <2>4. (2 * k + 1) \div 2 = k
    OBVIOUS
  <2>5. PICK m : m = Len(x)
    OBVIOUS
  <2>6. m = 2 * k + l /\ n = (l + 1) \div 2
    BY <1>2, <2>1, <2>2, <2>5, Zenon
  <2>7. (m + 1) \div 2 = k + n
    BY SMT, <2>3, <2>6
  <2>8. QED
    BY <2>1, <2>4, <2>5, <2>7, Zenon
<1>4. \A i \in Int : i <= 2 * k => OctetAt(x, i) = OctetAt(b, i)
  <2> TAKE i \in Int
  <2> HAVE i <= 2 * k
  <2>1. CASE i \in 1..(2 * k)
    <3>1. i \in DOMAIN x /\ i \in DOMAIN b /\ x[i] = b[i]
      BY <1>1, <1>3, <2>1 DEF Joined
    <3>2. QED
      BY <3>1, Zenon DEF OctetAt
  <2>2. CASE i \notin 1..(2 * k)
    <3>1. i \notin DOMAIN x /\ i \notin DOMAIN b
      BY <1>1, <1>3, <2>2
    <3>2. QED
      BY <3>1, Zenon DEF OctetAt
  <2>3. QED
    BY <2>1, <2>2
<1>5. \A i \in Int : i > 2 * k => OctetAt(x, i) = OctetAt(c, i - 2 * k)
  <2> TAKE i \in Int
  <2> HAVE i > 2 * k
  <2>1. PICK j \in Nat : i = 2 * k + j
    <3>1. i - 2 * k \in Nat /\ i = 2 * k + (i - 2 * k)
      OBVIOUS
    <3>2. QED
      BY <3>1
  <2>2. i - 2 * k = j /\ j > 0
    BY <2>1
  <2>3. CASE j \in 1..Len(c)
    <3>1. i \in DOMAIN x /\ j \in DOMAIN c /\ x[i] = c[j]
      BY <1>1, <1>3, <2>1, <2>3 DEF Joined
    <3>2. QED
      BY <2>2, <3>1, Zenon DEF OctetAt
  <2>4. CASE j \notin 1..Len(c)
    <3>1. i \notin DOMAIN x /\ j \notin DOMAIN c
      BY <1>1, <1>3, <2>1, <2>4
    <3>2. QED
      BY <2>2, <3>1, Zenon DEF OctetAt
  <2>5. QED
    BY <2>3, <2>4
<1>6. PICK w, u, v : w = HostWords(x) /\ u = HostWords(b) /\ v = HostWords(c)
  OBVIOUS
<1>7. /\ w = [i \in 1..(k + n) |-> OctetAt(x, 2 * i - 1) + 256 * OctetAt(x, 2 * i)]
      /\ u = [i \in 1..k |-> OctetAt(b, 2 * i - 1) + 256 * OctetAt(b, 2 * i)]
      /\ v = [i \in 1..n |-> OctetAt(c, 2 * i - 1) + 256 * OctetAt(c, 2 * i)]
  BY <1>2, <1>3, <1>6 DEF HostWords
<1>8. /\ w \in Seq(Nat) /\ Len(w) = k + n
      /\ u \in Seq(Nat) /\ Len(u) = k
      /\ v \in Seq(Nat) /\ Len(v) = n
  <2>1. w \in Seq(Nat) /\ u \in Seq(Nat) /\ v \in Seq(Nat)
    BY <1>6, WordTypes, Zenon
  <2>2. QED
    BY <1>7, <2>1
<1>9. Joined(w, u, v)
  <2>1. ASSUME NEW i \in 1..k PROVE w[i] = u[i]
    <3>1. /\ 2 * i - 1 \in Int /\ 2 * i - 1 <= 2 * k
          /\ 2 * i \in Int /\ 2 * i <= 2 * k /\ i \in 1..(k + n)
      BY <2>1
    <3>2. OctetAt(x, 2 * i - 1) = OctetAt(b, 2 * i - 1)
          /\ OctetAt(x, 2 * i) = OctetAt(b, 2 * i)
      BY <1>4, <3>1
    <3>3. QED
      BY <1>7, <3>1, <3>2
  <2>2. ASSUME NEW i \in 1..n PROVE w[k + i] = v[i]
    <3>1. PICK p \in Int, q \in Int : p = 2 * (k + i) - 1 /\ q = 2 * (k + i)
      <4>1. 2 * (k + i) - 1 \in Int /\ 2 * (k + i) \in Int
        OBVIOUS
      <4>2. QED
        BY <4>1
    <3>2. p > 2 * k /\ q > 2 * k /\ p - 2 * k = 2 * i - 1 /\ q - 2 * k = 2 * i
      BY <3>1
    <3>3. OctetAt(x, p) = OctetAt(c, 2 * i - 1) /\ OctetAt(x, q) = OctetAt(c, 2 * i)
      BY <1>5, <3>2
    <3>4. k + i \in 1..(k + n)
      OBVIOUS
    <3>5. w[k + i] = OctetAt(x, p) + 256 * OctetAt(x, q)
      BY <1>7, <3>1, <3>4
    <3>6. QED
      BY <1>7, <3>3, <3>5
  <2>3. QED
    BY <1>8, <2>1, <2>2 DEF Joined
<1>10. u \o v \in Seq(Nat) /\ Joined(u \o v, u, v)
  BY <1>8, Concatenated, Zenon
<1>11. w = u \o v
  BY <1>8, <1>9, <1>10, JoinedOnce, Zenon
<1>12. QED
  BY <1>1, <1>6, <1>11

(* The sum over a part of even length and what follows it                  *)
LEMMA HostSumOfBoth ==
  ASSUME NEW k \in Nat, NEW b \in Seq(Octet), Len(b) = 2 * k, NEW c \in Seq(Octet)
  PROVE  HostSum(b \o c) = HostSum(b) + HostSum(c)
BY WordsOfBoth, WordTypes, SumOfBoth DEF HostSum

(* The sum of two bytes that hold a word                                   *)
LEMMA HostSumOfPair ==
  ASSUME NEW x \in Octet, NEW y \in Octet
  PROVE  HostSum(<<x, y>>) = x + 256 * y
<1>1. PICK b \in Seq(Octet) : b = <<x, y>> /\ Len(b) = 2
  <2>1. <<x, y>> \in Seq(Octet) /\ Len(<<x, y>>) = 2
    OBVIOUS
  <2>2. QED
    BY <2>1
<1>2. x \in Nat /\ y \in Nat
  BY DEF Octet
<1>3. OctetAt(b, 1) = x /\ OctetAt(b, 2) = y
  BY <1>1 DEF OctetAt
<1>4. PICK w \in Seq(Nat) : w = HostWords(b) /\ Len(w) = 1 /\ w[1] = x + 256 * y
  <2>1. (Len(b) + 1) \div 2 = 1
    BY <1>1
  <2>2. HostWords(b) = [i \in 1..1 |-> OctetAt(b, 2 * i - 1) + 256 * OctetAt(b, 2 * i)]
    BY <2>1 DEF HostWords
  <2>3. HostWords(b) \in Seq(Nat)
    BY WordTypes
  <2>4. Len(HostWords(b)) = 1 /\ HostWords(b)[1] = x + 256 * y
    BY <1>3, <2>2, <2>3
  <2>5. QED
    BY <2>3, <2>4
<1>5. PICK n \in Nat : n = 0 /\ Len(w) = n + 1 /\ SubSeq(w, 1, n) = <<>>
  BY <1>4
<1>6. SumFunction(w) = SumFunction(SubSeq(w, 1, n)) + w[n + 1]
  BY <1>5, SumOfMore
<1>7. HostSum(<<x, y>>) = SumFunction(w)
  BY <1>1, <1>4, Zenon DEF HostSum
<1>8. SumFunction(w) = 0 + w[1]
  <2>1. SumFunction(SubSeq(w, 1, n)) = 0
    BY <1>5, SumOfNone, Zenon
  <2>2. n + 1 = 1
    BY <1>5
  <2>3. QED
    BY <1>6, <2>1, <2>2
<1>9. QED
  BY <1>2, <1>4, <1>7, <1>8
-----------------------------------------------------------------------------
(* Byte strings of a length, and how they are put together and cut         *)
Bytes(b, n) == b \in Seq(Octet) /\ Len(b) = n

(* The length of a concatenation                                           *)
LEMMA LenOfBoth ==
  ASSUME NEW S, NEW b \in Seq(S), NEW c \in Seq(S), NEW n \in Nat, Len(c) = n
  PROVE  b \o c \in Seq(S) /\ Len(b \o c) = Len(b) + n
BY SMT

(* n bytes and k bytes are n + k bytes.                                    *)
LEMMA BytesOfBoth ==
  ASSUME NEW n \in Nat, NEW k \in Nat, NEW b, NEW c, Bytes(b, n), Bytes(c, k)
  PROVE  Bytes(b \o c, n + k)
<1>1. b \in Seq(Octet) /\ c \in Seq(Octet) /\ Len(b) = n /\ Len(c) = k
  BY DEF Bytes
<1>2. b \o c \in Seq(Octet) /\ Len(b \o c) = Len(b) + k
  BY <1>1, LenOfBoth, Zenon
<1>3. QED
  BY <1>1, <1>2 DEF Bytes

(* n zeros are n bytes.                                                    *)
LEMMA BytesOfZeros ==
  ASSUME NEW n \in Nat
  PROVE  Bytes(Zeros(n), n)
<1>1. Zeros(n) \in Seq(Octet)
  BY SMT DEF Zeros, Octet
<1>2. Len(Zeros(n)) = n
  BY SMT DEF Zeros
<1>3. QED
  BY <1>1, <1>2 DEF Bytes

(* An array of n bytes is a sequence of n bytes.                           *)
LEMMA ArrayBytes ==
  ASSUME NEW n \in Nat, NEW f \in [1..n -> Octet]
  PROVE  Bytes(f, n)
<1>1. PICK g : g = [i \in 1..n |-> f[i]]
  OBVIOUS
<1>2. f = g
  BY <1>1
<1>3. g \in Seq(Octet) /\ Len(g) = n
  BY <1>1
<1>4. QED
  BY <1>2, <1>3 DEF Bytes

(* Concatenation is associative.                                           *)
LEMMA Associative ==
  ASSUME NEW b \in Seq(Octet), NEW c \in Seq(Octet), NEW d \in Seq(Octet)
  PROVE  b \o (c \o d) = (b \o c) \o d
BY SMT

Regroups(a, b, c, d) == a \o ((b \o c) \o d) = ((a \o b) \o c) \o d

(* The same of four parts, as the frames need it                           *)
LEMMA Regrouped ==
  ASSUME NEW a \in Seq(Octet), NEW b \in Seq(Octet), NEW c \in Seq(Octet), NEW d \in Seq(Octet)
  PROVE  Regroups(a, b, c, d)
<1>1. b \o c \in Seq(Octet) /\ a \o b \in Seq(Octet)
  BY SMT
<1>2. a \o ((b \o c) \o d) = (a \o (b \o c)) \o d
  BY SMTT(30), <1>1
<1>3. a \o (b \o c) = (a \o b) \o c
  BY SMTT(30)
<1>4. QED
  BY <1>2, <1>3, Zenon DEF Regroups

(* The middle of three parts, cut out                                      *)
LEMMA CutMiddle ==
  ASSUME NEW n \in Nat, NEW k \in Nat, NEW b, NEW c, NEW d \in Seq(Octet),
         Bytes(b, n), Bytes(c, k)
  PROVE  SubSeq((b \o c) \o d, n + 1, n + k) = c
BY SMT DEF Bytes

(* A cut of k bytes within n bytes is k bytes.                             *)
LEMMA CutBytes ==
  ASSUME NEW n \in Nat, NEW i \in Nat, NEW k \in Nat, i + k <= n, NEW b, Bytes(b, n)
  PROVE  Bytes(SubSeq(b, i + 1, i + k), k)
<1>1. b \in Seq(Octet) /\ Len(b) = n
  BY Zenon DEF Bytes
<1>2. PICK c : c = SubSeq(b, i + 1, i + k)
  OBVIOUS
<1>3. Len(c) = k
  BY SMT, <1>1, <1>2
<1>4. c \in Seq(Octet)
  BY SMT, <1>1, <1>2
<1>5. QED
  BY <1>2, <1>3, <1>4 DEF Bytes

(* What follows the first n bytes, cut out                                 *)
LEMMA CutRest ==
  ASSUME NEW n \in Nat, NEW k \in Nat, NEW b, NEW c, Bytes(b, n), Bytes(c, k)
  PROVE  SubSeq(b \o c, n + 1, Len(b \o c)) = c
BY SMT DEF Bytes
-----------------------------------------------------------------------------
(* The 16-bit numbers                                                      *)
Word == 0..65535

(* A natural number that fits is a word.                                   *)
LEMMA WordOfNumber ==
  ASSUME NEW v \in Nat, v <= 65535
  PROVE  v \in Word
<1>1. PICK n \in Nat : n = 65535
  BY SMT
<1>2. v <= n
  BY SMT, <1>1
<1>3. v \in 0..n
  BY SMT, <1>2
<1>4. Word = 0..n
  BY SMT, <1>1 DEF Word
<1>5. QED
  BY SMT, <1>3, <1>4

(* A word is a natural number that fits.                                   *)
LEMMA NumberOfWord == \A v \in Word : v \in Nat /\ v <= 65535
<1>1. PICK n \in Nat : n = 65535
  BY SMT
<1>2. Word = 0..n
  BY SMT, <1>1 DEF Word
<1>3. \A v \in Word : v \in Nat /\ v <= n
  BY SMT, <1>2
<1>4. QED
  BY SMT, <1>1, <1>3

(* The complement of a word is one, and not cut by 16 bits.                *)
LEMMA Complement ==
  ASSUME NEW v \in Word
  PROVE  \E c \in Word : v + c = 65535 /\ c = 65535 - v /\ c % 65536 = c
<1>1. PICK c \in Nat : c = 65535 - v
  <2>1. 65535 - v \in Nat
    BY SMT, NumberOfWord
  <2>2. QED
    BY SMT, <2>1
<1>2. c <= 65535 /\ c < 65536
  BY SMT, NumberOfWord, <1>1
<1>3. c \in Word
  BY SMT, <1>2, WordOfNumber
<1>4. c % 65536 = c /\ v + c = 65535
  BY SMT, <1>1, <1>2, NumberOfWord
<1>5. QED
  BY SMT, <1>1, <1>3, <1>4

(* A number and the complement of what it leaves modulo 2^16 - 1 are a     *)
(* multiple of that.                                                       *)
LEMMA ComplementSum ==
  ASSUME NEW v \in Nat, NEW c \in Nat, v + c = 65535,
         NEW q \in Nat, NEW sum \in Nat, sum = v + 65535 * q
  PROVE  (sum + c) % 65535 = 0
<1>1. sum + c = 65535 * (q + 1)
  BY SMT
<1>2. PICK t \in Nat : t = q + 1
  OBVIOUS
<1>3. sum + c = 65535 * t
  BY SMT, <1>1, <1>2
<1>4. \A n \in Nat : (65535 * n) % 65535 = 0
  BY SMT
<1>5. QED
  BY SMT, <1>3, <1>4

(* A 16-bit number takes two bytes in either order, and comes back from them. *)
LEMMA NumberBytes ==
  ASSUME NEW v \in Word
  PROVE  /\ Net16(v) \in Seq(Octet) /\ Len(Net16(v)) = 2
         /\ Host16(v) \in Seq(Octet) /\ Len(Host16(v)) = 2
         /\ v % 256 \in Octet /\ v \div 256 \in Octet
         /\ (v % 256) + 256 * (v \div 256) = v
<1>1. v % 256 \in Octet /\ v \div 256 \in Octet /\ (v % 256) + 256 * (v \div 256) = v
  BY SMT, NumberOfWord DEF Octet
<1>2. Net16(v) = <<v \div 256, v % 256>> /\ Host16(v) = <<v % 256, v \div 256>>
  BY SMT DEF Net16, Host16
<1>3. QED
  BY SMT, <1>1, <1>2

(* A word in the order of the host adds up to itself.                      *)
LEMMA HostSumOfNumber ==
  ASSUME NEW v \in Word
  PROVE  HostSum(Host16(v)) = v
<1>1. PICK x \in Octet : x = v % 256
  <2>1. v % 256 \in Octet
    BY SMT, NumberBytes
  <2>2. QED
    BY <2>1
<1>2. PICK y \in Octet : y = v \div 256
  <2>1. v \div 256 \in Octet
    BY SMT, NumberBytes
  <2>2. QED
    BY <2>1
<1>3. Host16(v) = <<x, y>>
  BY SMT, <1>1, <1>2 DEF Host16
<1>4. HostSum(<<x, y>>) = x + 256 * y
  BY SMT, HostSumOfPair
<1>5. x + 256 * y = v
  BY SMT, <1>1, <1>2, NumberBytes
<1>6. HostSum(Host16(v)) = HostSum(<<x, y>>)
  BY <1>3, Zenon
<1>7. QED
  BY SMT, <1>4, <1>5, <1>6

(* A number in two bytes is read back by whoever knows where it begins.    *)
Begins(b, n, a) == b \in Seq(Octet) /\ n <= Len(b) /\ \A i \in 1..n : b[i] = a[i]

(* Bytes begin with themselves,                                            *)
LEMMA BeginsItself ==
  ASSUME NEW n \in Nat, NEW b, Bytes(b, n)
  PROVE  Begins(b, n, b)
BY SMT DEF Begins, Bytes

(* and so do they when more bytes follow.                                  *)
LEMMA BeginsLonger ==
  ASSUME NEW n \in Nat, NEW b, NEW a, Begins(b, n, a), NEW c \in Seq(Octet)
  PROVE  Begins(b \o c, n, a)
<1>1. b \in Seq(Octet) /\ n <= Len(b)
  BY SMT DEF Begins
<1>2. PICK x : x = b \o c
  OBVIOUS
<1>3. x \in Seq(Octet) /\ Len(x) = Len(b) + Len(c)
  BY SMT, <1>1, <1>2
<1>4. \A i \in 1..Len(b) : x[i] = b[i]
  BY SMT, <1>1, <1>2
<1>5. \A i \in 1..n : x[i] = a[i]
  BY SMT, <1>1, <1>4 DEF Begins
<1>6. QED
  BY SMT, <1>1, <1>2, <1>3, <1>5 DEF Begins

(* A 16-bit number written behind k words is word k + 1.                   *)
LEMMA NumberReadBack ==
  ASSUME NEW k \in Nat, NEW p, Bytes(p, 2 * k), NEW v \in Word,
         NEW n \in Nat, n = 2 * k + 2, NEW b, Begins(b, n, p \o Net16(v))
  PROVE  NetWords(b)[k + 1] = v
<1>1. p \in Seq(Octet) /\ Len(p) = 2 * k
  BY Zenon DEF Bytes
<1>2. PICK l : l = Net16(v)
  OBVIOUS
<1>3. PICK a : a = p \o l
  OBVIOUS
<1>4. l \in Seq(Octet) /\ l[1] = v \div 256 /\ l[2] = v % 256 /\ Len(l) = 2
  <2>1. l \in Seq(Octet) /\ Len(l) = 2
    BY SMT, <1>2, NumberBytes
  <2>2. l = <<v \div 256, v % 256>>
    BY SMT, <1>2 DEF Net16
  <2>3. QED
    BY SMT, <2>1, <2>2
<1>5. \A i \in 1..Len(l) : a[Len(p) + i] = l[i]
  <2>1. Joined(p \o l, p, l)
    BY <1>1, <1>4, Concatenated, Zenon
  <2>2. QED
    BY <2>1, <1>3, Zenon DEF Joined
<1>6. PICK i \in Nat, j \in Nat : i = 2 * k + 1 /\ j = 2 * k + 2
  BY SMT
<1>7. a[i] = v \div 256 /\ a[j] = v % 256
  BY SMT, <1>1, <1>4, <1>5, <1>6
<1>8. b \in Seq(Octet) /\ n <= Len(b) /\ \A h \in 1..n : b[h] = a[h]
  BY <1>2, <1>3, Zenon DEF Begins
<1>9. b[i] = v \div 256 /\ b[j] = v % 256 /\ i \in 1..Len(b) /\ j \in 1..Len(b)
  BY SMT, <1>6, <1>7, <1>8
<1>10. OctetAt(b, i) = v \div 256 /\ OctetAt(b, j) = v % 256
  BY SMT, <1>8, <1>9 DEF OctetAt
<1>11. PICK h \in Nat : h = k + 1
  OBVIOUS
<1>12. h \in 1..((Len(b) + 1) \div 2)
  BY SMT, <1>6, <1>8, <1>11
<1>13. NetWords(b)[h] = 256 * OctetAt(b, 2 * h - 1) + OctetAt(b, 2 * h)
  BY SMT, <1>12 DEF NetWords
<1>14. 2 * h - 1 = i /\ 2 * h = j
  BY SMT, <1>6, <1>11
<1>15. NetWords(b)[h] = 256 * OctetAt(b, i) + OctetAt(b, j)
  BY <1>13, <1>14
<1>16. PICK x \in Octet : x = v % 256
  <2>1. v % 256 \in Octet
    BY SMT, NumberBytes
  <2>2. QED
    BY <2>1
<1>17. PICK y \in Octet : y = v \div 256
  <2>1. v \div 256 \in Octet
    BY SMT, NumberBytes
  <2>2. QED
    BY <2>1
<1>18. x + 256 * y = v
  BY SMT, <1>16, <1>17, NumberBytes
<1>19. NetWords(b)[h] = v
  <2>1. x \in Nat /\ y \in Nat
    BY SMT DEF Octet
  <2>2. QED
    BY SMT, <2>1, <1>10, <1>15, <1>16, <1>17, <1>18
<1>20. QED
  BY SMT, <1>11, <1>19

(* Two bytes between a part of even length and any other part              *)
LEMMA HostSumAround ==
  ASSUME NEW k \in Nat, NEW pre \in Seq(Octet), Len(pre) = 2 * k,
         NEW check \in Seq(Octet), Len(check) = 2, NEW post \in Seq(Octet)
  PROVE  HostSum(pre \o check \o post) = HostSum(pre) + HostSum(check) + HostSum(post)
<1>1. PICK b \in Seq(Octet) : b = pre \o check /\ Joined(b, pre, check)
  BY Concatenated, Zenon
<1>2. b \in Seq(Octet)
  OBVIOUS
<1>3. Len(b) = Len(pre) + 2
  BY SMT, <1>1 DEF Joined
<1>4. PICK n \in Nat : n = k + 1
  OBVIOUS
<1>5. Len(b) = 2 * n
  BY SMT, <1>3, <1>4
<1>6. HostSum(b \o post) = HostSum(b) + HostSum(post)
  BY SMT, <1>2, <1>5, HostSumOfBoth
<1>7. HostSum(pre \o check) = HostSum(pre) + HostSum(check)
  BY SMT, HostSumOfBoth
<1>8. QED
  BY SMT, <1>1, <1>6, <1>7

Even(b) == b \in Seq(Octet) /\ \E k \in Nat : Len(b) = 2 * k

(* A part with an even number of bytes                                     *)
LEMMA EvenBytes ==
  ASSUME NEW k \in Nat, NEW n \in Nat, n = 2 * k, NEW b, Bytes(b, n)
  PROVE  Even(b)
BY SMT DEF Even, Bytes

(* Two parts of even length are one.                                       *)
LEMMA EvenBoth ==
  ASSUME NEW b, NEW c, Even(b), Even(c)
  PROVE  Even(b \o c)
<1>1. PICK k \in Nat : Len(b) = 2 * k
  BY Zenon DEF Even
<1>2. PICK n \in Nat : Len(c) = 2 * n
  BY Zenon DEF Even
<1>3. b \in Seq(Octet) /\ c \in Seq(Octet)
  BY Zenon DEF Even
<1>4. PICK x : x = b \o c
  OBVIOUS
<1>5. x \in Seq(Octet) /\ Len(x) = Len(b) + Len(c)
  BY SMT, <1>3, <1>4
<1>6. PICK t \in Nat : t = k + n
  OBVIOUS
<1>7. Len(x) = 2 * t
  BY SMT, <1>1, <1>2, <1>5, <1>6
<1>8. Even(x)
  BY <1>5, <1>7, Zenon DEF Even
<1>9. QED
  BY <1>4, <1>8

(* The sum over a part of even length and what follows it                  *)
LEMMA HostSumOfEven ==
  ASSUME NEW b, NEW c \in Seq(Octet), Even(b)
  PROVE  /\ HostSum(b \o c) = HostSum(b) + HostSum(c)
         /\ HostSum(b) \in Nat /\ HostSum(c) \in Nat
<1>1. PICK k \in Nat : b \in Seq(Octet) /\ Len(b) = 2 * k
  BY Zenon DEF Even
<1>2. QED
  BY <1>1, HostSumOfBoth, SumTypes

(* The sum of a number in the order of the wire is its only word.          *)
LEMMA HostSumOfNet ==
  ASSUME NEW v \in Word
  PROVE  HostSum(Net16(v)) = HostWords(Net16(v))[1]
<1>1. PICK y \in Octet : y = v % 256
  <2>1. v % 256 \in Octet
    BY SMT, NumberBytes
  <2>2. QED
    BY <2>1
<1>2. PICK x \in Octet : x = v \div 256
  <2>1. v \div 256 \in Octet
    BY SMT, NumberBytes
  <2>2. QED
    BY <2>1
<1>3. PICK b : b = <<x, y>>
  OBVIOUS
<1>4. Net16(v) = b
  BY SMT, <1>1, <1>2, <1>3 DEF Net16
<1>5. HostSum(b) = x + 256 * y
  BY SMT, <1>1, <1>3, HostSumOfPair
<1>6. HostWords(b)[1] = x + 256 * y
  <2>1. OctetAt(b, 1) = x /\ OctetAt(b, 2) = y
    BY SMT, <1>3 DEF OctetAt
  <2>2. (Len(b) + 1) \div 2 = 1
    BY SMT, <1>3
  <2>3. HostWords(b) = [i \in 1..1 |-> OctetAt(b, 2 * i - 1) + 256 * OctetAt(b, 2 * i)]
    BY SMT, <2>2 DEF HostWords
  <2>4. QED
    BY SMT, <2>1, <2>3
<1>7. QED
  BY <1>4, <1>5, <1>6, Zenon

(* An empty checksum field adds nothing.                                   *)
LEMMA HostSumOfZeros ==
  HostSum(Zeros(2)) = 0
<1>1. Zeros(2) = <<0, 0>> /\ 0 \in Octet
  BY SMT DEF Zeros, Octet
<1>2. HostSum(<<0, 0>>) = 0 + 256 * 0
  BY SMT, <1>1, HostSumOfPair
<1>3. QED
  BY SMT, <1>1, <1>2

(* The sum of the other words and the field that completes it              *)
Completes(sum, check) == sum > 0 /\ (sum + check) % 65535 = 0

(* A sender that stores in the field, in its own order, what completes the *)
(* sum of the other words to a multiple of 2^16 - 1 is accepted.           *)
THEOREM ChecksumAccepted ==
  ASSUME NEW pre, Even(pre), NEW post \in Seq(Octet), NEW check \in Word,
         Completes(HostSum(pre) + HostSum(post), check)
  PROVE  Accepted(pre \o Host16(check) \o post)
<1>0. PICK k \in Nat : pre \in Seq(Octet) /\ Len(pre) = 2 * k
  BY Zenon DEF Even
<1>1. PICK h : h = Host16(check)
  OBVIOUS
<1>2. h \in Seq(Octet) /\ Len(h) = 2 /\ HostSum(h) = check
  BY SMT, <1>1, NumberBytes, HostSumOfNumber
<1>3. PICK b : b = pre \o h \o post
  OBVIOUS
<1>4. b \in Seq(Octet)
  BY SMT, <1>0, <1>2, <1>3
<1>5. HostSum(pre \o h \o post) = HostSum(pre) + HostSum(h) + HostSum(post)
  BY SMT, <1>0, <1>2, HostSumAround
<1>6. PICK s \in Nat, t \in Nat : s = HostSum(pre) /\ t = HostSum(post)
  BY <1>0, SumTypes
<1>7. HostSum(b) = s + t + check
  <2>1. check \in Nat
    BY SMT, NumberOfWord
  <2>2. HostSum(b) = HostSum(pre) + HostSum(h) + HostSum(post)
    BY <1>3, <1>5, Zenon
  <2>3. QED
    BY SMT, <2>1, <2>2, <1>2, <1>6
<1>8. HostSum(b) > 0 /\ HostSum(b) % 65535 = 0
  <2>1. Completes(s + t, check)
    BY <1>6, Zenon
  <2>2. s + t > 0 /\ (s + t + check) % 65535 = 0
    BY SMT, <2>1 DEF Completes
  <2>3. check \in Nat
    BY SMT, NumberOfWord
  <2>4. QED
    BY SMT, <1>7, <2>2, <2>3
<1>9. Accepted(b)
  BY SMT, <1>4, <1>8, AcceptedFromHost
<1>10. QED
  BY <1>1, <1>3, <1>9, Zenon
-----------------------------------------------------------------------------
(* FlattenSeq of the community modules, which is defined by recursion over *)
(* the indices                                                             *)
Flattens(f, s) ==
    f = [i \in 1..Len(s) |-> IF i = 1 THEN s[i] ELSE f[i - 1] \o s[i]]

(* The definition of FlattenSeq, unfolded once                             *)
LEMMA FlattenIsChosen ==
  ASSUME NEW s, Len(s) # 0
  PROVE  FlattenSeq(s) = (CHOOSE f : Flattens(f, s))[Len(s)]
BY Zenon DEF FlattenSeq, Flattens

(* The step of the induction below                                         *)
LEMMA FlattenStep ==
  ASSUME NEW X, NEW n \in Nat, NEW s \in Seq(Seq(X)), Len(s) = n + 1,
         NEW z, z = SubSeq(s, 1, n),
         NEW f \in [1..n -> Seq(X)], Flattens(f, z)
  PROVE  \E g \in [1..(n + 1) -> Seq(X)] : Flattens(g, s)
<1>1. z \in Seq(Seq(X)) /\ Len(z) = n /\ \A i \in 1..n : z[i] = s[i]
  OBVIOUS
<1>2. PICK h : h = IF n = 0 THEN s[n + 1] ELSE f[n] \o s[n + 1]
  OBVIOUS
<1>3. h \in Seq(X)
  <2>1. s[n + 1] \in Seq(X)
    OBVIOUS
  <2>2. n # 0 => f[n] \in Seq(X)
    OBVIOUS
  <2>3. QED
    BY <1>2, <2>1, <2>2
<1>4. PICK g : g = [i \in 1..(n + 1) |-> IF i = n + 1 THEN h ELSE f[i]]
  OBVIOUS
<1>5. g \in [1..(n + 1) -> Seq(X)]
  BY <1>3, <1>4
<1>6. ASSUME NEW i \in 1..(n + 1)
      PROVE  g[i] = IF i = 1 THEN s[i] ELSE g[i - 1] \o s[i]
  <2>1. CASE i = n + 1
    <3>1. CASE n = 0
      BY <1>2, <1>4, <2>1, <3>1
    <3>2. CASE n # 0
      <4>1. g[n] = f[n] /\ i # 1 /\ i - 1 = n
        BY <1>4, <2>1, <3>2
      <4>2. g[i] = h /\ h = f[n] \o s[n + 1]
        BY <1>2, <1>4, <2>1, <3>2
      <4>3. QED
        BY <2>1, <4>1, <4>2
    <3>3. QED
      BY <3>1, <3>2
  <2>2. CASE i # n + 1
    <3>1. i \in 1..n
      BY <2>2
    <3>2. g[i] = f[i]
      BY <1>4, <2>2
    <3>3. f[i] = IF i = 1 THEN z[i] ELSE f[i - 1] \o z[i]
      BY <1>1, <3>1 DEF Flattens
    <3>4. CASE i = 1
      BY <1>1, <3>1, <3>2, <3>3, <3>4
    <3>5. CASE i # 1
      <4>1. i - 1 \in 1..(n + 1) /\ i - 1 # n + 1
        BY <3>1, <3>5
      <4>2. g[i - 1] = f[i - 1]
        BY <1>4, <4>1
      <4>3. QED
        BY <1>1, <3>1, <3>2, <3>3, <3>5, <4>2
    <3>6. QED
      BY <3>4, <3>5
  <2>3. QED
    BY <2>1, <2>2
<1>7. Flattens(g, s)
  <2>1. g = [i \in 1..(n + 1) |-> g[i]]
    BY <1>4
  <2>2. g = [i \in 1..(n + 1) |-> IF i = 1 THEN s[i] ELSE g[i - 1] \o s[i]]
    BY <1>6, <2>1
  <2>3. QED
    BY <2>2 DEF Flattens
<1>8. QED
  BY <1>5, <1>7

FlattensAll(X, n) ==
    \A s \in Seq(Seq(X)) :
        Len(s) = n => \E f \in [1..n -> Seq(X)] : Flattens(f, s)

(* A function that obeys the equation exists, and yields sequences.        *)
LEMMA FlattenExists ==
  ASSUME NEW X
  PROVE  \A n \in Nat : FlattensAll(X, n)
<1> DEFINE T == {n \in Nat : FlattensAll(X, n)}
<1>1. 0 \in T
  <2>1. FlattensAll(X, 0)
    <3> SUFFICES ASSUME NEW s \in Seq(Seq(X)), Len(s) = 0
                 PROVE  \E f \in [1..0 -> Seq(X)] : Flattens(f, s)
      BY DEF FlattensAll
    <3>1. PICK f : f = [i \in 1..0 |-> <<>>]
      OBVIOUS
    <3>2. f \in [1..0 -> Seq(X)] /\ Flattens(f, s)
      BY <3>1 DEF Flattens
    <3>3. QED
      BY <3>2
  <2>2. QED
    BY <2>1
<1>2. ASSUME NEW n \in T PROVE n + 1 \in T
  <2>1. n \in Nat /\ n + 1 \in Nat /\ FlattensAll(X, n)
    OBVIOUS
  <2>2. FlattensAll(X, n + 1)
    <3> SUFFICES ASSUME NEW s \in Seq(Seq(X)), Len(s) = n + 1
                 PROVE  \E f \in [1..(n + 1) -> Seq(X)] : Flattens(f, s)
      BY DEF FlattensAll
    <3>1. PICK z : z = SubSeq(s, 1, n)
      OBVIOUS
    <3>2. z \in Seq(Seq(X)) /\ Len(z) = n
      BY <2>1, <3>1
    <3>3. PICK f \in [1..n -> Seq(X)] : Flattens(f, z)
      BY <2>1, <3>2 DEF FlattensAll
    <3>4. QED
      BY <2>1, <3>1, <3>3, FlattenStep, Zenon
  <2>3. QED
    BY <2>1, <2>2
<1>3. T \in SUBSET Nat
  OBVIOUS
<1>4. T = Nat
  <2> HIDE DEF T
  <2>1. QED
    BY <1>1, <1>2, <1>3, Induction
<1>5. QED
  BY <1>4

(* The equation at one index                                               *)
LEMMA FlattensAt ==
  ASSUME NEW s, NEW f, Flattens(f, s), Len(s) \in Nat, NEW m \in 1..Len(s)
  PROVE  f[m] = IF m = 1 THEN s[m] ELSE f[m - 1] \o s[m]
BY DEF Flattens

(* Two of them agree as far as the sequences do.                           *)
Agree(f, g, n) == \A i \in 1..n : f[i] = g[i]

(* Where two sequences agree, so do what they flatten to: a least index    *)
(* where they do not would contradict the equation.                        *)
LEMMA FlattensAgree ==
  ASSUME NEW n \in Nat, NEW s, NEW z, NEW f, NEW g, Flattens(f, s), Flattens(g, z),
         Len(s) \in Nat, Len(z) \in Nat, n <= Len(s), n <= Len(z), Agree(s, z, n)
  PROVE  Agree(f, g, n)
<1>1. SUFFICES ASSUME {i \in Nat : i \in 1..n /\ f[i] # g[i]} # {}
               PROVE  FALSE
  BY DEF Agree
<1>2. PICK T \in SUBSET Nat : T = {i \in Nat : i \in 1..n /\ f[i] # g[i]}
  OBVIOUS
<1>3. PICK m \in T : \A i \in T : m <= i
  BY <1>1, <1>2, LeastNumber, Zenon
<1>4. m \in 1..n /\ f[m] # g[m]
  BY <1>2
<1>5. m \in 1..Len(s) /\ m \in 1..Len(z)
  BY <1>4
<1>6. f[m] = IF m = 1 THEN s[m] ELSE f[m - 1] \o s[m]
  BY <1>5, FlattensAt, Zenon
<1>7. g[m] = IF m = 1 THEN z[m] ELSE g[m - 1] \o z[m]
  BY <1>5, FlattensAt, Zenon
<1>8. s[m] = z[m]
  BY <1>4 DEF Agree
<1>9. CASE m = 1
  BY <1>4, <1>6, <1>7, <1>8, <1>9
<1>10. CASE m # 1
  <2>1. m - 1 \in 1..n /\ m - 1 \in Nat /\ ~(m <= m - 1)
    BY <1>4, <1>10
  <2>2. f[m - 1] = g[m - 1]
    BY <1>2, <1>3, <2>1
  <2>3. QED
    BY <1>4, <1>6, <1>7, <1>8, <1>10, <2>2
<1>11. QED
  BY <1>9, <1>10

(* Nothing flattens to nothing.                                            *)
LEMMA FlattenOfNone ==
  ASSUME NEW s, Len(s) = 0
  PROVE  FlattenSeq(s) = s
BY Zenon DEF FlattenSeq

(* The last part comes behind what the others flatten to.                  *)
LEMMA FlattenOfMore ==
  ASSUME NEW X, NEW n \in Nat, NEW s \in Seq(Seq(X)), Len(s) = n + 1,
         NEW z, z = SubSeq(s, 1, n)
  PROVE  /\ FlattenSeq(z) \in Seq(X)
         /\ FlattenSeq(s) = FlattenSeq(z) \o s[n + 1]
<1>1. z \in Seq(Seq(X)) /\ Len(z) = n /\ \A i \in 1..n : s[i] = z[i]
  OBVIOUS
<1>2. n + 1 \in Nat /\ s[n + 1] \in Seq(X)
  OBVIOUS
<1>3. PICK f : Flattens(f, s) /\ FlattenSeq(s) = f[n + 1] /\ Len(s) # 0
  <2>1. \E f : Flattens(f, s)
    BY <1>2, FlattenExists, Zenon DEF FlattensAll
  <2>2. Len(s) # 0
    OBVIOUS
  <2>3. FlattenSeq(s) = (CHOOSE f : Flattens(f, s))[Len(s)]
    BY <2>2, FlattenIsChosen, Zenon
  <2>4. PICK f : f = CHOOSE g : Flattens(g, s)
    OBVIOUS
  <2>5. Flattens(f, s)
    BY <2>1, <2>4, Zenon
  <2>6. FlattenSeq(s) = f[n + 1]
    BY <2>3, <2>4, Zenon
  <2>7. QED
    BY <2>2, <2>5, <2>6
<1>4. CASE n = 0
  <2>1. FlattenSeq(z) = z
    BY <1>1, <1>4, FlattenOfNone
  <2>2. z = <<>>
    BY <1>1, <1>4
  <2>3. f[n + 1] = s[n + 1]
    BY <1>3, <1>4 DEF Flattens
  <2>4. FlattenSeq(z) = <<>>
    BY <2>1, <2>2
  <2>5. <<>> \o s[n + 1] = s[n + 1] /\ <<>> \in Seq(X)
    BY <1>2
  <2>6. FlattenSeq(s) = s[n + 1]
    BY <1>3, <2>3
  <2>7. QED
    BY <2>4, <2>5, <2>6, Zenon
<1>5. CASE n # 0
  <2>1. PICK g \in [1..n -> Seq(X)] : Flattens(g, z) /\ FlattenSeq(z) = g[n]
    <3>1. PICK h \in [1..n -> Seq(X)] : Flattens(h, z)
      BY <1>1, FlattenExists, Zenon DEF FlattensAll
    <3>2. Len(z) # 0
      BY <1>1, <1>5
    <3>3. FlattenSeq(z) = (CHOOSE h_1 : Flattens(h_1, z))[Len(z)]
      BY <3>2, FlattenIsChosen, Zenon
    <3>4. PICK g : g = CHOOSE h_1 : Flattens(h_1, z)
      OBVIOUS
    <3>5. Flattens(g, z)
      BY <3>1, <3>4, Zenon
    <3>6. FlattenSeq(z) = g[n]
      BY <1>1, <3>3, <3>4, Zenon
    <3>7. \A i \in 1..n : g[i] = h[i]
      <4>1. Agree(z, z, n) /\ Len(z) \in Nat /\ n <= Len(z)
        BY <1>1 DEF Agree
      <4>2. Agree(g, h, n)
        BY <4>1, <3>1, <3>5, FlattensAgree, Zenon
      <4>3. QED
        BY <4>2 DEF Agree
    <3>8. g = [i \in 1..n |-> g[i]]
      BY <1>1, <3>5 DEF Flattens
    <3>9. g \in [1..n -> Seq(X)]
      BY <3>1, <3>7, <3>8
    <3>10. QED
      BY <3>5, <3>6, <3>9
  <2>2. \A i \in 1..n : f[i] = g[i]
    <3>1. /\ Agree(s, z, n) /\ Len(z) \in Nat /\ n <= Len(z)
          /\ Len(s) \in Nat /\ n <= Len(s)
      BY <1>1 DEF Agree
    <3>2. Agree(f, g, n)
      BY <3>1, <1>3, <2>1, FlattensAgree, Zenon
    <3>3. QED
      BY <3>2 DEF Agree
  <2>3. f[n + 1] = f[n] \o s[n + 1]
    <3>1. n + 1 \in 1..Len(s) /\ n + 1 # 1 /\ (n + 1) - 1 = n
      BY <1>5
    <3>2. QED
      BY <1>3, <3>1 DEF Flattens
  <2>4. f[n] = g[n] /\ g[n] \in Seq(X)
    BY <1>5, <2>1, <2>2
  <2>5. QED
    BY <1>3, <2>1, <2>3, <2>4
<1>6. QED
  BY <1>4, <1>5
-----------------------------------------------------------------------------
(* The sum of words of 16 bits is bounded by their number.                 *)
Words(w, n) == w \in Seq(Nat) /\ Len(w) = n /\ \A i \in 1..n : w[i] <= 65535

(* Words without the last one                                              *)
LEMMA WordsShorter ==
  ASSUME NEW n \in Nat, NEW w, Words(w, n + 1)
  PROVE  Words(SubSeq(w, 1, n), n) /\ w[n + 1] \in Nat /\ w[n + 1] <= 65535
<1>1. w \in Seq(Nat) /\ Len(w) = n + 1 /\ \A i \in 1..(n + 1) : w[i] <= 65535
  BY SMT DEF Words
<1>2. PICK z : z = SubSeq(w, 1, n)
  OBVIOUS
<1>3. z \in Seq(Nat) /\ Len(z) = n /\ \A i \in 1..n : z[i] = w[i]
  BY SMT, <1>1, <1>2, Shorter
<1>4. Words(z, n)
  BY SMT, <1>1, <1>3 DEF Words
<1>5. w[n + 1] \in Nat /\ w[n + 1] <= 65535
  BY SMT, <1>1
<1>6. QED
  BY SMT, <1>2, <1>4, <1>5

Within(n) == \A w : Words(w, n) => SumFunction(w) <= 65535 * n

(* No words add up to nothing.                                             *)
LEMMA WithinNone == Within(0)
<1>1. ASSUME NEW w, Words(w, 0) PROVE SumFunction(w) <= 65535 * 0
  <2>1. w = <<>>
    BY SMT, <1>1 DEF Words
  <2>2. SumFunction(w) = 0
    BY <2>1, SumOfNone, Zenon
  <2>3. QED
    BY SMT, <2>2
<1>2. QED
  BY SMT, <1>1 DEF Within

(* One more word adds 2^16 - 1 at the most.                                *)
LEMMA WithinMore ==
  ASSUME NEW n \in Nat, Within(n)
  PROVE  Within(n + 1)
<1>1. ASSUME NEW w, Words(w, n + 1) PROVE SumFunction(w) <= 65535 * (n + 1)
  <2>1. Words(SubSeq(w, 1, n), n) /\ w[n + 1] \in Nat /\ w[n + 1] <= 65535
    BY SMT, <1>1, WordsShorter
  <2>2. w \in Seq(Nat) /\ Len(w) = n + 1
    BY SMT, <1>1 DEF Words
  <2>3. /\ SumFunction(w) = SumFunction(SubSeq(w, 1, n)) + w[n + 1]
        /\ SumFunction(SubSeq(w, 1, n)) \in Nat
    BY SMT, <2>2, SumOfMore
  <2>4. SumFunction(SubSeq(w, 1, n)) <= 65535 * n
    BY SMT, <2>1 DEF Within
  <2>5. QED
    BY SMT, <2>1, <2>3, <2>4
<1>2. QED
  BY SMT, <1>1 DEF Within

(* So the bound holds of any number of words,                              *)
LEMMA SumOfWords == \A n \in Nat : Within(n)
<1> DEFINE T == {n \in Nat : Within(n)}
<1>1. 0 \in T
  BY WithinNone
<1>2. ASSUME NEW n \in T PROVE n + 1 \in T
  <2>1. n \in Nat /\ n + 1 \in Nat /\ Within(n)
    OBVIOUS
  <2>2. QED
    BY <2>1, WithinMore
<1>3. T \in SUBSET Nat
  OBVIOUS
<1>4. T = Nat
  <2> HIDE DEF T
  <2>1. QED
    BY <1>1, <1>2, <1>3, Induction
<1>5. QED
  BY <1>4

(* and of the words of 2n bytes.                                           *)
LEMMA HostSumBounded ==
  ASSUME NEW n \in Nat, NEW b, Bytes(b, 2 * n)
  PROVE  HostSum(b) <= 65535 * n
<1>1. b \in Seq(Octet) /\ Len(b) = 2 * n
  BY SMT DEF Bytes
<1>2. PICK w : w = HostWords(b)
  OBVIOUS
<1>3. w \in Seq(Nat)
  BY SMT, <1>1, <1>2, WordTypes
<1>4. (Len(b) + 1) \div 2 = n
  BY SMT, <1>1
<1>5. w = [i \in 1..n |-> OctetAt(b, 2 * i - 1) + 256 * OctetAt(b, 2 * i)]
  BY SMT, <1>2, <1>4 DEF HostWords
<1>6. ASSUME NEW i \in 1..n PROVE w[i] <= 65535
  <2>1. 2 * i \in Int /\ 2 * i - 1 \in Int
    BY SMT
  <2>2. PICK x : x = OctetAt(b, 2 * i - 1)
    OBVIOUS
  <2>3. PICK y : y = OctetAt(b, 2 * i)
    OBVIOUS
  <2>4. x \in Nat /\ x <= 255 /\ y \in Nat /\ y <= 255
    BY SMT, <1>1, <2>1, <2>2, <2>3, OctetTypes
  <2>5. w[i] = x + 256 * y
    BY SMT, <1>5, <2>2, <2>3
  <2>6. QED
    BY SMT, <2>4, <2>5
<1>7. Len(w) = n
  BY SMT, <1>3, <1>5
<1>8. Words(w, n)
  BY SMT, <1>3, <1>6, <1>7 DEF Words
<1>9. QED
  BY SMT, <1>2, <1>8, SumOfWords DEF HostSum, Within
-----------------------------------------------------------------------------
(* An ethernet frame                                                      *)
LEMMA HardwareAddress ==
  ASSUME NEW m \in [1..6 -> Octet]
  PROVE  Bytes(m, 6)
<1>1. 6 \in Nat
  OBVIOUS
<1>2. QED
  BY <1>1, ArrayBytes, Zenon

Addressed(m) == <<255, 255, 255, 255, 255, 255>> \o m \o <<8, 0>>

(* The header that broadcasts a frame has 14 bytes.                        *)
LEMMA AddressedBytes ==
  ASSUME NEW m \in [1..6 -> Octet]
  PROVE  Bytes(Addressed(m), 14)
<1>1. PICK b : b = <<255, 255, 255, 255, 255, 255>>
  OBVIOUS
<1>2. PICK t : t = <<8, 0>>
  OBVIOUS
<1>3. Bytes(b, 6) /\ Bytes(t, 2) /\ Bytes(m, 6)
  <2>1. 255 \in Octet /\ 8 \in Octet /\ 0 \in Octet
    BY SMT DEF Octet
  <2>2. Bytes(b, 6) /\ Bytes(t, 2)
    BY SMT, <1>1, <1>2, <2>1 DEF Bytes
  <2>3. QED
    BY <2>2, HardwareAddress
<1>4. Addressed(m) = b \o m \o t
  BY SMT, <1>1, <1>2 DEF Addressed
<1>5. Bytes(b \o m, 6 + 6)
  BY SMT, <1>3, BytesOfBoth
<1>6. Bytes(b \o m \o t, 6 + 6 + 2)
  <2>1. 6 + 6 \in Nat /\ 2 \in Nat
    BY SMT
  <2>2. QED
    BY <2>1, <1>3, <1>5, BytesOfBoth, Zenon
<1>7. 6 + 6 + 2 = 14
  BY SMT
<1>8. QED
  BY <1>4, <1>6, <1>7

(* The parts of a frame                                                    *)
Parts(f, n, e, ip, u, d) ==
    /\ Bytes(e, 14) /\ Bytes(ip, 20) /\ Bytes(u, 8) /\ Bytes(d, n)
    /\ f = e \o ip \o u \o d

IpOf(f) == SubSeq(f, 15, 34)
UdpOf(f) == SubSeq(f, 35, Len(f))

(* Receivers that look at fixed offsets find the parts there.              *)
LEMMA PartsOfFrame ==
  ASSUME NEW n \in Nat, NEW f, NEW e, NEW ip, NEW u, NEW d,
         Parts(f, n, e, ip, u, d)
  PROVE  /\ Bytes(f, n + 42)
         /\ IpOf(f) = ip
         /\ UdpOf(f) = u \o d
         /\ Bytes(u \o d, n + 8)
<1>1. Bytes(e, 14) /\ Bytes(ip, 20) /\ Bytes(u, 8) /\ Bytes(d, n)
  BY Zenon DEF Parts
<1>2. PICK i \in Nat, j \in Nat, k \in Nat : i = 14 /\ j = 20 /\ k = 8
  BY SMT
<1>3. Bytes(e, i) /\ Bytes(ip, j) /\ Bytes(u, k)
  BY <1>1, <1>2
<1>4. i + j \in Nat /\ i + j + k \in Nat
  OBVIOUS
<1>5. PICK x : x = e \o ip
  OBVIOUS
<1>6. Bytes(x, i + j)
  BY <1>3, <1>5, BytesOfBoth, Zenon
<1>7. PICK y : y = u \o d
  OBVIOUS
<1>8. Bytes(y, k + n)
  BY <1>1, <1>3, <1>7, BytesOfBoth, Zenon
<1>9. f = x \o y
  <2>1. x \in Seq(Octet) /\ u \in Seq(Octet) /\ d \in Seq(Octet)
    BY <1>1, <1>6, Zenon DEF Bytes
  <2>2. f = (x \o u) \o d
    BY <1>5, Zenon DEF Parts
  <2>3. x \o (u \o d) = (x \o u) \o d
    BY SMTT(30), <2>1
  <2>4. QED
    BY <2>2, <2>3, <1>7, Zenon
<1>10. k + n \in Nat
  OBVIOUS
<1>11. Bytes(f, (i + j) + (k + n))
  BY <1>4, <1>6, <1>8, <1>9, <1>10, BytesOfBoth, Zenon
<1>12. SubSeq(x \o y, i + 1, i + j) = ip
  <2>1. y \in Seq(Octet)
    BY <1>8, Zenon DEF Bytes
  <2>2. SubSeq((e \o ip) \o y, i + 1, i + j) = ip
    BY <1>3, <2>1, CutMiddle, Zenon
  <2>3. QED
    BY <1>5, <2>2, Zenon
<1>13. SubSeq(x \o y, (i + j) + 1, Len(x \o y)) = y
  BY <1>4, <1>6, <1>8, <1>10, CutRest, Zenon
<1>14. IpOf(f) = ip
  <2>1. i + 1 = 15 /\ i + j = 34
    BY SMT, <1>2
  <2>2. QED
    BY <2>1, <1>9, <1>12, Zenon DEF IpOf
<1>15. UdpOf(f) = y
  <2>1. (i + j) + 1 = 35
    BY SMT, <1>2
  <2>2. QED
    BY SMT, <2>1, <1>9, <1>13 DEF UdpOf
<1>16. (i + j) + (k + n) = n + 42 /\ k + n = n + 8
  BY SMT, <1>2
<1>17. QED
  BY SMT, <1>7, <1>8, <1>11, <1>14, <1>15, <1>16
(* Behind its first n bytes x carries the k bytes c.                       *)
Carries(x, n, k, c) ==
    \E p, d : Bytes(p, n) /\ Bytes(c, k) /\ d \in Seq(Octet) /\ x = (p \o c) \o d

(* What lies at the end is carried,                                        *)
LEMMA CarriesItself ==
  ASSUME NEW p, NEW c, NEW n \in Nat, NEW k \in Nat, Bytes(p, n), Bytes(c, k)
  PROVE  Carries(p \o c, n, k, c)
<1>1. p \o c \in Seq(Octet)
  BY SMT DEF Bytes
<1>2. PICK x : x = p \o c
  OBVIOUS
<1>3. x = x \o <<>> /\ <<>> \in Seq(Octet)
  BY SMT, <1>1, <1>2
<1>4. x = (p \o c) \o <<>>
  BY <1>2, <1>3, Zenon
<1>5. QED
  BY <1>2, <1>3, <1>4, Zenon DEF Carries

(* also when more bytes follow,                                            *)
LEMMA CarriesMore ==
  ASSUME NEW x, NEW n \in Nat, NEW k \in Nat, NEW c, Carries(x, n, k, c),
         NEW y \in Seq(Octet)
  PROVE  Carries(x \o y, n, k, c)
<1>1. PICK p : \E d : Bytes(p, n) /\ Bytes(c, k) /\ d \in Seq(Octet) /\ x = (p \o c) \o d
  BY Zenon DEF Carries
<1>2. PICK d : Bytes(p, n) /\ Bytes(c, k) /\ d \in Seq(Octet) /\ x = (p \o c) \o d
  BY <1>1, Zenon
<1>3. PICK z : z = p \o c
  OBVIOUS
<1>4. z \in Seq(Octet)
  BY SMT, <1>2, <1>3 DEF Bytes
<1>5. z \o (d \o y) = (z \o d) \o y
  BY <1>2, <1>4, Associative, Zenon
<1>6. x \o y = z \o (d \o y)
  BY <1>2, <1>3, <1>5, Zenon
<1>7. d \o y \in Seq(Octet)
  BY SMT, <1>2
<1>8. QED
  BY <1>2, <1>3, <1>6, <1>7, Zenon DEF Carries

(* and further behind when bytes are put in front;                         *)
LEMMA CarriesBehind ==
  ASSUME NEW x, NEW n \in Nat, NEW k \in Nat, NEW c, Carries(x, n, k, c),
         NEW j \in Nat, NEW y, Bytes(y, j)
  PROVE  Carries(y \o x, j + n, k, c)
<1>1. PICK p : \E d : Bytes(p, n) /\ Bytes(c, k) /\ d \in Seq(Octet) /\ x = (p \o c) \o d
  BY Zenon DEF Carries
<1>2. PICK d : Bytes(p, n) /\ Bytes(c, k) /\ d \in Seq(Octet) /\ x = (p \o c) \o d
  BY <1>1, Zenon
<1>3. p \in Seq(Octet) /\ c \in Seq(Octet) /\ y \in Seq(Octet)
  BY <1>2, Zenon DEF Bytes
<1>4. Regroups(y, p, c, d)
  BY <1>2, <1>3, Regrouped, Zenon
<1>5. y \o x = ((y \o p) \o c) \o d
  BY <1>2, <1>4, Zenon DEF Regroups
<1>6. Bytes(y \o p, j + n)
  BY <1>2, BytesOfBoth, Zenon
<1>7. QED
  BY <1>2, <1>5, <1>6, Zenon DEF Carries

(* and a receiver cuts out just that.                                      *)
LEMMA CarriedCut ==
  ASSUME NEW x, NEW n \in Nat, NEW k \in Nat, NEW c, Carries(x, n, k, c)
  PROVE  SubSeq(x, n + 1, n + k) = c
<1>1. PICK p : \E d : Bytes(p, n) /\ Bytes(c, k) /\ d \in Seq(Octet) /\ x = (p \o c) \o d
  BY Zenon DEF Carries
<1>2. PICK d : Bytes(p, n) /\ Bytes(c, k) /\ d \in Seq(Octet) /\ x = (p \o c) \o d
  BY <1>1, Zenon
<1>3. SubSeq((p \o c) \o d, n + 1, n + k) = c
  BY <1>2, CutMiddle, Zenon
<1>4. QED
  BY <1>2, <1>3, Zenon
(* A sequence that is another one behind a third is their concatenation.   *)
Both(x, u, v) == x = u \o v

(* A sequence joined of two parts is their concatenation.                  *)
LEMMA JoinedBoth ==
  ASSUME NEW S, NEW u \in Seq(S), NEW v \in Seq(S), NEW x \in Seq(S), Joined(x, u, v)
  PROVE  Both(x, u, v)
<1>1. PICK y : y = u \o v
  OBVIOUS
<1>2. y \in Seq(S) /\ Joined(y, u, v)
  BY <1>1, Concatenated, Zenon
<1>3. x = y
  BY <1>2, JoinedOnce, Zenon
<1>4. QED
  BY <1>1, <1>3, Zenon DEF Both
=============================================================================
