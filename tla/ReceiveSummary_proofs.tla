----------------------- MODULE ReceiveSummary_proofs -----------------------
(***************************************************************************)
(* Proofs about the counters of the receive side, for every packet and     *)
(* every policy.  The first part is about sums over a finite set, by which *)
(* the models express the code's iter().map(..).sum(): they are stated for *)
(* SumFunctionOnSet of the Functions module.                               *)
(***************************************************************************)
EXTENDS ReceiveSummary, VideoIngest_proofs

\* A nonempty set of naturals has a least element.
LEMMA NatMin ==
    ASSUME NEW T, T \subseteq Nat, T # {}
    PROVE  \E m \in T : \A n \in T : m <= n
<1> DEFINE R == OpToRel(<, Nat)
<1>1. IsWellFoundedOn(R, Nat)
  BY NatLessThanWellFounded
<1>2. \E x \in T : \A y \in T : ~(<<y, x>> \in R)
  <2> HIDE DEF R
  <2> QED BY <1>1, WFMin
<1>3. ASSUME NEW x \in Nat, NEW y \in Nat, ~(<<y, x>> \in R) PROVE x <= y
  BY <1>3 DEF OpToRel
<1> HIDE DEF R
<1>4. PICK x \in T : \A y \in T : ~(<<y, x>> \in R)
  BY <1>2
<1>5. \A y \in T : x <= y
  BY <1>3, <1>4
<1> QED BY <1>5

\* Induction over the naturals, for a set.
LEMMA NatInductive ==
    ASSUME NEW T, 0 \in T, \A n \in Nat : n \in T => n + 1 \in T
    PROVE  Nat \subseteq T
<1> SUFFICES ASSUME Nat \ T # {} PROVE FALSE
  OBVIOUS
<1>1. PICK m \in Nat \ T : \A n \in Nat \ T : m <= n
  <2> DEFINE U == Nat \ T
  <2>1. U \subseteq Nat /\ U # {}
    OBVIOUS
  <2> HIDE DEF U
  <2>2. \E m \in U : \A n \in U : m <= n
    BY <2>1, NatMin
  <2> QED BY <2>2 DEF U
<1>2. m # 0
  BY <1>1
<1>3. m - 1 \in T
  BY <1>1, <1>2
<1>4. (m - 1) + 1 \in T
  BY <1>2, <1>3
<1> QED BY <1>4

---------------------------------------------------------------------------
\* The partial sums of f, as the fold builds them.
Picked(s) == CHOOSE x \in s : TRUE

Adds(f, g, s) == IF s = {} THEN 0 ELSE f[Picked(s)] + g[s \ {Picked(s)}]

PartialSums(f, S, g) == g = [s \in SUBSET S |-> Adds(f, g, s)]

\* The element a fold takes out is one of the set.
LEMMA PickedIsElement == ASSUME NEW s, s # {} PROVE Picked(s) \in s
  BY DEF Picked

\* The fold's recursion has a solution on a finite set.
LEMMA PartialSumsExist ==
    ASSUME NEW S, IsFiniteSet(S), NEW f
    PROVE  \E g : PartialSums(f, S, g)
<1> DEFINE UpTo(n, g) == \A s \in SUBSET S : Cardinality(s) <= n => g[s] = Adds(f, g, s)
           T == { n \in Nat : \E g : g = [s \in SUBSET S |-> g[s]] /\ UpTo(n, g) }
<1>0. \A s \in SUBSET S : IsFiniteSet(s) /\ Cardinality(s) \in Nat
  BY FS_Subset, FS_CardinalityType
<1>1. 0 \in T
  <2> DEFINE g == [s \in SUBSET S |-> 0]
  <2>1. ASSUME NEW s \in SUBSET S, Cardinality(s) <= 0 PROVE g[s] = Adds(f, g, s)
    <3>1. s = {}
      BY <1>0, <2>1, FS_EmptySet
    <3> QED BY <3>1 DEF Adds
  <2> QED BY <2>1
<1>2. ASSUME NEW n \in Nat, n \in T PROVE n + 1 \in T
  <2>1. PICK g : g = [s \in SUBSET S |-> g[s]] /\ UpTo(n, g)
    BY <1>2
  <2> DEFINE h == [s \in SUBSET S |-> Adds(f, g, s)]
  <2>2. ASSUME NEW s \in SUBSET S, Cardinality(s) <= n + 1 PROVE h[s] = Adds(f, h, s)
    <3>1. CASE s = {}
      BY <3>1 DEF Adds
    <3>2. CASE s # {}
      <4> DEFINE t == s \ {Picked(s)}
      <4>1. Picked(s) \in s
        BY <3>2, PickedIsElement
      <4>2. t \in SUBSET S /\ Cardinality(t) <= n
        BY <1>0, <2>2, <4>1, FS_RemoveElement
      <4>3. g[t] = Adds(f, g, t) /\ h[t] = Adds(f, g, t)
        BY <2>1, <4>2
      <4>4. h[s] = f[Picked(s)] + g[t]
        BY <3>2 DEF Adds
      <4>5. Adds(f, h, s) = f[Picked(s)] + h[t]
        BY <3>2 DEF Adds
      <4> QED BY <4>3, <4>4, <4>5
    <3> QED BY <3>1, <3>2
  <2>3. UpTo(n + 1, h)
    BY <2>2
  <2>4. h = [s \in SUBSET S |-> h[s]]
    OBVIOUS
  <2> HIDE DEF h, UpTo
  <2> QED BY <2>3, <2>4
<1>3. Nat \subseteq T
  <2> HIDE DEF T
  <2> QED BY <1>1, <1>2, NatInductive
<1>4. Cardinality(S) \in T
  BY <1>0, <1>3
<1>5. PICK g : g = [s \in SUBSET S |-> g[s]] /\ UpTo(Cardinality(S), g)
  BY <1>4
<1>6. \A s \in SUBSET S : Cardinality(s) <= Cardinality(S)
  BY FS_Subset
<1>7. \A s \in SUBSET S : g[s] = Adds(f, g, s)
  BY <1>5, <1>6
<1>8. g = [s \in SUBSET S |-> Adds(f, g, s)]
  BY <1>5, <1>7
<1> QED BY <1>8 DEF PartialSums

\* ... and the sum is its value on the whole set.
LEMMA SumIsPartialSum ==
    ASSUME NEW S, IsFiniteSet(S), NEW f
    PROVE  \E g : PartialSums(f, S, g) /\ SumFunctionOnSet(f, S) = g[S]
<1> DEFINE g == CHOOSE iter : PartialSums(f, S, iter)
<1>1. PartialSums(f, S, g)
  BY PartialSumsExist
<1>2. SumFunctionOnSet(f, S) = g[S]
  BY DEF SumFunctionOnSet, FoldFunctionOnSet, MapThenFoldSet, PartialSums, Adds, Picked
<1> HIDE DEF g
<1> QED BY <1>1, <1>2

---------------------------------------------------------------------------
\* It does not matter which element a partial sum takes first.
LEMMA PartialSumRemoves ==
    ASSUME NEW S, IsFiniteSet(S), NEW f, \A x \in S : f[x] \in Nat, NEW g, PartialSums(f, S, g)
    PROVE  \A s \in SUBSET S : g[s] \in Nat /\ \A x \in s : g[s] = f[x] + g[s \ {x}]
<1> DEFINE Holds(s) == g[s] \in Nat /\ \A x \in s : g[s] = f[x] + g[s \ {x}]
           T == { n \in Nat : \A s \in SUBSET S : Cardinality(s) <= n => Holds(s) }
<1>0. \A s \in SUBSET S : IsFiniteSet(s) /\ Cardinality(s) \in Nat /\ Cardinality(s) <= Cardinality(S)
  BY FS_Subset, FS_CardinalityType
<1>g. \A s \in SUBSET S : g[s] = Adds(f, g, s)
  BY DEF PartialSums
<1>1. 0 \in T
  <2>1. ASSUME NEW s \in SUBSET S, Cardinality(s) <= 0 PROVE Holds(s)
    <3>1. s = {}
      BY <1>0, <2>1, FS_EmptySet
    <3> QED BY <1>g, <3>1 DEF Adds
  <2> QED BY <2>1
<1>2. ASSUME NEW n \in Nat, n \in T PROVE n + 1 \in T
  <2>1. ASSUME NEW s \in SUBSET S, Cardinality(s) <= n + 1 PROVE Holds(s)
    <3>1. CASE s = {}
      <4>1. g[s] = 0
        BY <1>g, <3>1 DEF Adds
      <4> QED BY <3>1, <4>1
    <3>2. CASE s # {}
      <4> DEFINE p == Picked(s)
      <4>1. p \in s /\ p \in S
        BY <3>2, PickedIsElement
      <4>2. g[s] = f[p] + g[s \ {p}]
        BY <1>g, <3>2 DEF Adds
      <4> HIDE DEF p
      <4>3. ASSUME NEW x \in s PROVE s \ {x} \in SUBSET S /\ Holds(s \ {x})
        <5>1. s \ {x} \in SUBSET S /\ Cardinality(s \ {x}) <= n
          BY <1>0, <2>1, FS_RemoveElement
        <5> QED BY <1>2, <5>1
      <4>4. f[p] \in Nat /\ g[s \ {p}] \in Nat
        BY <4>1, <4>3
      <4>5. ASSUME NEW x \in s PROVE g[s] = f[x] + g[s \ {x}]
        <5>1. CASE x = p
          BY <4>2, <5>1
        <5>2. CASE x # p
          <6>1. g[s \ {p}] = f[x] + g[(s \ {p}) \ {x}] /\ g[s \ {x}] = f[p] + g[(s \ {x}) \ {p}]
            BY <4>1, <4>3, <5>2
          <6>2. (s \ {p}) \ {x} = (s \ {x}) \ {p}
            OBVIOUS
          <6>3. (s \ {x}) \ {p} \in SUBSET S /\ g[(s \ {x}) \ {p}] \in Nat
            <7>1. Cardinality((s \ {x}) \ {p}) <= n
              <8>1. Cardinality(s \ {x}) <= n /\ IsFiniteSet(s \ {x})
                BY <1>0, <2>1, FS_RemoveElement
              <8>2. Cardinality((s \ {x}) \ {p}) <= Cardinality(s \ {x})
                BY <8>1, FS_Subset
              <8>3. Cardinality((s \ {x}) \ {p}) \in Nat /\ Cardinality(s \ {x}) \in Nat
                BY <1>0
              <8> QED BY <8>1, <8>2, <8>3
            <7> QED BY <1>2, <7>1
          <6>4. f[x] \in Nat
            OBVIOUS
          <6> QED BY <4>2, <4>4, <6>1, <6>2, <6>3, <6>4
        <5> QED BY <5>1, <5>2
      <4>6. g[s] \in Nat
        BY <4>2, <4>4
      <4> QED BY <4>5, <4>6
    <3> QED BY <3>1, <3>2
  <2> HIDE DEF Holds
  <2> QED BY <2>1
<1>3. Cardinality(S) \in T
  <2>1. Nat \subseteq T
    <3> HIDE DEF T
    <3> QED BY <1>1, <1>2, NatInductive
  <2> QED BY <1>0, <2>1
<1> QED BY <1>0, <1>3

\* Partial sums depend on the values only.
LEMMA PartialSumsAgree ==
    ASSUME NEW S, IsFiniteSet(S), NEW f, \A x \in S : f[x] \in Nat, NEW g, PartialSums(f, S, g),
           NEW R \in SUBSET S, NEW e, \A x \in R : e[x] = f[x], NEW h, PartialSums(e, R, h)
    PROVE  \A s \in SUBSET R : h[s] = g[s]
<1> DEFINE T == { n \in Nat : \A s \in SUBSET R : Cardinality(s) <= n => h[s] = g[s] }
<1>0. \A s \in SUBSET R : IsFiniteSet(s) /\ Cardinality(s) \in Nat /\ Cardinality(s) <= Cardinality(S)
                          /\ s \in SUBSET S
  BY FS_Subset, FS_CardinalityType
<1>g. /\ \A s \in SUBSET S : g[s] = Adds(f, g, s)
      /\ \A s \in SUBSET R : h[s] = Adds(e, h, s)
  BY DEF PartialSums
<1>1. 0 \in T
  <2>1. ASSUME NEW s \in SUBSET R, Cardinality(s) <= 0 PROVE h[s] = g[s]
    <3>1. s = {}
      BY <1>0, <2>1, FS_EmptySet
    <3> QED BY <1>0, <1>g, <3>1 DEF Adds
  <2> QED BY <2>1
<1>2. ASSUME NEW n \in Nat, n \in T PROVE n + 1 \in T
  <2>1. ASSUME NEW s \in SUBSET R, Cardinality(s) <= n + 1 PROVE h[s] = g[s]
    <3>1. CASE s = {}
      BY <1>0, <1>g, <3>1 DEF Adds
    <3>2. CASE s # {}
      <4> DEFINE p == Picked(s)
      <4>1. p \in s
        BY <3>2, PickedIsElement
      <4>2. h[s] = e[p] + h[s \ {p}] /\ g[s] = f[p] + g[s \ {p}]
        BY <1>0, <1>g, <3>2 DEF Adds
      <4> HIDE DEF p
      <4>3. Cardinality(s \ {p}) <= n
        BY <1>0, <2>1, <4>1, FS_RemoveElement
      <4>4. h[s \ {p}] = g[s \ {p}]
        BY <1>2, <4>3
      <4>5. e[p] = f[p]
        BY <4>1
      <4> QED BY <4>2, <4>4, <4>5
    <3> QED BY <3>1, <3>2
  <2> QED BY <2>1
<1>3. Cardinality(S) \in T
  <2>1. Nat \subseteq T
    <3> HIDE DEF T
    <3> QED BY <1>1, <1>2, NatInductive
  <2>2. Cardinality(S) \in Nat
    BY FS_CardinalityType
  <2> QED BY <2>1, <2>2
<1> QED BY <1>0, <1>3

---------------------------------------------------------------------------
\* A sum over no key, and with one key more.
LEMMA SumOfNone == ASSUME NEW f PROVE SumFunctionOnSet(f, {}) = 0
<1>1. PICK g : PartialSums(f, {}, g) /\ SumFunctionOnSet(f, {}) = g[{}]
  BY FS_EmptySet, SumIsPartialSum
<1> QED BY <1>1 DEF PartialSums, Adds

\* A sum of naturals over a finite set is a natural.
LEMMA SumType ==
    ASSUME NEW S, IsFiniteSet(S), NEW f, \A x \in S : f[x] \in Nat
    PROVE  SumFunctionOnSet(f, S) \in Nat
<1>1. PICK g : PartialSums(f, S, g) /\ SumFunctionOnSet(f, S) = g[S]
  BY SumIsPartialSum
<1> QED BY <1>1, PartialSumRemoves

\* A sum is what one element contributes and the sum over the others.
LEMMA SumRemoves ==
    ASSUME NEW S, IsFiniteSet(S), NEW f, \A x \in S : f[x] \in Nat, NEW x \in S
    PROVE  SumFunctionOnSet(f, S) = f[x] + SumFunctionOnSet(f, S \ {x})
<1> DEFINE R == S \ {x}
<1>1. IsFiniteSet(R) /\ R \in SUBSET S
  BY FS_RemoveElement
<1> HIDE DEF R
<1>2. PICK g : PartialSums(f, S, g) /\ SumFunctionOnSet(f, S) = g[S]
  BY SumIsPartialSum
<1>3. PICK h : PartialSums(f, R, h) /\ SumFunctionOnSet(f, R) = h[R]
  BY <1>1, SumIsPartialSum
<1>4. h[R] = g[R]
  BY <1>1, <1>2, <1>3, PartialSumsAgree
<1>5. g[S] = f[x] + g[R]
  BY <1>2, PartialSumRemoves DEF R
<1> QED BY <1>2, <1>3, <1>4, <1>5 DEF R

\* A sum grows by what a new element contributes.
LEMMA SumAdds ==
    ASSUME NEW S, IsFiniteSet(S), NEW x, x \notin S, NEW f, \A y \in S \cup {x} : f[y] \in Nat
    PROVE  SumFunctionOnSet(f, S \cup {x}) = f[x] + SumFunctionOnSet(f, S)
<1> DEFINE A == S \cup {x}
<1>1. IsFiniteSet(A) /\ x \in A /\ A \ {x} = S
  BY FS_AddElement
<1> HIDE DEF A
<1>2. \A y \in A : f[y] \in Nat
  BY DEF A
<1>3. SumFunctionOnSet(f, A) = f[x] + SumFunctionOnSet(f, A \ {x})
  BY <1>1, <1>2, SumRemoves
<1> QED BY <1>1, <1>3 DEF A

\* Sums of functions with the same values.
LEMMA SumAgrees ==
    ASSUME NEW S, IsFiniteSet(S), NEW f, \A x \in S : f[x] \in Nat, NEW e, \A x \in S : e[x] = f[x]
    PROVE  SumFunctionOnSet(e, S) = SumFunctionOnSet(f, S)
<1>1. PICK g : PartialSums(f, S, g) /\ SumFunctionOnSet(f, S) = g[S]
  BY SumIsPartialSum
<1>2. PICK h : PartialSums(e, S, h) /\ SumFunctionOnSet(e, S) = h[S]
  BY SumIsPartialSum
<1>3. h[S] = g[S]
  BY <1>1, <1>2, PartialSumsAgree
<1> QED BY <1>1, <1>2, <1>3

\* One value is changed.
LEMMA SumChanges ==
    ASSUME NEW S, IsFiniteSet(S), NEW f, \A y \in S : f[y] \in Nat, NEW x \in S,
           NEW e, e[x] \in Nat, \A y \in S \ {x} : e[y] = f[y]
    PROVE  SumFunctionOnSet(e, S) + f[x] = SumFunctionOnSet(f, S) + e[x]
<1> DEFINE R == S \ {x}
<1>1. IsFiniteSet(R) /\ \A y \in R : f[y] \in Nat /\ e[y] = f[y]
  BY FS_RemoveElement
<1>2. \A y \in S : e[y] \in Nat
  OBVIOUS
<1> HIDE DEF R
<1>3. SumFunctionOnSet(f, S) = f[x] + SumFunctionOnSet(f, R)
  BY SumRemoves DEF R
<1>4. SumFunctionOnSet(e, S) = e[x] + SumFunctionOnSet(e, R)
  BY <1>2, SumRemoves DEF R
<1>5. SumFunctionOnSet(e, R) = SumFunctionOnSet(f, R) /\ SumFunctionOnSet(f, R) \in Nat
  BY <1>1, SumAgrees, SumType
<1>6. f[x] \in Nat
  OBVIOUS
<1> QED BY <1>3, <1>4, <1>5, <1>6

\* No value is larger.
LEMMA SumMonotone ==
    ASSUME NEW S, IsFiniteSet(S), NEW f, \A x \in S : f[x] \in Nat,
           NEW e, \A x \in S : e[x] \in Nat /\ e[x] <= f[x]
    PROVE  SumFunctionOnSet(e, S) <= SumFunctionOnSet(f, S)
<1> DEFINE T == { n \in Nat : \A s \in SUBSET S :
                    Cardinality(s) <= n => SumFunctionOnSet(e, s) <= SumFunctionOnSet(f, s) }
<1>0. \A s \in SUBSET S : IsFiniteSet(s) /\ Cardinality(s) \in Nat
  BY FS_Subset, FS_CardinalityType
<1>1. 0 \in T
  <2>1. ASSUME NEW s \in SUBSET S, Cardinality(s) <= 0
        PROVE  SumFunctionOnSet(e, s) <= SumFunctionOnSet(f, s)
    <3>1. s = {}
      BY <1>0, <2>1, FS_EmptySet
    <3>2. SumFunctionOnSet(e, s) = 0 /\ SumFunctionOnSet(f, s) = 0
      BY <3>1, SumOfNone
    <3> QED BY <3>2
  <2> QED BY <2>1
<1>2. ASSUME NEW n \in Nat, n \in T PROVE n + 1 \in T
  <2>1. ASSUME NEW s \in SUBSET S, Cardinality(s) <= n + 1
        PROVE  SumFunctionOnSet(e, s) <= SumFunctionOnSet(f, s)
    <3>1. CASE s = {}
      <4>1. SumFunctionOnSet(e, s) = 0 /\ SumFunctionOnSet(f, s) = 0
        BY <3>1, SumOfNone
      <4> QED BY <4>1
    <3>2. CASE s # {}
      <4>1. PICK x \in s : TRUE
        BY <3>2
      <4> DEFINE r == s \ {x}
      <4>2. r \in SUBSET S /\ Cardinality(r) <= n
        BY <1>0, <2>1, FS_RemoveElement
      <4>3. /\ SumFunctionOnSet(f, s) = f[x] + SumFunctionOnSet(f, r)
            /\ SumFunctionOnSet(e, s) = e[x] + SumFunctionOnSet(e, r)
        BY <1>0, SumRemoves
      <4> HIDE DEF r
      <4>4. SumFunctionOnSet(e, r) <= SumFunctionOnSet(f, r)
        BY <1>2, <4>2
      <4>5. SumFunctionOnSet(e, r) \in Nat /\ SumFunctionOnSet(f, r) \in Nat
        BY <1>0, <4>2, SumType
      <4>6. e[x] \in Nat /\ f[x] \in Nat /\ e[x] <= f[x]
        OBVIOUS
      <4> QED BY <4>3, <4>4, <4>5, <4>6
    <3> QED BY <3>1, <3>2
  <2> QED BY <2>1
<1>3. Cardinality(S) \in T
  <2>1. Nat \subseteq T
    <3> HIDE DEF T
    <3> QED BY <1>1, <1>2, NatInductive
  <2>2. Cardinality(S) \in Nat
    BY FS_CardinalityType
  <2> QED BY <2>1, <2>2
<1>4. Cardinality(S) <= Cardinality(S)
  BY <1>0
<1> QED BY <1>3, <1>4

\* A sum of zeros.
LEMMA SumOfZeros ==
    ASSUME NEW S, IsFiniteSet(S), NEW f, \A x \in S : f[x] = 0
    PROVE  SumFunctionOnSet(f, S) = 0
<1> DEFINE T == { n \in Nat : \A s \in SUBSET S : Cardinality(s) <= n => SumFunctionOnSet(f, s) = 0 }
<1>0. \A s \in SUBSET S : IsFiniteSet(s) /\ Cardinality(s) \in Nat
  BY FS_Subset, FS_CardinalityType
<1>1. 0 \in T
  <2>1. ASSUME NEW s \in SUBSET S, Cardinality(s) <= 0 PROVE SumFunctionOnSet(f, s) = 0
    <3>1. s = {}
      BY <1>0, <2>1, FS_EmptySet
    <3> QED BY <3>1, SumOfNone
  <2> QED BY <2>1
<1>2. ASSUME NEW n \in Nat, n \in T PROVE n + 1 \in T
  <2>1. ASSUME NEW s \in SUBSET S, Cardinality(s) <= n + 1 PROVE SumFunctionOnSet(f, s) = 0
    <3>1. CASE s = {}
      BY <3>1, SumOfNone
    <3>2. CASE s # {}
      <4>1. PICK x \in s : TRUE
        BY <3>2
      <4>2. s \ {x} \in SUBSET S /\ Cardinality(s \ {x}) <= n
        BY <1>0, <2>1, FS_RemoveElement
      <4>3. SumFunctionOnSet(f, s \ {x}) = 0
        BY <1>2, <4>2
      <4>4. \A y \in s : f[y] \in Nat
        OBVIOUS
      <4>5. SumFunctionOnSet(f, s) = f[x] + SumFunctionOnSet(f, s \ {x})
        BY <1>0, <4>4, SumRemoves
      <4> QED BY <4>3, <4>5
    <3> QED BY <3>1, <3>2
  <2> QED BY <2>1
<1>3. Nat \subseteq T
  <2> HIDE DEF T
  <2> QED BY <1>1, <1>2, NatInductive
<1>4. Cardinality(S) \in T /\ Cardinality(S) <= Cardinality(S)
  BY <1>0, <1>3, FS_CardinalityType
<1> QED BY <1>4

---------------------------------------------------------------------------
(***************************************************************************)
(* What one packet counts.                                                 *)
(***************************************************************************)

One(D, n) == IF n \in D THEN 1 ELSE 0

ScopeOf(f) == client_run_scope_key(f.client, f.run)

\* t is s with the counters D, and the counters E of scope k, up by one.
CountsUp(s, t, D, k, E) ==
    /\ t \in Summary
    /\ t.stop_reason = s.stop_reason
    /\ \A n \in Counter : t.count[n] = s.count[n] + One(D, n)
    /\ \A x \in ScopeKeys, n \in ScopeCounter :
         t.per_client[x][n] = s.per_client[x][n] + (IF x = k THEN One(E, n) ELSE 0)

\* The fields of a summary have their types.
LEMMA SummaryFields ==
    ASSUME NEW s \in Summary
    PROVE  /\ s.count \in [Counter -> Nat]
           /\ s.per_client \in [ScopeKeys -> [ScopeCounter -> Nat]]
           /\ s.stop_reason \in {"None", "ReceiveTimedOut", "MaxVideoPacketsReached",
                    "ReassembledFramesThresholdReached", "ClientAwareThresholdReached",
                    "ReassembledFramesAndClientAwareThresholdReached"}
           /\ s.first_keyframe_frame_id \in SUBSET FrameIds
           /\ s.last_keyframe_frame_id \in SUBSET FrameIds
BY DEF Summary

\* Bump counts up each of the given counters by one, and no others.
LEMMA BumpCounts ==
    ASSUME NEW s \in Summary, NEW D, NEW k
    PROVE  CountsUp(s, Bump(s, D), D, k, {})
<1> DEFINE c == [n \in Counter |-> IF n \in D THEN s.count[n] + 1 ELSE s.count[n]]
           t == [s EXCEPT !.count = c]
<1>1. t = Bump(s, D)
  BY DEF Bump
<1>2. c \in [Counter -> Nat] /\ \A n \in Counter : c[n] = s.count[n] + One(D, n)
  BY SummaryFields DEF One
<1> HIDE DEF c
<1>3. t \in Summary /\ t.count = c /\ t.per_client = s.per_client /\ t.stop_reason = s.stop_reason
  BY <1>2 DEF Summary
<1> HIDE DEF t
<1>4. \A x \in ScopeKeys, n \in ScopeCounter :
         t.per_client[x][n] = s.per_client[x][n] + (IF x = k THEN One({}, n) ELSE 0)
  BY <1>3, SummaryFields DEF One
<1> QED BY <1>1, <1>2, <1>3, <1>4 DEF CountsUp

\* Every frame has a key of the per-client table.
LEMMA ScopeOfFrame == ASSUME NEW f \in Frame PROVE ScopeOf(f) \in ScopeKeys
BY DEF ScopeOf, ScopeKeys, Frame

\* BumpScope counts up the counters of one client and run.
LEMMA BumpScopeCounts ==
    ASSUME NEW s \in Summary, NEW f \in Frame, NEW E
    PROVE  CountsUp(s, BumpScope(s, f, E), {}, ScopeOf(f), E)
<1> DEFINE k == ScopeOf(f)
           c == [n \in ScopeCounter |-> IF n \in E THEN s.per_client[k][n] + 1 ELSE s.per_client[k][n]]
           m == [s.per_client EXCEPT ![k] = c]
           t == [s EXCEPT !.per_client = m]
<1>1. t = BumpScope(s, f, E)
  BY DEF BumpScope, ScopeOf
<1>2. k \in ScopeKeys
  BY ScopeOfFrame
<1> HIDE DEF k
<1>3. c \in [ScopeCounter -> Nat] /\ \A n \in ScopeCounter : c[n] = s.per_client[k][n] + One(E, n)
  BY <1>2, SummaryFields DEF One
<1> HIDE DEF c
<1>4. m \in [ScopeKeys -> [ScopeCounter -> Nat]] /\ m[k] = c /\ \A x \in ScopeKeys \ {k} : m[x] = s.per_client[x]
  BY <1>2, <1>3, SummaryFields
<1> HIDE DEF m
<1>5. t \in Summary /\ t.count = s.count /\ t.per_client = m /\ t.stop_reason = s.stop_reason
  BY <1>4 DEF Summary
<1> HIDE DEF t
<1>6. \A n \in Counter : t.count[n] = s.count[n] + One({}, n)
  BY <1>5, SummaryFields DEF One
<1>7. ASSUME NEW x \in ScopeKeys, NEW n \in ScopeCounter
      PROVE  t.per_client[x][n] = s.per_client[x][n] + (IF x = k THEN One(E, n) ELSE 0)
  BY <1>3, <1>4, <1>5, SummaryFields
<1> QED BY <1>1, <1>5, <1>6, <1>7 DEF CountsUp, k

\* Two counts, one after the other, of different counters.
LEMMA CountsUpTwice ==
    ASSUME NEW s \in Summary, NEW t, NEW u, NEW k, NEW D1, NEW E1, NEW D2, NEW E2,
           CountsUp(s, t, D1, k, E1), CountsUp(t, u, D2, k, E2),
           D1 \cap D2 = {}, E1 \cap E2 = {}
    PROVE  CountsUp(s, u, D1 \cup D2, k, E1 \cup E2)
<1>1. t \in Summary /\ u \in Summary /\ u.stop_reason = s.stop_reason
  BY DEF CountsUp
<1>2. ASSUME NEW n \in Counter PROVE u.count[n] = s.count[n] + One(D1 \cup D2, n)
  <2>1. u.count[n] = t.count[n] + One(D2, n) /\ t.count[n] = s.count[n] + One(D1, n)
    BY DEF CountsUp
  <2>2. One(D1 \cup D2, n) = One(D1, n) + One(D2, n)
    BY DEF One
  <2>3. s.count[n] \in Nat /\ One(D1, n) \in Nat /\ One(D2, n) \in Nat
    BY SummaryFields DEF One
  <2> QED BY <2>1, <2>2, <2>3
<1>3. ASSUME NEW x \in ScopeKeys, NEW n \in ScopeCounter
      PROVE  u.per_client[x][n] = s.per_client[x][n] + (IF x = k THEN One(E1 \cup E2, n) ELSE 0)
  <2> DEFINE a == IF x = k THEN One(E1, n) ELSE 0
             b == IF x = k THEN One(E2, n) ELSE 0
  <2>1. u.per_client[x][n] = t.per_client[x][n] + b /\ t.per_client[x][n] = s.per_client[x][n] + a
    BY DEF CountsUp
  <2>2. (IF x = k THEN One(E1 \cup E2, n) ELSE 0) = a + b
    BY DEF One
  <2>3. s.per_client[x][n] \in Nat /\ a \in Nat /\ b \in Nat
    BY SummaryFields DEF One
  <2> QED BY <2>1, <2>2, <2>3
<1> QED BY <1>1, <1>2, <1>3 DEF CountsUp

\* What queueing frame f counts.
QueuedCounters(f) ==
    IF MaxFrames = 0 THEN {}
    ELSE {"frames_queued"} \cup (IF f.key THEN {"keyframes_queued"} ELSE {})

QueuedScopeCounters(f) ==
    IF MaxFrames = 0 THEN {} ELSE {"queued"} \cup (IF f.key THEN {"keyframes"} ELSE {})

ReceivedCounters(f) == IF f.key THEN {"keyframes_received"} ELSE {}

\* What record_keyframe_queued_progress counts.
LEMMA KeyframeQueuedCounts ==
    ASSUME NEW s \in Summary, NEW f \in Frame
    PROVE  CountsUp(s, record_keyframe_queued_progress(s, f), {"keyframes_queued"}, ScopeOf(f), {"keyframes"})
<1> DEFINE k == ScopeOf(f)
           t == Bump(s, {"keyframes_queued"})
           u == BumpScope(t, f, {"keyframes"})
           r == record_keyframe_queued_progress(s, f)
<1>1. CountsUp(s, t, {"keyframes_queued"}, k, {})
  BY BumpCounts
<1>2. t \in Summary
  BY <1>1 DEF CountsUp
<1> HIDE DEF t
<1>3. CountsUp(t, u, {}, k, {"keyframes"})
  BY <1>2, BumpScopeCounts
<1>4. CountsUp(s, u, {"keyframes_queued"} \cup {}, k, {} \cup {"keyframes"})
  BY <1>1, <1>3, CountsUpTwice
<1> HIDE DEF u
<1>5. r = [u EXCEPT !.first_keyframe_frame_id = IF @ = {} THEN {f.id} ELSE @,
                    !.last_keyframe_frame_id = {f.id}]
  BY DEF record_keyframe_queued_progress, u, t
<1>6. u \in Summary
  BY <1>4 DEF CountsUp
<1> DEFINE a == IF u.first_keyframe_frame_id = {} THEN {f.id} ELSE u.first_keyframe_frame_id
           v == [u EXCEPT !.first_keyframe_frame_id = a]
           w == [v EXCEPT !.last_keyframe_frame_id = {f.id}]
<1>7. f.id \in FrameIds
  BY DEF Frame
<1>8. a \in SUBSET FrameIds
  BY <1>6, <1>7, SummaryFields
<1> HIDE DEF a
<1>9. v \in Summary /\ v.count = u.count /\ v.per_client = u.per_client /\ v.stop_reason = u.stop_reason
  BY <1>6, <1>8 DEF Summary
<1>10. r = w
  BY <1>5, <1>6 DEF Summary, a
<1> HIDE DEF v, r
<1>11. w \in Summary /\ w.count = u.count /\ w.per_client = u.per_client /\ w.stop_reason = u.stop_reason
  BY <1>7, <1>9 DEF Summary
<1> HIDE DEF w
<1>12. {"keyframes_queued"} \cup {} = {"keyframes_queued"} /\ {} \cup {"keyframes"} = {"keyframes"}
  OBVIOUS
<1>13. CountsUp(s, r, {"keyframes_queued"}, k, {"keyframes"})
  BY <1>4, <1>10, <1>11, <1>12 DEF CountsUp
<1> QED BY <1>13 DEF r

\* What record_queued_frame_progress counts, for a keyframe and for another frame.
LEMMA QueuedCounts ==
    ASSUME NEW s \in Summary, NEW f \in Frame
    PROVE  CountsUp(s, record_queued_frame_progress(s, f), QueuedCounters(f), ScopeOf(f),
                    QueuedScopeCounters(f))
<1> DEFINE k == ScopeOf(f)
           r == record_queued_frame_progress(s, f)
           t == Bump(s, {"frames_queued"})
           q == BumpScope(t, f, {"queued"})
<1>1. CASE MaxFrames = 0
  <2>1. r = s /\ QueuedCounters(f) = {} /\ QueuedScopeCounters(f) = {}
    BY <1>1 DEF record_queued_frame_progress, QueuedCounters, QueuedScopeCounters
  <2>2. CountsUp(s, s, {}, k, {})
    BY SummaryFields DEF CountsUp, One
  <2> QED BY <2>1, <2>2
<1>2. CASE MaxFrames # 0
  <2>1. CountsUp(s, t, {"frames_queued"}, k, {})
    BY BumpCounts
  <2>2. t \in Summary
    BY <2>1 DEF CountsUp
  <2>3. r = IF f.key THEN record_keyframe_queued_progress(q, f) ELSE q
    BY <1>2 DEF record_queued_frame_progress
  <2> HIDE DEF t
  <2>4. CountsUp(t, q, {}, k, {"queued"})
    BY <2>2, BumpScopeCounts
  <2>5. CountsUp(s, q, {"frames_queued"} \cup {}, k, {} \cup {"queued"})
    BY <2>1, <2>4, CountsUpTwice
  <2>6. q \in Summary
    BY <2>5 DEF CountsUp
  <2> HIDE DEF q, r
  <2>7. {"frames_queued"} \cup {} = {"frames_queued"} /\ {} \cup {"queued"} = {"queued"}
    OBVIOUS
  <2>8. CountsUp(s, q, {"frames_queued"}, k, {"queued"})
    BY <2>5, <2>7
  <2>9. CASE f.key
    <3>1. CountsUp(q, r, {"keyframes_queued"}, k, {"keyframes"})
      BY <2>3, <2>6, <2>9, KeyframeQueuedCounts
    <3>2. CountsUp(s, r, {"frames_queued"} \cup {"keyframes_queued"}, k, {"queued"} \cup {"keyframes"})
      BY <2>8, <3>1, CountsUpTwice
    <3>3. /\ QueuedCounters(f) = {"frames_queued"} \cup {"keyframes_queued"}
          /\ QueuedScopeCounters(f) = {"queued"} \cup {"keyframes"}
      BY <1>2, <2>9 DEF QueuedCounters, QueuedScopeCounters
    <3> QED BY <3>2, <3>3 DEF r
  <2>10. CASE ~f.key
    <3>1. QueuedCounters(f) = {"frames_queued"} /\ QueuedScopeCounters(f) = {"queued"}
      BY <1>2, <2>10 DEF QueuedCounters, QueuedScopeCounters
    <3> QED BY <2>3, <2>8, <2>10, <3>1 DEF r
  <2> QED BY <2>9, <2>10
<1> QED BY <1>1, <1>2

\* A frame that came in one packet, and one that was put together.
DirectCounters(f) ==
    IF MaxFrames = 0 THEN {} ELSE {"direct_frames_queued"} \cup QueuedCounters(f)

DirectScopeCounters(f) == IF MaxFrames = 0 THEN {} ELSE {"direct"} \cup QueuedScopeCounters(f)

\* What record_direct_frame_progress counts.
LEMMA DirectCounts ==
    ASSUME NEW s \in Summary, NEW f \in Frame
    PROVE  CountsUp(s, record_direct_frame_progress(s, f), DirectCounters(f), ScopeOf(f),
                    DirectScopeCounters(f))
<1> DEFINE k == ScopeOf(f)
           t == Bump(s, {"direct_frames_queued"})
           q == BumpScope(t, f, {"direct"})
           r == record_direct_frame_progress(s, f)
<1>1. CASE MaxFrames = 0
  <2>1. r = s /\ DirectCounters(f) = {} /\ DirectScopeCounters(f) = {}
    BY <1>1 DEF record_direct_frame_progress, DirectCounters, DirectScopeCounters
  <2>2. CountsUp(s, s, {}, k, {})
    BY SummaryFields DEF CountsUp, One
  <2> QED BY <2>1, <2>2
<1>2. CASE MaxFrames # 0
  <2>1. CountsUp(s, t, {"direct_frames_queued"}, k, {})
    BY BumpCounts
  <2>2. r = record_queued_frame_progress(q, f)
    BY <1>2 DEF record_direct_frame_progress
  <2>3. t \in Summary
    BY <2>1 DEF CountsUp
  <2> HIDE DEF t, r
  <2>4. CountsUp(t, q, {}, k, {"direct"})
    BY <2>3, BumpScopeCounts
  <2>5. CountsUp(s, q, {"direct_frames_queued"} \cup {}, k, {} \cup {"direct"})
    BY <2>1, <2>4, CountsUpTwice
  <2>6. q \in Summary
    BY <2>5 DEF CountsUp
  <2> HIDE DEF q
  <2>7. CountsUp(q, r, QueuedCounters(f), k, QueuedScopeCounters(f))
    BY <2>2, <2>6, QueuedCounts
  <2>8. /\ ({"direct_frames_queued"} \cup {}) \cap QueuedCounters(f) = {}
        /\ ({} \cup {"direct"}) \cap QueuedScopeCounters(f) = {}
    BY DEF QueuedCounters, QueuedScopeCounters
  <2>9. CountsUp(s, r, ({"direct_frames_queued"} \cup {}) \cup QueuedCounters(f), k,
                 ({} \cup {"direct"}) \cup QueuedScopeCounters(f))
    BY <2>5, <2>7, <2>8, CountsUpTwice
  <2>10. /\ ({"direct_frames_queued"} \cup {}) \cup QueuedCounters(f) = DirectCounters(f)
         /\ ({} \cup {"direct"}) \cup QueuedScopeCounters(f) = DirectScopeCounters(f)
    BY <1>2 DEF DirectCounters, DirectScopeCounters
  <2> QED BY <2>9, <2>10 DEF r
<1> QED BY <1>1, <1>2

\* What record_reassembled_frame_progress counts.
LEMMA ReassembledCounts ==
    ASSUME NEW s \in Summary, NEW f \in Frame
    PROVE  CountsUp(s, record_reassembled_frame_progress(s, f),
                    {"frames_reassembled"} \cup QueuedCounters(f), ScopeOf(f),
                    {"reassembled"} \cup QueuedScopeCounters(f))
<1> DEFINE k == ScopeOf(f)
           t == Bump(s, {"frames_reassembled"})
           q == BumpScope(t, f, {"reassembled"})
           r == record_reassembled_frame_progress(s, f)
<1>1. CountsUp(s, t, {"frames_reassembled"}, k, {})
  BY BumpCounts
<1>2. r = record_queued_frame_progress(q, f)
  BY DEF record_reassembled_frame_progress
<1>3. t \in Summary
  BY <1>1 DEF CountsUp
<1> HIDE DEF t, r
<1>4. CountsUp(t, q, {}, k, {"reassembled"})
  BY <1>3, BumpScopeCounts
<1>5. CountsUp(s, q, {"frames_reassembled"} \cup {}, k, {} \cup {"reassembled"})
  BY <1>1, <1>4, CountsUpTwice
<1>6. q \in Summary
  BY <1>5 DEF CountsUp
<1> HIDE DEF q
<1>7. CountsUp(q, r, QueuedCounters(f), k, QueuedScopeCounters(f))
  BY <1>2, <1>6, QueuedCounts
<1>8. /\ ({"frames_reassembled"} \cup {}) \cap QueuedCounters(f) = {}
      /\ ({} \cup {"reassembled"}) \cap QueuedScopeCounters(f) = {}
  BY DEF QueuedCounters, QueuedScopeCounters
<1>9. CountsUp(s, r, ({"frames_reassembled"} \cup {}) \cup QueuedCounters(f), k,
               ({} \cup {"reassembled"}) \cup QueuedScopeCounters(f))
  BY <1>5, <1>7, <1>8, CountsUpTwice
<1>10. /\ ({"frames_reassembled"} \cup {}) \cup QueuedCounters(f)
            = {"frames_reassembled"} \cup QueuedCounters(f)
       /\ ({} \cup {"reassembled"}) \cup QueuedScopeCounters(f)
            = {"reassembled"} \cup QueuedScopeCounters(f)
  OBVIOUS
<1> QED BY <1>9, <1>10 DEF r

\* What record_keyframe_received_progress counts.
LEMMA ReceivedKeyframeCounts ==
    ASSUME NEW s \in Summary, NEW f \in Frame, NEW k
    PROVE  CountsUp(s, record_keyframe_received_progress(s, f), ReceivedCounters(f), k, {})
<1>1. CASE f.key
  BY <1>1, BumpCounts DEF record_keyframe_received_progress, ReceivedCounters
<1>2. CASE ~f.key
  <2>1. CountsUp(s, s, {}, k, {})
    BY SummaryFields DEF CountsUp, One
  <2> QED BY <1>2, <2>1 DEF record_keyframe_received_progress, ReceivedCounters
<1> QED BY <1>1, <1>2

---------------------------------------------------------------------------
(***************************************************************************)
(* What a packet counts and what it does to the queue and the reassembly   *)
(* go together.                                                            *)
(***************************************************************************)

\* The counters that one packet adds to hold the balance of the summary.
Balanced(D, E) ==
    /\ "packets_received" \in D
    /\ One(E, "queued") = One(D, "frames_queued")
    /\ One(E, "direct") = One(D, "direct_frames_queued")
    /\ One(E, "reassembled") = One(D, "frames_reassembled")
    /\ One(E, "keyframes") = One(D, "keyframes_queued")
    /\ One(D, "frames_queued") = IF MaxFrames = 0 THEN 0
                                 ELSE One(D, "direct_frames_queued") + One(D, "frames_reassembled")
    /\ One(D, "direct_frames_queued") + One(D, "fragments_received") + One(D, "non_video_packets")
         + One(D, "rejected_packets") <= 1

\* The positions in the queue of c of frames of run r.
Backlog(c, r) == Cardinality(frames_for_client_run(c, r))

\* The state follows the counters: a frame enters the queue under the scope it
\* is counted for, and a chunk that waits or leaves in a frame was counted.
Accounted(D, k, E) ==
    /\ \A c \in Clients, r \in Runs :
         Backlog(c, r)' <= Backlog(c, r) + (IF client_run_scope_key(c, r) = k THEN One(E, "queued") ELSE 0)
    /\ WaitingChunks' + One(D, "frames_reassembled") + One(D, "duplicate_fragments")
         <= WaitingChunks + One(D, "fragments_received")

\* A queue has finitely many positions.
LEMMA PositionsFinite ==
    ASSUME NEW q \in Seq(Frame), NEW r
    PROVE  /\ IsFiniteSet({ i \in 1 .. Len(q) : q[i].run = r })
           /\ Cardinality({ i \in 1 .. Len(q) : q[i].run = r }) \in Nat
<1>1. IsFiniteSet(1 .. Len(q))
  BY FS_Interval
<1>2. IsFiniteSet({ i \in 1 .. Len(q) : q[i].run = r })
  BY <1>1, FS_Subset
<1> QED BY <1>2, FS_CardinalityType

\* The frames a client and run have queued are finitely many.
LEMMA BacklogType ==
    ASSUME QueueTypeOK, NEW c \in Clients, NEW r \in Runs
    PROVE  IsFiniteSet(frames_for_client_run(c, r)) /\ Backlog(c, r) \in Nat
<1>1. queue[c] \in Seq(Frame)
  BY DEF QueueTypeOK
<1> QED BY <1>1, PositionsFinite DEF Backlog, frames_for_client_run

\* Storing a frame adds at most that frame to its scope.
LEMMA StoreFrameBacklog ==
    ASSUME QueueTypeOK, NEW f \in Frame, store_frame(f), NEW c \in Clients, NEW r \in Runs
    PROVE  Backlog(c, r)' <= Backlog(c, r) +
                (IF client_run_scope_key(c, r) = ScopeOf(f) THEN One(QueuedScopeCounters(f), "queued") ELSE 0)
<1> DEFINE S == frames_for_client_run(c, r)
           T == frames_for_client_run(c, r)'
           m == Len(queue'[c])
<1>0. IsFiniteSet(S) /\ Backlog(c, r) \in Nat
  BY BacklogType
<1>1. CASE MaxFrames = 0
  <2>1. Backlog(c, r)' = Backlog(c, r)
    BY <1>1 DEF store_frame, queueVars, Backlog, frames_for_client_run
  <2>2. One(QueuedScopeCounters(f), "queued") = 0
    BY <1>1 DEF One, QueuedScopeCounters
  <2> QED BY <1>0, <2>1, <2>2
<1>2. CASE MaxFrames # 0
  <2>1. PICK d \in {0, 1} : MovedAndStored(f, c, d)
    BY <1>2, StoreFramePositions
  <2>2. Len(queue[c]) \in Nat /\ d <= Len(queue[c])
    BY <2>1 DEF QueueTypeOK, MovedAndStored
  <2> DEFINE own == c = f.client /\ f.run = r
             R == { j \in T : j \in 1 .. Len(queue[c]) - d }
             g == [j \in R |-> j + d]
  <2>3. g \in Injection(R, S)
    <3>1. ASSUME NEW j \in R PROVE j + d \in S
      <4>1. j \in 1 .. Len(queue[c]) - d /\ queue'[c][j].run = r
        BY DEF frames_for_client_run
      <4>2. queue'[c][j] = queue[c][j + d]
        BY <2>1, <4>1 DEF MovedAndStored
      <4>3. j + d \in 1 .. Len(queue[c])
        BY <2>2, <4>1
      <4> QED BY <4>1, <4>2, <4>3 DEF frames_for_client_run
    <3>2. g \in [R -> S]
      BY <3>1
    <3>3. \A a, b \in R : g[a] = g[b] => a = b
      BY <2>2
    <3> HIDE DEF g
    <3> QED BY <3>2, <3>3 DEF Injection, IsInjective
  <2>4. IsFiniteSet(R) /\ Cardinality(R) <= Cardinality(S) /\ Cardinality(R) \in Nat
    BY <1>0, <2>3, FS_Injection, FS_CardinalityType
  <2>5. T \subseteq R \cup {m} /\ (~own => T = R)
    <3>1. ASSUME NEW j \in T, j \notin R PROVE own /\ j = m
      <4>1. j \in 1 .. m /\ queue'[c][j].run = r
        BY DEF frames_for_client_run
      <4>2. m = Len(queue[c]) - d + (IF c = f.client THEN 1 ELSE 0)
        BY <2>1 DEF MovedAndStored
      <4>3. ~(j \in 1 .. Len(queue[c]) - d)
        BY <3>1
      <4> HIDE DEF m
      <4>4. c = f.client
        <5>1. ASSUME c # f.client PROVE FALSE
          <6>1. m = Len(queue[c]) - d
            BY <2>2, <4>2, <5>1
          <6> QED BY <4>1, <4>3, <6>1
        <5> QED BY <5>1
      <4>41. j = m
        <5>1. m = Len(queue[c]) - d + 1
          BY <4>2, <4>4
        <5> QED BY <2>2, <4>1, <4>3, <5>1
      <4>5. queue'[c][m] = f
        BY <2>1, <4>4 DEF MovedAndStored, m
      <4> QED BY <4>1, <4>4, <4>41, <4>5
    <3> QED BY <3>1
  <2> HIDE DEF T, R, m, S
  <2>6. IsFiniteSet(R \cup {m}) /\ Cardinality(R \cup {m}) <= Cardinality(R) + 1
    BY <2>4, FS_AddElement
  <2>7. Cardinality(T) <= Cardinality(R \cup {m}) /\ Cardinality(T) \in Nat /\ Cardinality(R \cup {m}) \in Nat
    BY <2>5, <2>6, FS_Subset, FS_CardinalityType
  <2>8. CASE own
    <3>1. client_run_scope_key(c, r) = ScopeOf(f) /\ One(QueuedScopeCounters(f), "queued") = 1
      BY <1>2, <2>8 DEF ScopeOf, One, QueuedScopeCounters
    <3>2. Cardinality(T) <= Cardinality(S) + 1
      BY <1>0, <2>4, <2>6, <2>7 DEF Backlog, S
    <3> QED BY <3>1, <3>2 DEF Backlog, S, T
  <2>9. CASE ~own
    <3>1. Cardinality(T) <= Cardinality(S)
      BY <2>4, <2>5, <2>9
    <3>2. (IF client_run_scope_key(c, r) = ScopeOf(f) THEN One(QueuedScopeCounters(f), "queued") ELSE 0) \in {0, 1}
      BY DEF One
    <3>3. Cardinality(S) \in Nat
      BY <1>0 DEF Backlog, S
    <3> QED BY <2>7, <3>1, <3>2, <3>3 DEF Backlog, S, T
  <2> HIDE DEF own
  <2> QED BY <2>8, <2>9
<1> QED BY <1>1, <1>2

\* A dequeue shortens the backlog of its scope and leaves the others alone.
LEMMA PopFrontBacklog ==
    ASSUME QueueTypeOK, NEW d \in Clients, NEW s \in Runs, pop_front_for_client_run(d, s),
           NEW c \in Clients, NEW r \in Runs
    PROVE  Backlog(c, r)' <= Backlog(c, r)
<1> DEFINE S == frames_for_client_run(c, r)
           T == frames_for_client_run(c, r)'
<1>0. IsFiniteSet(S) /\ Backlog(c, r) \in Nat
  BY BacklogType
<1>1. PICK m \in FirstOf(frames_for_client_run(d, s)) :
        queue' = [queue EXCEPT ![d] = RemoveAt(@, m)]
  BY DEF pop_front_for_client_run
<1>2. queue[d] \in Seq(Frame) /\ m \in 1 .. Len(queue[d])
  BY DEF QueueTypeOK, FirstOf, frames_for_client_run
<1>3. CASE c # d
  <2>1. queue'[c] = queue[c]
    BY <1>1, <1>3 DEF QueueTypeOK
  <2>2. Backlog(c, r)' = Backlog(c, r)
    BY <2>1 DEF Backlog, frames_for_client_run
  <2> QED BY <1>0, <2>2
<1>4. CASE c = d
  <2> DEFINE g == [j \in T |-> IF j < m THEN j ELSE j + 1]
  <2>1. queue'[c] = RemoveAt(queue[d], m)
    BY <1>1, <1>4 DEF QueueTypeOK
  <2>2. Len(queue'[c]) = Len(queue[c]) - 1 /\ Len(queue[c]) \in Nat
    <3>1. Len(RemoveAt(queue[d], m)) = Len(queue[d]) - 1
      BY <1>2, RemoveAtElements
    <3> QED BY <1>2, <1>4, <2>1, <3>1
  <2>3. \A j \in 1 .. Len(queue[c]) - 1 :
          queue'[c][j] = IF j < m THEN queue[c][j] ELSE queue[c][j + 1]
    <3>1. \A j \in 1 .. Len(queue[d]) - 1 :
            RemoveAt(queue[d], m)[j] = IF j < m THEN queue[d][j] ELSE queue[d][j + 1]
      BY <1>2, RemoveAtElements
    <3> QED BY <1>4, <2>1, <3>1
  <2>4. T \subseteq 1 .. Len(queue[c]) - 1
    BY <2>2 DEF frames_for_client_run
  <2>5. ASSUME NEW j \in T PROVE (IF j < m THEN j ELSE j + 1) \in S
    <3>1. j \in 1 .. Len(queue[c]) - 1 /\ queue'[c][j].run = r
      BY <2>4 DEF frames_for_client_run
    <3>2. CASE j < m
      <4>1. queue'[c][j] = queue[c][j] /\ j \in 1 .. Len(queue[c])
        BY <2>2, <2>3, <3>1, <3>2
      <4> QED BY <3>1, <3>2, <4>1 DEF frames_for_client_run
    <3>3. CASE ~(j < m)
      <4>1. queue'[c][j] = queue[c][j + 1] /\ j + 1 \in 1 .. Len(queue[c])
        BY <2>2, <2>3, <3>1, <3>3
      <4> QED BY <3>1, <3>3, <4>1 DEF frames_for_client_run
    <3> QED BY <3>2, <3>3
  <2>6. \A a, b \in T : g[a] = g[b] => a = b
    BY <1>2, <2>2, <2>4
  <2> HIDE DEF S, T
  <2>7. g \in [T -> S]
    BY <2>5
  <2> HIDE DEF g
  <2>8. g \in Injection(T, S)
    BY <2>6, <2>7 DEF Injection, IsInjective
  <2>9. Cardinality(T) <= Cardinality(S)
    BY <1>0, <2>8, FS_Injection
  <2> QED BY <2>9 DEF Backlog, S, T
<1> QED BY <1>3, <1>4

\* A queue that is not touched has the same backlog.
LEMMA UntouchedBacklog ==
    ASSUME QueueTypeOK, queue' = queue, NEW c \in Clients, NEW r \in Runs
    PROVE  Backlog(c, r)' <= Backlog(c, r)
<1>1. Backlog(c, r) \in Nat /\ Backlog(c, r)' = Backlog(c, r)
  BY BacklogType DEF Backlog, frames_for_client_run
<1> QED BY <1>1

---------------------------------------------------------------------------
\* The number of chunks an entry holds.
Chunks(e) == Cardinality(DOMAIN e.chunks)

ChunkCounts(re) == [k \in DOMAIN re |-> Chunks(re[k])]

FiniteReassembly ==
    /\ IsFiniteSet(DOMAIN reassembly)
    /\ ReassemblyTypeOK

\* An entry under reassembly holds finitely many fragments.
LEMMA ChunksType ==
    ASSUME NEW e, ReassemblyFrameState(e)
    PROVE  IsFiniteSet(DOMAIN e.chunks) /\ Chunks(e) \in Nat
<1>1. e.count \in Nat
  BY DEF ReassemblyFrameState
<1>2. IsFiniteSet(0 .. e.count - 1)
  BY <1>1, FS_Interval
<1>3. IsFiniteSet(DOMAIN e.chunks)
  BY <1>2, FS_Subset DEF ReassemblyFrameState
<1> QED BY <1>3, FS_CardinalityType DEF Chunks

\* The waiting fragments, as a sum over the entries under reassembly.
LEMMA WaitingIsSum ==
    WaitingChunks = SumFunctionOnSet(ChunkCounts(reassembly), DOMAIN reassembly)
BY DEF WaitingChunks, SumFunction, ChunkCounts, Chunks

\* What one entry contributes to the waiting fragments is a natural.
LEMMA ChunkCountsType ==
    ASSUME ReassemblyTypeOK
    PROVE  \A k \in DOMAIN reassembly :
              ChunkCounts(reassembly)[k] = Chunks(reassembly[k]) /\ Chunks(reassembly[k]) \in Nat
BY ChunksType DEF ReassemblyTypeOK, ChunkCounts

\* The waiting fragments of finitely many entries are a natural.
LEMMA ChunkSumType ==
    ASSUME NEW re, IsFiniteSet(DOMAIN re), \A k \in DOMAIN re : ReassemblyFrameState(re[k])
    PROVE  SumFunctionOnSet(ChunkCounts(re), DOMAIN re) \in Nat
<1>1. \A k \in DOMAIN re : ChunkCounts(re)[k] \in Nat
  BY ChunksType DEF ChunkCounts
<1> QED BY <1>1, SumType

\* The waiting fragments are a natural.
LEMMA WaitingType == ASSUME FiniteReassembly PROVE WaitingChunks \in Nat
BY ChunkSumType, WaitingIsSum DEF FiniteReassembly, ReassemblyTypeOK

\* The entry a fragment is kept in has one chunk more than before.
LEMMA ChunkIsAdded ==
    ASSUME ReassemblyTypeOK, NEW p \in VideoFrameFragment,
           validate_fragment_shape(p), metadata_matches(EntryFor(p), p),
           p.index \notin DOMAIN EntryFor(p).chunks
    PROVE  Chunks(WithChunk(EntryFor(p), p)) = Chunks(EntryFor(p)) + 1
<1> DEFINE e == EntryFor(p)
           w == WithChunk(e, p)
<1>1. ReassemblyFrameState(e)
  BY EntryType
<1> HIDE DEF e
<1>2. w.chunks = MapInsert(e.chunks, p.index, p.chunk)
  BY <1>1 DEF WithChunk, ReassemblyFrameState
<1>3. DOMAIN w.chunks = DOMAIN e.chunks \cup {p.index}
  BY <1>2 DEF MapInsert
<1>4. IsFiniteSet(DOMAIN e.chunks) /\ p.index \notin DOMAIN e.chunks
  BY <1>1, ChunksType DEF e
<1>5. Cardinality(DOMAIN e.chunks \cup {p.index}) = Cardinality(DOMAIN e.chunks) + 1
  BY <1>4, FS_AddElement
<1> QED BY <1>3, <1>5 DEF Chunks, e

\* A chunk that is kept waits; it is the only one.
LEMMA KeptChunkWaits ==
    ASSUME FiniteReassembly, NEW p \in VideoFrameFragment, KeepChunk(p)
    PROVE  IsFiniteSet(DOMAIN reassembly)' /\ WaitingChunks' = WaitingChunks + 1
<1> DEFINE k == from_fragment(p)
           e == EntryFor(p)
           w == WithChunk(e, p)
           S == DOMAIN reassembly
           f == ChunkCounts(reassembly)
           g == ChunkCounts(reassembly')
<1>1. reassembly' = MapInsert(reassembly, k, w)
  BY DEF KeepChunk
<1>2. validate_fragment_shape(p) /\ metadata_matches(e, p) /\ p.index \notin DOMAIN e.chunks
  BY KeptFragment DEF KeepChunk
<1>3. ReassemblyFrameState(e) /\ Chunks(w) = Chunks(e) + 1 /\ Chunks(e) \in Nat
  BY <1>2, EntryType, ChunkIsAdded, ChunksType DEF FiniteReassembly
<1>4. DOMAIN reassembly' = S \cup {k} /\ reassembly'[k] = w /\ \A x \in S \ {k} : reassembly'[x] = reassembly[x]
  BY <1>1 DEF MapInsert
<1>5. g[k] = Chunks(w) /\ (\A x \in S \ {k} : g[x] = f[x]) /\ (\A x \in S : f[x] \in Nat)
  BY <1>4, ChunkCountsType DEF ChunkCounts, FiniteReassembly
<1>6. IsFiniteSet(S) /\ IsFiniteSet(S \cup {k})
  BY FS_AddElement DEF FiniteReassembly
<1>7. WaitingChunks = SumFunctionOnSet(f, S) /\ WaitingChunks' = SumFunctionOnSet(g, S \cup {k})
  <2>1. WaitingChunks' = SumFunctionOnSet(g, DOMAIN reassembly')
    BY DEF WaitingChunks, SumFunction, ChunkCounts, Chunks
  <2> QED BY <1>4, <2>1, WaitingIsSum
<1>8. CASE k \in S
  <2>1. e = reassembly[k]
    BY <1>8 DEF EntryFor
  <2>2. f[k] = Chunks(e)
    BY <1>8, <2>1 DEF ChunkCounts
  <2>3. S \cup {k} = S
    BY <1>8
  <2> HIDE DEF f, g, w, e, k, S
  <2>4. SumFunctionOnSet(g, S) + f[k] = SumFunctionOnSet(f, S) + g[k]
    BY <1>3, <1>5, <1>6, <1>8, SumChanges
  <2>5. SumFunctionOnSet(f, S) \in Nat /\ SumFunctionOnSet(g, S) \in Nat
    <3>1. \A x \in S : g[x] \in Nat
      BY <1>3, <1>5
    <3> QED BY <1>5, <1>6, <3>1, SumType
  <2>6. SumFunctionOnSet(g, S) = SumFunctionOnSet(f, S) + 1
    BY <1>3, <1>5, <2>2, <2>4, <2>5
  <2>7. WaitingChunks' = WaitingChunks + 1
    BY <1>7, <2>3, <2>6
  <2> QED BY <1>4, <1>6, <2>7
<1>9. CASE k \notin S
  <2>1. Chunks(e) = 0
    <3>1. e.chunks = EmptyMap
      BY <1>9 DEF EntryFor
    <3>2. DOMAIN e.chunks = {}
      BY <3>1 DEF EmptyMap
    <3> QED BY <3>2, FS_EmptySet DEF Chunks
  <2> HIDE DEF f, g, w, e, k, S
  <2>2. g[k] = 1
    BY <1>3, <1>5, <2>1
  <2>3. \A x \in S \cup {k} : g[x] \in Nat
    BY <1>5, <2>2
  <2>4. SumFunctionOnSet(g, S \cup {k}) = g[k] + SumFunctionOnSet(g, S)
    BY <1>6, <1>9, <2>3, SumAdds
  <2>5. SumFunctionOnSet(g, S) = SumFunctionOnSet(f, S)
    BY <1>5, <1>6, <1>9, SumAgrees
  <2>6. SumFunctionOnSet(f, S) \in Nat
    BY <1>5, <1>6, SumType
  <2>7. WaitingChunks' = WaitingChunks + 1
    BY <1>7, <2>2, <2>4, <2>5, <2>6
  <2> QED BY <1>4, <1>6, <2>7
<1> QED BY <1>8, <1>9

\* With the frame, its chunks leave the reassembly.
LEMMA CompletedChunksLeave ==
    ASSUME FiniteReassembly, NEW p, CompleteFrame(p)
    PROVE  IsFiniteSet(DOMAIN reassembly)' /\ WaitingChunks' \in Nat /\ WaitingChunks' <= WaitingChunks
<1> DEFINE k == from_fragment(p)
           S == DOMAIN reassembly
           f == ChunkCounts(reassembly)
           g == ChunkCounts(reassembly')
<1>1. reassembly' = MapRemove(reassembly, k)
  BY DEF CompleteFrame
<1>2. DOMAIN reassembly' = S \ {k} /\ \A x \in S \ {k} : reassembly'[x] = reassembly[x]
  BY <1>1 DEF MapRemove
<1>3. (\A x \in S \ {k} : g[x] = f[x]) /\ (\A x \in S : f[x] \in Nat)
  BY <1>2, ChunkCountsType DEF ChunkCounts, FiniteReassembly
<1>4. IsFiniteSet(S) /\ IsFiniteSet(S \ {k})
  BY FS_RemoveElement DEF FiniteReassembly
<1>5. WaitingChunks = SumFunctionOnSet(f, S) /\ WaitingChunks' = SumFunctionOnSet(g, S \ {k})
  <2>1. WaitingChunks' = SumFunctionOnSet(g, DOMAIN reassembly')
    BY DEF WaitingChunks, SumFunction, ChunkCounts, Chunks
  <2> QED BY <1>2, <2>1, WaitingIsSum
<1> HIDE DEF f, g, k, S
<1>6. SumFunctionOnSet(g, S \ {k}) = SumFunctionOnSet(f, S \ {k}) /\ SumFunctionOnSet(f, S \ {k}) \in Nat
  BY <1>3, <1>4, SumAgrees, SumType
<1>7. CASE k \in S
  <2>1. SumFunctionOnSet(f, S) = f[k] + SumFunctionOnSet(f, S \ {k}) /\ f[k] \in Nat
    BY <1>3, <1>4, <1>7, SumRemoves
  <2> QED BY <1>2, <1>4, <1>5, <1>6, <2>1
<1>8. CASE k \notin S
  <2>1. S \ {k} = S
    BY <1>8
  <2>2. WaitingChunks' = WaitingChunks /\ WaitingChunks \in Nat
    BY <1>5, <1>6, <2>1
  <2> QED BY <1>2, <1>4, <2>2
<1> QED BY <1>7, <1>8

\* The waiting fragments change with the reassembly only.
LEMMA UntouchedReassembly ==
    ASSUME FiniteReassembly, UNCHANGED reassembly
    PROVE  IsFiniteSet(DOMAIN reassembly)' /\ WaitingChunks' = WaitingChunks /\ WaitingChunks \in Nat
BY WaitingType DEF WaitingChunks, FiniteReassembly

---------------------------------------------------------------------------
\* A packet that changes neither the queue nor the reassembly.
LEMMA UntouchedAccounted ==
    ASSUME TypeOK, IsFiniteSet(DOMAIN reassembly), UNCHANGED << queue, reassembly >>,
           NEW D, NEW k, NEW E,
           One(D, "frames_reassembled") + One(D, "duplicate_fragments") <= One(D, "fragments_received")
    PROVE  IsFiniteSet(DOMAIN reassembly)' /\ Accounted(D, k, E)
<1>1. WaitingChunks' = WaitingChunks /\ WaitingChunks \in Nat /\ IsFiniteSet(DOMAIN reassembly)'
  BY UntouchedReassembly DEF TypeOK, FiniteReassembly
<1>2. ASSUME NEW c \in Clients, NEW r \in Runs
      PROVE  Backlog(c, r)' <= Backlog(c, r) + (IF client_run_scope_key(c, r) = k THEN One(E, "queued") ELSE 0)
  <2>1. Backlog(c, r)' = Backlog(c, r) /\ Backlog(c, r) \in Nat
    BY BacklogType DEF TypeOK, Backlog, frames_for_client_run
  <2>2. One(E, "queued") \in {0, 1}
    BY DEF One
  <2> QED BY <2>1, <2>2
<1>3. /\ One(D, "frames_reassembled") \in {0, 1}
      /\ One(D, "duplicate_fragments") \in {0, 1}
      /\ One(D, "fragments_received") \in {0, 1}
  BY DEF One
<1>4. WaitingChunks' + One(D, "frames_reassembled") + One(D, "duplicate_fragments")
         <= WaitingChunks + One(D, "fragments_received")
  BY <1>1, <1>3
<1> QED BY <1>1, <1>2, <1>4 DEF Accounted

\* What ProcessPacket does, by the type of the packet.
LEMMA PacketKindSteps ==
    ASSUME NEW p, ProcessPacket(p)
    PROVE  /\ GateOutcome(p) # "Accepted" => UNCHANGED << queue, reassembly >>
           /\ p.type = "AuthRequest" => UNCHANGED << queue, reassembly >>
           /\ p.type = "VideoFrame" /\ GateOutcome(p) = "Accepted" =>
                store_frame(DirectFrame(p)) /\ UNCHANGED reassembly
           /\ p.type = "VideoFrameFragment" /\ GateOutcome(p) = "Accepted" =>
                apply_fragment_and_queue_if_complete(p)
           /\ p.type \notin {"AuthRequest", "VideoFrame", "VideoFrameFragment"} =>
                UNCHANGED << queue, reassembly >>
BY DEF ProcessPacket, ReceiveAuthRequest, HandleAuthRequest, ReceiveVideoFrame,
       ReceiveVideoFrameFragment, ReceiveOther, vars, queueVars

\* The counters of one packet, D and those E of scope k, hold the balance, and
\* the state follows them.
PacketCounted(p, D, k, E) ==
    /\ E # {} => k \in ScopeKeys
    /\ CountsUp(summary, Tally(p), D, k, E)
    /\ Balanced(D, E)
    /\ Accounted(D, k, E)

\* Every packet is counted first as received.
LEMMA FirstCount ==
    ASSUME summary \in Summary, NEW k
    PROVE  /\ Bump(summary, {"packets_received"}) \in Summary
           /\ CountsUp(summary, Bump(summary, {"packets_received"}), {"packets_received"}, k, {})
<1>1. CountsUp(summary, Bump(summary, {"packets_received"}), {"packets_received"}, k, {})
  BY BumpCounts
<1> QED BY <1>1 DEF CountsUp

\* A packet that is counted in scalar counters only.
LEMMA PlainPacketCounted ==
    ASSUME TypeOK, IsFiniteSet(DOMAIN reassembly), UNCHANGED << queue, reassembly >>,
           summary \in Summary, NEW p, NEW C,
           Tally(p) = Bump(Bump(summary, {"packets_received"}), C),
           C = {"rejected_packets"} \/ C = {"rejected_packets", "rejected_fragments"}
              \/ C = {"non_video_packets"}
    PROVE  IsFiniteSet(DOMAIN reassembly)' /\ \E D, k, E : PacketCounted(p, D, k, E)
<1> DEFINE s == Bump(summary, {"packets_received"})
           D == {"packets_received"} \cup C
<1>1. s \in Summary /\ CountsUp(summary, s, {"packets_received"}, {}, {})
  BY FirstCount
<1> HIDE DEF s
<1>2. CountsUp(s, Bump(s, C), C, {}, {})
  BY <1>1, BumpCounts
<1>3. CountsUp(summary, Bump(s, C), D, {}, {} \cup {})
  <2>1. {"packets_received"} \cap C = {}
    OBVIOUS
  <2> QED BY <1>1, <1>2, <2>1, CountsUpTwice
<1>4. CountsUp(summary, Tally(p), D, {}, {})
  <2>1. {} \cup {} = {}
    OBVIOUS
  <2> QED BY <1>3, <2>1 DEF s
<1>5. Balanced(D, {})
  BY DEF Balanced, One
<1>6. IsFiniteSet(DOMAIN reassembly)' /\ Accounted(D, {}, {})
  <2>1. One(D, "frames_reassembled") + One(D, "duplicate_fragments") <= One(D, "fragments_received")
    BY DEF One
  <2> HIDE DEF D
  <2> QED BY <2>1, UntouchedAccounted
<1>7. PacketCounted(p, D, {}, {})
  BY <1>4, <1>5, <1>6 DEF PacketCounted
<1> QED BY <1>6, <1>7

\* A frame that arrives whole is counted and queued.
LEMMA DirectPacketCounted ==
    ASSUME TypeOK, IsFiniteSet(DOMAIN reassembly), summary \in Summary, NEW p \in Packets,
           ProcessPacket(p), GateOutcome(p) = "Accepted", p.type = "VideoFrame"
    PROVE  IsFiniteSet(DOMAIN reassembly)' /\ \E D, k, E : PacketCounted(p, D, k, E)
<1> DEFINE f == DirectFrame(p)
           k == ScopeOf(f)
           s == Bump(summary, {"packets_received"})
           t == record_keyframe_received_progress(s, f)
           u == record_direct_frame_progress(t, f)
           D1 == {"packets_received"} \cup ReceivedCounters(f)
           D == D1 \cup DirectCounters(f)
           E == DirectScopeCounters(f)
<1>1. store_frame(f) /\ UNCHANGED reassembly /\ f \in Frame
  BY PacketKindSteps, PacketKinds, DirectFrameType
<1>2. Tally(p) = u
  BY DEF Tally
<1>3. k \in ScopeKeys
  BY <1>1, ScopeOfFrame
<1> HIDE DEF f, k
<1>4. s \in Summary /\ CountsUp(summary, s, {"packets_received"}, k, {})
  BY FirstCount
<1> HIDE DEF s
<1>5. CountsUp(s, t, ReceivedCounters(f), k, {})
  BY <1>1, <1>4, ReceivedKeyframeCounts
<1> HIDE DEF t
<1>6. CountsUp(summary, t, D1, k, {} \cup {})
  <2>1. {"packets_received"} \cap ReceivedCounters(f) = {}
    BY DEF ReceivedCounters
  <2> QED BY <1>4, <1>5, <2>1, CountsUpTwice
<1>7. t \in Summary
  BY <1>6 DEF CountsUp
<1>8. CountsUp(t, u, DirectCounters(f), k, E)
  BY <1>1, <1>7, DirectCounts DEF k
<1> HIDE DEF u
<1>9. CountsUp(summary, u, D, k, ({} \cup {}) \cup E)
  <2>1. D1 \cap DirectCounters(f) = {} /\ ({} \cup {}) \cap E = {}
    BY DEF ReceivedCounters, DirectCounters, QueuedCounters
  <2> HIDE DEF D1, E
  <2> QED BY <1>6, <1>8, <2>1, CountsUpTwice
<1>10. CountsUp(summary, Tally(p), D, k, E)
  <2>1. ({} \cup {}) \cup E = E
    OBVIOUS
  <2> QED BY <1>2, <1>9, <2>1
<1>11. Balanced(D, E)
  BY DEF Balanced, One, ReceivedCounters, DirectCounters, QueuedCounters, DirectScopeCounters,
         QueuedScopeCounters
<1>12. One(E, "queued") = One(QueuedScopeCounters(f), "queued")
  BY DEF One, DirectScopeCounters, QueuedScopeCounters
<1>13. WaitingChunks' = WaitingChunks /\ WaitingChunks \in Nat /\ IsFiniteSet(DOMAIN reassembly)'
  BY <1>1, UntouchedReassembly DEF TypeOK, FiniteReassembly
<1>14. WaitingChunks' + One(D, "frames_reassembled") + One(D, "duplicate_fragments")
         <= WaitingChunks + One(D, "fragments_received")
  <2>1. /\ One(D, "frames_reassembled") = 0
        /\ One(D, "duplicate_fragments") = 0
        /\ One(D, "fragments_received") = 0
    BY DEF One, ReceivedCounters, DirectCounters, QueuedCounters
  <2> QED BY <1>13, <2>1
<1>15. \A c \in Clients, r \in Runs :
         Backlog(c, r)' <= Backlog(c, r) + (IF client_run_scope_key(c, r) = k THEN One(E, "queued") ELSE 0)
  BY <1>1, <1>12, StoreFrameBacklog DEF TypeOK, k
<1>16. PacketCounted(p, D, k, E)
  BY <1>3, <1>10, <1>11, <1>14, <1>15 DEF PacketCounted, Accounted
<1> QED BY <1>13, <1>16

\* A fragment is stored, ignored, rejected, or completes its frame.
LEMMA FragmentResults ==
    ASSUME NEW p
    PROVE  FragmentResult(p) \in {"FragmentStored", "DuplicateFragmentIgnored", "FrameComplete"}
                                 \cup RejectedFragment
BY DEF FragmentResult, RejectedFragment

\* A fragment that completes no frame.
LEMMA PlainFragmentCounted ==
    ASSUME TypeOK, IsFiniteSet(DOMAIN reassembly), summary \in Summary, NEW p \in Packets,
           ProcessPacket(p), GateOutcome(p) = "Accepted", p.type = "VideoFrameFragment",
           FragmentResult(p) # "FrameComplete"
    PROVE  IsFiniteSet(DOMAIN reassembly)' /\ \E D, k, E : PacketCounted(p, D, k, E)
<1> DEFINE s == Bump(summary, {"packets_received"})
           t == Bump(s, {"fragments_received"})
           C == IF FragmentResult(p) = "FragmentStored" THEN {}
                ELSE IF FragmentResult(p) = "DuplicateFragmentIgnored" THEN {"duplicate_fragments"}
                ELSE {"rejected_fragments"}
           D1 == {"packets_received"} \cup {"fragments_received"}
           D == D1 \cup C
<1>1. /\ apply_fragment_and_queue_if_complete(p) /\ p \in VideoFrameFragment
      /\ FragmentResult(p) \in {"FragmentStored", "DuplicateFragmentIgnored"} \cup RejectedFragment
  BY PacketKindSteps, PacketKinds, FragmentResults
<1>2. s \in Summary /\ CountsUp(summary, s, {"packets_received"}, {}, {})
  BY FirstCount
<1>3. Tally(p) = TallyFragment(t, p)
  BY DEF Tally
<1> HIDE DEF s
<1>4. CountsUp(s, t, {"fragments_received"}, {}, {})
  BY <1>2, BumpCounts
<1>5. CountsUp(summary, t, D1, {}, {} \cup {})
  <2>1. {"packets_received"} \cap {"fragments_received"} = {}
    OBVIOUS
  <2> QED BY <1>2, <1>4, <2>1, CountsUpTwice
<1>6. t \in Summary
  BY <1>5 DEF CountsUp
<1> HIDE DEF t
<1>7. CountsUp(t, TallyFragment(t, p), C, {}, {})
  <2>1. CASE FragmentResult(p) = "FragmentStored"
    <3>1. TallyFragment(t, p) = t /\ C = {}
      BY <2>1 DEF TallyFragment, RejectedFragment
    <3>2. CountsUp(t, t, {}, {}, {})
      BY <1>6, SummaryFields DEF CountsUp, One
    <3> QED BY <3>1, <3>2
  <2>2. CASE FragmentResult(p) # "FragmentStored"
    <3>1. TallyFragment(t, p) = Bump(t, C)
      <4>1. CASE FragmentResult(p) = "DuplicateFragmentIgnored"
        <5>1. TallyFragment(t, p) = Bump(t, {"duplicate_fragments"})
          BY <4>1 DEF TallyFragment, RejectedFragment
        <5> QED BY <4>1, <5>1
      <4>2. CASE FragmentResult(p) \in RejectedFragment
        <5>1. TallyFragment(t, p) = Bump(t, {"rejected_fragments"})
          BY <4>2 DEF TallyFragment, RejectedFragment
        <5> QED BY <4>2, <5>1 DEF RejectedFragment
      <4> HIDE DEF C
      <4> QED BY <1>1, <2>2, <4>1, <4>2
    <3>2. CountsUp(t, Bump(t, C), C, {}, {})
      BY <1>6, BumpCounts
    <3> QED BY <3>1, <3>2
  <2> QED BY <2>1, <2>2
<1>8. CountsUp(summary, TallyFragment(t, p), D, {}, ({} \cup {}) \cup {})
  <2>1. D1 \cap C = {} /\ ({} \cup {}) \cap {} = {}
    OBVIOUS
  <2> HIDE DEF D1, C
  <2> QED BY <1>5, <1>7, <2>1, CountsUpTwice
<1>9. CountsUp(summary, Tally(p), D, {}, {})
  <2>1. ({} \cup {}) \cup {} = {}
    OBVIOUS
  <2> QED BY <1>3, <1>8, <2>1
<1>10. Balanced(D, {})
  BY DEF Balanced, One
<1>11. CASE KeepChunk(p)
  <2>1. FragmentResult(p) \in {"FragmentStored", "ReassembledPayloadLenMismatch"}
        /\ queue' = queue
    BY <1>11 DEF KeepChunk, queueVars
  <2>2. IsFiniteSet(DOMAIN reassembly)' /\ WaitingChunks' = WaitingChunks + 1 /\ WaitingChunks \in Nat
    BY <1>1, <1>11, KeptChunkWaits, WaitingType DEF TypeOK, FiniteReassembly
  <2>3. /\ One(D, "frames_reassembled") = 0
        /\ One(D, "duplicate_fragments") = 0
        /\ One(D, "fragments_received") = 1
    BY <2>1 DEF One
  <2> HIDE DEF D
  <2>4. WaitingChunks' + One(D, "frames_reassembled") + One(D, "duplicate_fragments")
           <= WaitingChunks + One(D, "fragments_received")
    BY <2>2, <2>3
  <2>5. ASSUME NEW c \in Clients, NEW r \in Runs
        PROVE  Backlog(c, r)' <= Backlog(c, r) + (IF client_run_scope_key(c, r) = {} THEN One({}, "queued") ELSE 0)
    <3>1. Backlog(c, r)' = Backlog(c, r) /\ Backlog(c, r) \in Nat
      BY <2>1, BacklogType DEF TypeOK, Backlog, frames_for_client_run
    <3>2. One({}, "queued") = 0
      BY DEF One
    <3> QED BY <3>1, <3>2
  <2>6. PacketCounted(p, D, {}, {})
    BY <1>9, <1>10, <2>4, <2>5 DEF PacketCounted, Accounted
  <2> QED BY <2>2, <2>6
<1>12. CASE IgnoreFragment(p)
  <2>1. UNCHANGED << queue, reassembly >>
    BY <1>12 DEF IgnoreFragment, queueVars
  <2>2. One(D, "frames_reassembled") + One(D, "duplicate_fragments") <= One(D, "fragments_received")
    BY DEF One
  <2> HIDE DEF D
  <2>3. IsFiniteSet(DOMAIN reassembly)' /\ Accounted(D, {}, {})
    BY <2>1, <2>2, UntouchedAccounted
  <2>4. PacketCounted(p, D, {}, {})
    BY <1>9, <1>10, <2>3 DEF PacketCounted
  <2> QED BY <2>3, <2>4
<1>13. ~CompleteFrame(p)
  BY DEF CompleteFrame
<1> QED BY <1>1, <1>11, <1>12, <1>13 DEF apply_fragment_and_queue_if_complete

\* The fragment that completes a frame is counted, the frame is queued, and its entry goes.
LEMMA CompletingFragmentCounted ==
    ASSUME TypeOK, IsFiniteSet(DOMAIN reassembly), summary \in Summary, NEW p \in Packets,
           ProcessPacket(p), GateOutcome(p) = "Accepted", p.type = "VideoFrameFragment",
           FragmentResult(p) = "FrameComplete"
    PROVE  IsFiniteSet(DOMAIN reassembly)' /\ \E D, k, E : PacketCounted(p, D, k, E)
<1> DEFINE f == ReassembledFrame(p)
           k == ScopeOf(f)
           s == Bump(summary, {"packets_received"})
           t == Bump(s, {"fragments_received"})
           u == record_keyframe_received_progress(t, f)
           v == record_reassembled_frame_progress(u, f)
           D1 == {"packets_received"} \cup {"fragments_received"}
           D2 == D1 \cup ReceivedCounters(f)
           D3 == {"frames_reassembled"} \cup QueuedCounters(f)
           D == D2 \cup D3
           E == {"reassembled"} \cup QueuedScopeCounters(f)
<1>1. apply_fragment_and_queue_if_complete(p) /\ p \in VideoFrameFragment
  BY PacketKindSteps, PacketKinds
<1>2. CompleteFrame(p)
  BY <1>1 DEF apply_fragment_and_queue_if_complete, KeepChunk, IgnoreFragment
<1>3. f \in Frame /\ store_frame(f)
  BY <1>1, <1>2, ReassembledFrameType DEF CompleteFrame, TypeOK
<1>4. Tally(p) = v
  BY DEF Tally, TallyFragment, RejectedFragment
<1>5. k \in ScopeKeys
  BY <1>3, ScopeOfFrame
<1> HIDE DEF f, k
<1>6. s \in Summary /\ CountsUp(summary, s, {"packets_received"}, k, {})
  BY FirstCount
<1> HIDE DEF s
<1>7. CountsUp(s, t, {"fragments_received"}, k, {})
  BY <1>6, BumpCounts
<1>8. CountsUp(summary, t, D1, k, {} \cup {})
  <2>1. {"packets_received"} \cap {"fragments_received"} = {}
    OBVIOUS
  <2> QED BY <1>6, <1>7, <2>1, CountsUpTwice
<1>9. t \in Summary
  BY <1>8 DEF CountsUp
<1> HIDE DEF t
<1>10. CountsUp(t, u, ReceivedCounters(f), k, {})
  BY <1>3, <1>9, ReceivedKeyframeCounts
<1> HIDE DEF u
<1>11. CountsUp(summary, u, D2, k, ({} \cup {}) \cup {})
  <2>1. D1 \cap ReceivedCounters(f) = {} /\ ({} \cup {}) \cap {} = {}
    BY DEF ReceivedCounters
  <2> HIDE DEF D1
  <2> QED BY <1>8, <1>10, <2>1, CountsUpTwice
<1>12. u \in Summary
  BY <1>11 DEF CountsUp
<1>13. CountsUp(u, v, D3, k, E)
  BY <1>3, <1>12, ReassembledCounts DEF k
<1> HIDE DEF v
<1>14. CountsUp(summary, v, D, k, (({} \cup {}) \cup {}) \cup E)
  <2>1. D2 \cap D3 = {} /\ (({} \cup {}) \cup {}) \cap E = {}
    BY DEF ReceivedCounters, QueuedCounters
  <2> HIDE DEF D2, D3, E
  <2> QED BY <1>11, <1>13, <2>1, CountsUpTwice
<1>15. CountsUp(summary, Tally(p), D, k, E)
  <2>1. (({} \cup {}) \cup {}) \cup E = E
    OBVIOUS
  <2> QED BY <1>4, <1>14, <2>1
<1>16. Balanced(D, E)
  BY DEF Balanced, One, ReceivedCounters, QueuedCounters, QueuedScopeCounters
<1>17. One(E, "queued") = One(QueuedScopeCounters(f), "queued")
  BY DEF One, QueuedScopeCounters
<1>18. IsFiniteSet(DOMAIN reassembly)' /\ WaitingChunks' <= WaitingChunks
       /\ WaitingChunks \in Nat /\ WaitingChunks' \in Nat
  BY <1>2, CompletedChunksLeave, WaitingType DEF TypeOK, FiniteReassembly
<1>20. WaitingChunks' + One(D, "frames_reassembled") + One(D, "duplicate_fragments")
         <= WaitingChunks + One(D, "fragments_received")
  <2>1. /\ One(D, "frames_reassembled") = 1
        /\ One(D, "duplicate_fragments") = 0
        /\ One(D, "fragments_received") = 1
    BY DEF One, ReceivedCounters, QueuedCounters
  <2> HIDE DEF D
  <2> QED BY <1>18, <2>1
<1>21. \A c \in Clients, r \in Runs :
         Backlog(c, r)' <= Backlog(c, r) + (IF client_run_scope_key(c, r) = k THEN One(E, "queued") ELSE 0)
  BY <1>3, <1>17, StoreFrameBacklog DEF TypeOK, k
<1>22. PacketCounted(p, D, k, E)
  BY <1>5, <1>15, <1>16, <1>20, <1>21 DEF PacketCounted, Accounted
<1> QED BY <1>18, <1>22

\* Every packet is counted for what it did.
LEMMA EveryPacketCounted ==
    ASSUME TypeOK, IsFiniteSet(DOMAIN reassembly), summary \in Summary, NEW p \in Packets,
           ProcessPacket(p)
    PROVE  IsFiniteSet(DOMAIN reassembly)' /\ \E D, k, E : PacketCounted(p, D, k, E)
<1> DEFINE s == Bump(summary, {"packets_received"})
<1>1. CASE GateOutcome(p) # "Accepted"
  <2> DEFINE C == {"rejected_packets"} \cup
                     (IF p.type = "VideoFrameFragment" THEN {"rejected_fragments"} ELSE {})
  <2>1. Tally(p) = Bump(s, C)
    BY <1>1 DEF Tally
  <2>2. C = {"rejected_packets"} \/ C = {"rejected_packets", "rejected_fragments"}
    OBVIOUS
  <2>3. UNCHANGED << queue, reassembly >>
    BY <1>1, PacketKindSteps
  <2> HIDE DEF C
  <2> QED BY <2>1, <2>2, <2>3, PlainPacketCounted
<1>2. CASE GateOutcome(p) = "Accepted" /\ p.type = "AuthRequest"
  <2>1. Tally(p) = s /\ UNCHANGED << queue, reassembly >>
    BY <1>2, PacketKindSteps DEF Tally
  <2>2. CountsUp(summary, Tally(p), {"packets_received"}, {}, {})
    BY <2>1, FirstCount
  <2>3. Balanced({"packets_received"}, {})
    BY DEF Balanced, One
  <2>4. One({"packets_received"}, "frames_reassembled") + One({"packets_received"}, "duplicate_fragments")
           <= One({"packets_received"}, "fragments_received")
    BY DEF One
  <2>5. IsFiniteSet(DOMAIN reassembly)' /\ Accounted({"packets_received"}, {}, {})
    BY <2>1, <2>4, UntouchedAccounted
  <2>6. PacketCounted(p, {"packets_received"}, {}, {})
    BY <2>2, <2>3, <2>5 DEF PacketCounted
  <2> QED BY <2>5, <2>6
<1>3. CASE GateOutcome(p) = "Accepted" /\ p.type = "VideoFrame"
  BY <1>3, DirectPacketCounted
<1>4. CASE GateOutcome(p) = "Accepted" /\ p.type = "VideoFrameFragment"
  BY <1>4, PlainFragmentCounted, CompletingFragmentCounted
<1>5. CASE GateOutcome(p) = "Accepted" /\ p.type \notin {"AuthRequest", "VideoFrame", "VideoFrameFragment"}
  <2>1. Tally(p) = Bump(s, {"non_video_packets"}) /\ UNCHANGED << queue, reassembly >>
    BY <1>5, PacketKindSteps DEF Tally
  <2> QED BY <2>1, PlainPacketCounted
<1> QED BY <1>1, <1>2, <1>3, <1>4, <1>5

---------------------------------------------------------------------------
(***************************************************************************)
(* The sums the summary is compared with.                                  *)
(***************************************************************************)

\* The per-client table has finitely many keys.
LEMMA ScopeKeysFinite == IsFiniteSet(ScopeKeys)
<1> DEFINE P == Clients \X Runs
           g == [x \in P |-> client_run_scope_key(x[1], x[2])]
<1>1. IsFiniteSet(P)
  BY FiniteScopesAssumption, FS_Product
<1>2. g \in [P -> ScopeKeys]
  BY DEF ScopeKeys
<1>3. ASSUME NEW k \in ScopeKeys PROVE \E x \in P : g[x] = k
  <2>1. PICK c \in Clients, r \in Runs : k = client_run_scope_key(c, r)
    BY DEF ScopeKeys
  <2>2. <<c, r>> \in P /\ g[<<c, r>>] = k
    BY <2>1
  <2> QED BY <2>2
<1> HIDE DEF P, g
<1>4. g \in Surjection(P, ScopeKeys)
  BY <1>2, <1>3 DEF Surjection
<1> QED BY <1>1, <1>4, FS_Surjection

\* total_len of a queue, and what it becomes when one client's queue changes.
LEMMA TotalLenType ==
    ASSUME NEW q \in [Clients -> Seq(Frame)]
    PROVE  total_len(q) \in Nat
<1> DEFINE f == [c \in Clients |-> Len(q[c])]
<1>1. \A c \in Clients : f[c] \in Nat
  OBVIOUS
<1>2. total_len(q) = SumFunctionOnSet(f, Clients)
  BY DEF total_len, SumFunction
<1> HIDE DEF f
<1> QED BY <1>1, <1>2, SumType, FiniteScopesAssumption

\* The total length changes by what one client's queue changes.
LEMMA TotalLenChanges ==
    ASSUME NEW q \in [Clients -> Seq(Frame)], NEW r \in [Clients -> Seq(Frame)], NEW c \in Clients,
           \A d \in Clients \ {c} : r[d] = q[d]
    PROVE  total_len(r) + Len(q[c]) = total_len(q) + Len(r[c])
<1> DEFINE f == [d \in Clients |-> Len(q[d])]
           g == [d \in Clients |-> Len(r[d])]
<1>1. (\A d \in Clients : f[d] \in Nat) /\ g[c] \in Nat /\ \A d \in Clients \ {c} : g[d] = f[d]
  OBVIOUS
<1>2. /\ total_len(q) = SumFunctionOnSet(f, Clients)
      /\ total_len(r) = SumFunctionOnSet(g, Clients)
      /\ f[c] = Len(q[c]) /\ g[c] = Len(r[c])
  BY DEF total_len, SumFunction
<1> HIDE DEF f, g
<1>3. SumFunctionOnSet(g, Clients) + f[c] = SumFunctionOnSet(f, Clients) + g[c]
  BY <1>1, SumChanges, FiniteScopesAssumption
<1> QED BY <1>2, <1>3

\* A dequeue takes one frame, a request that is no dequeue takes none.
LEMMA RequestTakes ==
    ASSUME QueueTypeOK, NEW c \in Clients, NEW r \in Runs, NEW mode, handle_request(c, r, mode)
    PROVE  /\ total_len(queue') \in Nat
           /\ total_len(queue') <= total_len(queue)
           /\ total_len(queue) <= total_len(queue') + 1
           /\ HandoffResponse(c, r, mode).kind # "FrameRead" => total_len(queue') = total_len(queue)
<1>0. queue \in [Clients -> Seq(Frame)] /\ total_len(queue) \in Nat
  BY TotalLenType DEF QueueTypeOK
<1>1. CASE mode = "DequeueOldest" /\ HandoffResponse(c, r, mode).kind = "FrameRead"
  <2>1. pop_front_for_client_run(c, r)
    BY <1>1 DEF handle_request
  <2>2. PICK m \in FirstOf(frames_for_client_run(c, r)) :
          queue' = [queue EXCEPT ![c] = RemoveAt(@, m)]
    BY <2>1 DEF pop_front_for_client_run
  <2>3. queue[c] \in Seq(Frame) /\ m \in 1 .. Len(queue[c])
    BY <1>0 DEF FirstOf, frames_for_client_run
  <2>4. RemoveAt(queue[c], m) \in Seq(Frame) /\ Len(RemoveAt(queue[c], m)) = Len(queue[c]) - 1
    BY <2>3, RemoveAtElements
  <2>5. /\ queue' \in [Clients -> Seq(Frame)] /\ queue'[c] = RemoveAt(queue[c], m)
        /\ \A d \in Clients \ {c} : queue'[d] = queue[d]
    BY <1>0, <2>2, <2>4
  <2>6. total_len(queue') + Len(queue[c]) = total_len(queue) + Len(queue'[c])
    BY <1>0, <2>5, TotalLenChanges
  <2>7. total_len(queue') \in Nat /\ Len(queue[c]) \in Nat
    BY <2>3, <2>5, TotalLenType
  <2>8. Len(queue'[c]) = Len(queue[c]) - 1
    BY <2>4, <2>5
  <2>9. total_len(queue') = total_len(queue) - 1
    <3>1. total_len(queue) \in Nat
      BY <1>0
    <3> QED BY ONLY <2>6, <2>7, <2>8, <3>1
  <2> QED BY <1>0, <1>1, <2>7, <2>9
<1>2. CASE ~(mode = "DequeueOldest" /\ HandoffResponse(c, r, mode).kind = "FrameRead")
  <2>1. queue' = queue
    BY <1>2 DEF handle_request, queueVars
  <2> QED BY <1>0, <2>1
<1> QED BY <1>1, <1>2

\* The sum over the scopes grows with the scope that was counted.
LEMMA ScopeTotalGrows ==
    ASSUME summary \in Summary, NEW t, NEW D, NEW k, NEW E, CountsUp(summary, t, D, k, E),
           summary'.per_client = t.per_client, E # {} => k \in ScopeKeys, NEW n \in ScopeCounter
    PROVE  ScopeTotal(n) \in Nat /\ ScopeTotal(n)' = ScopeTotal(n) + One(E, n)
<1> DEFINE f == [x \in ScopeKeys |-> summary.per_client[x][n]]
           g == [x \in ScopeKeys |-> t.per_client[x][n]]
<1>1. ScopeTotal(n) = SumFunctionOnSet(f, ScopeKeys) /\ ScopeTotal(n)' = SumFunctionOnSet(g, ScopeKeys)
  BY DEF ScopeTotal, SumFunction
<1>2. \A x \in ScopeKeys : f[x] \in Nat
  BY SummaryFields
<1>3. \A x \in ScopeKeys : g[x] = f[x] + (IF x = k THEN One(E, n) ELSE 0)
  BY DEF CountsUp
<1>4. One(E, n) \in Nat
  BY DEF One
<1> HIDE DEF f, g
<1>5. SumFunctionOnSet(f, ScopeKeys) \in Nat
  BY <1>2, SumType, ScopeKeysFinite
<1>6. CASE k \in ScopeKeys
  <2>1. g[k] = f[k] + One(E, n) /\ f[k] \in Nat /\ g[k] \in Nat
    BY <1>2, <1>3, <1>4, <1>6
  <2>2. \A x \in ScopeKeys \ {k} : g[x] = f[x]
    BY <1>2, <1>3
  <2>3. SumFunctionOnSet(g, ScopeKeys) + f[k] = SumFunctionOnSet(f, ScopeKeys) + g[k]
    BY <1>2, <1>6, <2>1, <2>2, SumChanges, ScopeKeysFinite
  <2>4. \A x \in ScopeKeys : g[x] \in Nat
    BY <1>2, <1>3, <1>4
  <2>5. SumFunctionOnSet(g, ScopeKeys) \in Nat
    BY <2>4, SumType, ScopeKeysFinite
  <2>6. SumFunctionOnSet(g, ScopeKeys) = SumFunctionOnSet(f, ScopeKeys) + One(E, n)
    BY <1>4, <1>5, <2>1, <2>3, <2>5
  <2> QED BY <1>1, <1>5, <2>6
<1>7. CASE k \notin ScopeKeys
  <2>1. One(E, n) = 0
    BY <1>7 DEF One
  <2>2. \A x \in ScopeKeys : g[x] = f[x]
    BY <1>2, <1>3, <1>7
  <2>3. SumFunctionOnSet(g, ScopeKeys) = SumFunctionOnSet(f, ScopeKeys)
    BY <1>2, <2>2, SumAgrees, ScopeKeysFinite
  <2> QED BY <1>1, <1>5, <2>1, <2>3
<1> QED BY <1>6, <1>7

---------------------------------------------------------------------------
(***************************************************************************)
(* The counters account for the state.                                     *)
(***************************************************************************)

\* The inductive invariant of the receive side.
ReceiveInv ==
    /\ TypeOK
    /\ summary \in Summary
    /\ IsFiniteSet(DOMAIN reassembly)
    /\ CountersAccountForState

\* The receive invariant holds at first.
LEMMA CountersStart ==
    ASSUME Init, SummaryInit
    PROVE  ReceiveInv
<1>1. TypeOK
  BY DEF Init, AuthInit, QueueInit, ReassemblyInit, TypeOK, AuthTypeOK, QueueTypeOK,
         ReassemblyTypeOK, EmptyMap
<1>2. summary \in Summary /\ (\A n \in Counter : summary.count[n] = 0)
      /\ \A k \in ScopeKeys, n \in ScopeCounter : summary.per_client[k][n] = 0
  BY DEF SummaryInit, Summary
<1>3. DOMAIN reassembly = {} /\ IsFiniteSet(DOMAIN reassembly)
  BY FS_EmptySet DEF Init, ReassemblyInit, EmptyMap
<1>4. ASSUME NEW n \in ScopeCounter PROVE ScopeTotal(n) = 0
  <2> DEFINE f == [k \in ScopeKeys |-> summary.per_client[k][n]]
  <2>1. ScopeTotal(n) = SumFunctionOnSet(f, ScopeKeys) /\ \A k \in ScopeKeys : f[k] = 0
    BY <1>2 DEF ScopeTotal, SumFunction
  <2> HIDE DEF f
  <2>2. SumFunctionOnSet(f, ScopeKeys) = 0
    BY <2>1, SumOfZeros, ScopeKeysFinite
  <2> QED BY <2>1, <2>2
<1>5. WaitingChunks = 0
  BY <1>3, WaitingIsSum, SumOfNone
<1>6. ASSUME NEW c \in Clients, NEW r \in Runs
      PROVE  Cardinality(frames_for_client_run(c, r)) <= summary.per_client[client_run_scope_key(c, r)]["queued"]
  <2>1. queue[c] = << >>
    BY DEF Init, QueueInit
  <2>2. frames_for_client_run(c, r) = {}
    BY <2>1 DEF frames_for_client_run
  <2>3. Cardinality(frames_for_client_run(c, r)) = 0
    BY <2>2, FS_EmptySet
  <2>4. client_run_scope_key(c, r) \in ScopeKeys
    BY DEF ScopeKeys
  <2> QED BY <1>2, <2>3, <2>4 DEF ScopeCounter
<1>7. CountersAccountForState
  BY <1>2, <1>4, <1>5, <1>6 DEF CountersAccountForState, Counter, ScopeCounter
<1> QED BY <1>1, <1>2, <1>3, <1>7 DEF ReceiveInv

\* The fields of the summary that the counters live in.
SameCounts(s, t) ==
    /\ t \in Summary
    /\ t.per_client = s.per_client
    /\ \A n \in Counter \ {"queue_len", "incomplete_reassembly_frames"} : t.count[n] = s.count[n]

\* A packet that is counted keeps the counters accounting for the state.
LEMMA PacketKeepsCounters ==
    ASSUME ReceiveInv, NEW p \in Packets, ProcessPacket(p), SameCounts(Tally(p), summary')
    PROVE  ReceiveInv'
<1>0. TypeOK /\ summary \in Summary /\ IsFiniteSet(DOMAIN reassembly) /\ CountersAccountForState
  BY DEF ReceiveInv
<1>1. TypeOK'
  BY <1>0, ProcessPacketType
<1>2. IsFiniteSet(DOMAIN reassembly)' /\ \E D, k, E : PacketCounted(p, D, k, E)
  BY <1>0, EveryPacketCounted
<1>3. PICK D, k, E : PacketCounted(p, D, k, E)
  BY <1>2
<1>4. summary' \in Summary
  BY DEF SameCounts
<1> DEFINE n == summary.count
           m == summary'.count
           Q == Counter \ {"queue_len", "incomplete_reassembly_frames"}
<1>5. \A i \in Q : n[i] \in Nat /\ m[i] \in Nat /\ m[i] = n[i] + One(D, i)
  BY <1>0, <1>3, <1>4, SummaryFields DEF PacketCounted, CountsUp, SameCounts
<1>6. \A i \in ScopeCounter : ScopeTotal(i) \in Nat /\ ScopeTotal(i)' = ScopeTotal(i) + One(E, i)
  BY <1>0, <1>3, ScopeTotalGrows DEF PacketCounted, SameCounts
<1>7. {"frames_queued", "direct_frames_queued", "frames_reassembled", "keyframes_queued",
       "duplicate_fragments", "fragments_received", "non_video_packets", "rejected_packets",
       "packets_received"} \subseteq Q /\ ScopeCounter = {"queued", "direct", "reassembled", "keyframes"}
  BY DEF Counter, ScopeCounter
<1>8. \A i : One(D, i) \in {0, 1}
  BY DEF One
<1>9. Balanced(D, E) /\ Accounted(D, k, E)
  BY <1>3 DEF PacketCounted
<1>10. m["frames_queued"] = IF MaxFrames = 0 THEN 0 ELSE m["direct_frames_queued"] + m["frames_reassembled"]
  BY <1>0, <1>5, <1>7, <1>8, <1>9 DEF CountersAccountForState, Balanced
<1>11. /\ ScopeTotal("queued")' = m["frames_queued"]
       /\ ScopeTotal("direct")' = m["direct_frames_queued"]
       /\ ScopeTotal("reassembled")' = m["frames_reassembled"]
       /\ ScopeTotal("keyframes")' = m["keyframes_queued"]
  BY <1>0, <1>5, <1>6, <1>7, <1>9 DEF CountersAccountForState, Balanced
<1>12. WaitingChunks \in Nat /\ WaitingChunks' \in Nat
  <2>1. WaitingChunks' = SumFunctionOnSet(ChunkCounts(reassembly'), DOMAIN reassembly')
    BY DEF WaitingChunks, SumFunction, ChunkCounts, Chunks
  <2>2. \A x \in DOMAIN reassembly' : ReassemblyFrameState(reassembly'[x])
    BY <1>1 DEF TypeOK, ReassemblyTypeOK, ReassemblyFrameState
  <2>3. WaitingChunks' \in Nat
    BY <1>2, <2>1, <2>2, ChunkSumType
  <2> QED BY <1>0, <2>3, WaitingType DEF FiniteReassembly, TypeOK
<1>13. WaitingChunks' + m["frames_reassembled"] + m["duplicate_fragments"] <= m["fragments_received"]
  BY <1>0, <1>5, <1>7, <1>8, <1>9, <1>12 DEF CountersAccountForState, Accounted
<1>14. m["direct_frames_queued"] + m["fragments_received"] + m["non_video_packets"]
             + m["rejected_packets"] <= m["packets_received"]
  <2>1. One(D, "packets_received") = 1
    BY <1>9 DEF Balanced, One
  <2> QED BY <1>0, <1>5, <1>7, <1>8, <1>9, <2>1 DEF CountersAccountForState, Balanced
<1>15. ASSUME NEW c \in Clients, NEW r \in Runs
       PROVE  Backlog(c, r)' <= summary'.per_client[client_run_scope_key(c, r)]["queued"]
  <2> DEFINE x == client_run_scope_key(c, r)
             b == IF x = k THEN One(E, "queued") ELSE 0
  <2>1. x \in ScopeKeys
    BY DEF ScopeKeys
  <2>2. summary'.per_client[x]["queued"] = summary.per_client[x]["queued"] + b
    BY <1>3, <1>7, <2>1 DEF PacketCounted, CountsUp, SameCounts
  <2>3. Backlog(c, r)' <= Backlog(c, r) + b
    BY <1>9 DEF Accounted
  <2>4. Backlog(c, r) <= summary.per_client[x]["queued"]
    BY <1>0 DEF CountersAccountForState, Backlog
  <2>5. Backlog(c, r) \in Nat /\ Backlog(c, r)' \in Nat
    <3>1. queue'[c] \in Seq(Frame)
      BY <1>1 DEF TypeOK, QueueTypeOK
    <3>2. Backlog(c, r)' \in Nat
      BY <3>1, PositionsFinite DEF Backlog, frames_for_client_run
    <3> QED BY <1>0, <3>2, BacklogType DEF TypeOK
  <2>6. b \in Nat /\ summary.per_client[x]["queued"] \in Nat
    BY <1>0, <1>7, <2>1, SummaryFields DEF One
  <2> HIDE DEF x, b
  <2>7. Backlog(c, r)' <= summary'.per_client[x]["queued"]
    BY <2>2, <2>3, <2>4, <2>5, <2>6
  <2> QED BY <2>7 DEF x
<1>16. CountersAccountForState'
  BY <1>10, <1>11, <1>13, <1>14, <1>15 DEF CountersAccountForState, Backlog
<1> QED BY <1>1, <1>2, <1>4, <1>16 DEF ReceiveInv

---------------------------------------------------------------------------
(***************************************************************************)
(* The summary after a packet, and the snapshot that ends a loop.          *)
(***************************************************************************)

StopReason ==
    {"None", "ReceiveTimedOut", "MaxVideoPacketsReached", "ReassembledFramesThresholdReached",
     "ClientAwareThresholdReached", "ReassembledFramesAndClientAwareThresholdReached"}

\* A counter that is set changes nothing else of the summary.
LEMMA CountChanges ==
    ASSUME NEW s \in Summary, NEW n \in Counter, NEW v \in Nat,
           NEW t, t = [s EXCEPT !.count[n] = v]
    PROVE  /\ t \in Summary
           /\ t.count[n] = v
           /\ \A i \in Counter \ {n} : t.count[i] = s.count[i]
           /\ t.per_client = s.per_client
           /\ t.stop_reason = s.stop_reason
<1> DEFINE c == [s.count EXCEPT ![n] = v]
<1>1. t = [s EXCEPT !.count = c]
  OBVIOUS
<1>2. c \in [Counter -> Nat] /\ c[n] = v /\ \A i \in Counter \ {n} : c[i] = s.count[i]
  BY SummaryFields
<1> HIDE DEF c
<1>3. t \in Summary /\ t.count = c /\ t.per_client = s.per_client /\ t.stop_reason = s.stop_reason
  BY <1>1, <1>2 DEF Summary
<1> QED BY <1>2, <1>3

\* finalize_receive_summary sets the stop reason and the two lengths only.
LEMMA SnapshotIsExact ==
    ASSUME NEW s \in Summary, NEW reason \in StopReason, NEW re, IsFiniteSet(DOMAIN re),
           NEW q \in [Clients -> Seq(Frame)]
    PROVE  /\ SameCounts(s, Finalized(s, reason, re, q))
           /\ Finalized(s, reason, re, q).stop_reason = reason
           /\ Finalized(s, reason, re, q).count["queue_len"] = total_len(q)
<1> DEFINE a == [s EXCEPT !.stop_reason = reason]
           b == [a EXCEPT !.count["incomplete_reassembly_frames"] = Cardinality(DOMAIN re)]
           d == [b EXCEPT !.count["queue_len"] = total_len(q)]
<1>1. a \in Summary /\ a.count = s.count /\ a.per_client = s.per_client /\ a.stop_reason = reason
  BY DEF Summary, StopReason
<1>2. Finalized(s, reason, re, q) = d
  BY DEF Finalized
<1>3. Cardinality(DOMAIN re) \in Nat /\ total_len(q) \in Nat
  BY FS_CardinalityType, TotalLenType
<1>4. "queue_len" \in Counter /\ "incomplete_reassembly_frames" \in Counter
  BY DEF Counter
<1> HIDE DEF a
<1>5. /\ b \in Summary /\ b.per_client = a.per_client /\ b.stop_reason = a.stop_reason
      /\ \A i \in Counter \ {"incomplete_reassembly_frames"} : b.count[i] = a.count[i]
  BY <1>1, <1>3, <1>4, CountChanges
<1> HIDE DEF b
<1>8. d = [b EXCEPT !.count["queue_len"] = total_len(q)]
  OBVIOUS
<1>9. b \in Summary /\ total_len(q) \in Nat /\ "queue_len" \in Counter
  BY <1>3, <1>4, <1>5
<1> HIDE DEF d
<1>10. /\ d \in Summary /\ d.count["queue_len"] = total_len(q)
       /\ \A i \in Counter \ {"queue_len"} : d.count[i] = b.count[i]
       /\ d.per_client = b.per_client /\ d.stop_reason = b.stop_reason
  <2> DEFINE n == "queue_len"
             v == total_len(q)
  <2>1. b \in Summary /\ n \in Counter /\ v \in Nat /\ d = [b EXCEPT !.count[n] = v]
    BY <1>8, <1>9
  <2> HIDE DEF n, v
  <2>2. /\ d \in Summary /\ d.count[n] = v
        /\ \A i \in Counter \ {n} : d.count[i] = b.count[i]
        /\ d.per_client = b.per_client /\ d.stop_reason = b.stop_reason
    BY ONLY <2>1, CountChanges
  <2> QED BY <2>2 DEF n, v
<1>7. SameCounts(s, d)
  BY <1>1, <1>5, <1>10 DEF SameCounts
<1> QED BY <1>1, <1>2, <1>5, <1>7, <1>10

\* Two snapshots, one after the other, count nothing.
LEMMA SameCountsTwice ==
    ASSUME NEW s, NEW t, NEW u, SameCounts(s, t), SameCounts(t, u)
    PROVE  SameCounts(s, u)
BY DEF SameCounts

\* The summary a packet leaves: it is counted, the length of the queue is exact,
\* and a loop that is to go on has met no threshold.
ReceivedPacket(limit) ==
    /\ ReceiveInv'
    /\ summary'.count["packets_received"] = summary.count["packets_received"] + 1
    /\ summary'.count["queue_len"] = total_len(queue')
    /\ summary'.stop_reason = "None" =>
         limit = "None" /\ evaluate_reassembled_stop_reason(summary') = "None"
    /\ limit # "None" => summary'.stop_reason = limit
    /\ summary'.stop_reason \in StopReason

\* process_received_packet_for_video_queue leaves such a summary.
LEMMA PacketLeavesSummary ==
    ASSUME ReceiveInv, NEW p \in Packets, NEW limit \in StopReason,
           process_received_packet_for_video_queue(p, limit), summary.stop_reason = "None"
    PROVE  ReceivedPacket(limit)
<1> DEFINE s == [Tally(p) EXCEPT !.count["queue_len"] = total_len(queue')]
           reason == IF limit # "None" THEN limit ELSE evaluate_reassembled_stop_reason(s)
<1>0. TypeOK /\ summary \in Summary /\ IsFiniteSet(DOMAIN reassembly)
  BY DEF ReceiveInv
<1>1. ProcessPacket(p) /\ summary' = IF reason = "None" THEN s ELSE Finalized(s, reason, reassembly', queue')
  BY DEF process_received_packet_for_video_queue
<1>2. IsFiniteSet(DOMAIN reassembly)' /\ \E D, k, E : PacketCounted(p, D, k, E)
  BY <1>0, <1>1, EveryPacketCounted
<1>3. PICK D, k, E : PacketCounted(p, D, k, E)
  BY <1>2
<1>4. /\ Tally(p) \in Summary /\ Tally(p).stop_reason = "None"
      /\ Tally(p).count["packets_received"] = summary.count["packets_received"] + 1
  <2>1. One(D, "packets_received") = 1 /\ "packets_received" \in Counter
    BY <1>3 DEF PacketCounted, Balanced, One, Counter
  <2> QED BY <1>3, <2>1 DEF PacketCounted, CountsUp
<1>5. queue' \in [Clients -> Seq(Frame)]
  BY <1>0, <1>1, ProcessPacketType DEF TypeOK, QueueTypeOK
<1>6. total_len(queue') \in Nat
  BY <1>5, TotalLenType
<1>7. "queue_len" \in Counter
  BY DEF Counter
<1>8. /\ s \in Summary /\ s.stop_reason = Tally(p).stop_reason /\ s.per_client = Tally(p).per_client
      /\ s.count["queue_len"] = total_len(queue')
      /\ \A i \in Counter \ {"queue_len"} : s.count[i] = Tally(p).count[i]
  BY <1>4, <1>6, <1>7, CountChanges
<1> HIDE DEF s
<1>9. SameCounts(Tally(p), s)
  BY <1>8 DEF SameCounts
<1>10. reason \in StopReason
  BY DEF StopReason, evaluate_reassembled_stop_reason
<1>11. /\ SameCounts(s, summary') /\ summary'.count["queue_len"] = total_len(queue')
       /\ summary'.stop_reason = reason
  <2>1. CASE reason = "None"
    <3>1. summary' = s
      BY <1>1, <2>1
    <3> QED BY <1>4, <1>8, <2>1, <3>1 DEF SameCounts
  <2>2. CASE reason # "None"
    <3>1. summary' = Finalized(s, reason, reassembly', queue')
      BY <1>1, <2>2
    <3> HIDE DEF reason
    <3>2. IsFiniteSet(DOMAIN reassembly')
      BY <1>2
    <3> QED BY <1>5, <1>8, <1>10, <3>1, <3>2, SnapshotIsExact
  <2> QED BY <2>1, <2>2
<1>12. SameCounts(Tally(p), summary')
  BY <1>9, <1>11, SameCountsTwice
<1>13. ReceiveInv'
  BY <1>1, <1>12, PacketKeepsCounters
<1>14. summary'.count["packets_received"] = summary.count["packets_received"] + 1
  <2>1. "packets_received" \in Counter \ {"queue_len", "incomplete_reassembly_frames"}
    BY DEF Counter
  <2> QED BY <1>4, <1>12, <2>1 DEF SameCounts
<1>15. reason = "None" => limit = "None" /\ evaluate_reassembled_stop_reason(summary') = "None"
  <2>1. reason = "None" => summary' = s
    BY <1>1
  <2> QED BY <2>1
<1>16. limit # "None" => reason = limit
  OBVIOUS
<1> HIDE DEF reason
<1> QED BY <1>10, <1>11, <1>13, <1>14, <1>15, <1>16 DEF ReceivedPacket

\* The AuthRequest whose answer is lost is counted; the length of the queue is
\* the one of the packet before.
LEMMA LostAnswerLeavesSummary ==
    ASSUME ReceiveInv, NEW p \in Packets, AuthResponseSendFails(p)
    PROVE  /\ ReceiveInv'
           /\ summary'.stop_reason = summary.stop_reason
           /\ summary'.count["packets_received"] = summary.count["packets_received"] + 1
<1>0. TypeOK /\ summary \in Summary /\ IsFiniteSet(DOMAIN reassembly)
  BY DEF ReceiveInv
<1>1. ProcessPacket(p) /\ summary' = Tally(p)
  BY DEF AuthResponseSendFails
<1>2. PICK D, k, E : PacketCounted(p, D, k, E)
  BY <1>0, <1>1, EveryPacketCounted
<1>3. /\ summary' \in Summary /\ summary'.stop_reason = summary.stop_reason
      /\ summary'.count["packets_received"] = summary.count["packets_received"] + 1
  <2>1. One(D, "packets_received") = 1 /\ "packets_received" \in Counter
    BY <1>2 DEF PacketCounted, Balanced, One, Counter
  <2> QED BY <1>1, <1>2, <2>1 DEF PacketCounted, CountsUp
<1>4. SameCounts(Tally(p), summary')
  BY <1>1, <1>3 DEF SameCounts
<1> QED BY <1>1, <1>3, <1>4, PacketKeepsCounters

\* What changes neither the core nor the counters.
LEMMA SnapshotKeepsReceiveInv ==
    ASSUME ReceiveInv, UNCHANGED vars, SameCounts(summary, summary')
    PROVE  ReceiveInv'
<1>0. TypeOK /\ summary \in Summary /\ IsFiniteSet(DOMAIN reassembly) /\ CountersAccountForState
  BY DEF ReceiveInv
<1>1. TypeOK' /\ IsFiniteSet(DOMAIN reassembly)' /\ summary' \in Summary
  BY <1>0, UnchangedType DEF vars, SameCounts
<1>2. \A n \in ScopeCounter : ScopeTotal(n)' = ScopeTotal(n)
  BY DEF ScopeTotal, SameCounts
<1>3. WaitingChunks' = WaitingChunks
  BY DEF WaitingChunks, vars
<1>4. \A c \in Clients, r \in Runs : frames_for_client_run(c, r)' = frames_for_client_run(c, r)
  BY DEF frames_for_client_run, vars
<1>5. \A i \in {"frames_queued", "direct_frames_queued", "frames_reassembled", "keyframes_queued",
                "duplicate_fragments", "fragments_received", "non_video_packets",
                "rejected_packets", "packets_received"} : summary'.count[i] = summary.count[i]
  BY DEF SameCounts, Counter
<1>6. summary'.per_client = summary.per_client
  BY DEF SameCounts
<1>7. CountersAccountForState'
  BY <1>0, <1>2, <1>3, <1>4, <1>5, <1>6 DEF CountersAccountForState, ScopeCounter
<1> QED BY <1>1, <1>7 DEF ReceiveInv

\* The answer to a request.
LEMMA RequestKeepsReceiveInv ==
    ASSUME ReceiveInv, NEW c \in Clients, NEW r \in Runs, NEW mode \in ReadMode,
           handle_request(c, r, mode), summary' = summary
    PROVE  ReceiveInv'
<1>0. TypeOK /\ summary \in Summary /\ IsFiniteSet(DOMAIN reassembly) /\ CountersAccountForState
  BY DEF ReceiveInv
<1>1. TypeOK' /\ reassembly' = reassembly
  BY <1>0, HandleRequestType DEF handle_request
<1>2. ASSUME NEW d \in Clients, NEW s \in Runs
      PROVE  Backlog(d, s)' <= summary.per_client[client_run_scope_key(d, s)]["queued"]
  <2>1. Backlog(d, s)' <= Backlog(d, s)
    <3>1. CASE pop_front_for_client_run(c, r)
      BY <1>0, <3>1, PopFrontBacklog DEF TypeOK
    <3>2. CASE queue' = queue
      BY <1>0, <3>2, UntouchedBacklog DEF TypeOK
    <3> QED BY <3>1, <3>2 DEF handle_request, queueVars
  <2>2. Backlog(d, s) \in Nat /\ Backlog(d, s)' \in Nat
    <3>1. queue'[d] \in Seq(Frame)
      BY <1>1 DEF TypeOK, QueueTypeOK
    <3>2. Backlog(d, s)' \in Nat
      BY <3>1, PositionsFinite DEF Backlog, frames_for_client_run
    <3> QED BY <1>0, <3>2, BacklogType DEF TypeOK
  <2>3. Backlog(d, s) <= summary.per_client[client_run_scope_key(d, s)]["queued"]
    BY <1>0 DEF CountersAccountForState, Backlog
  <2>4. summary.per_client[client_run_scope_key(d, s)]["queued"] \in Nat
    <3>1. client_run_scope_key(d, s) \in ScopeKeys /\ "queued" \in ScopeCounter
      BY DEF ScopeKeys, ScopeCounter
    <3> QED BY <1>0, <3>1, SummaryFields
  <2> QED BY <2>1, <2>2, <2>3, <2>4
<1>3. WaitingChunks' = WaitingChunks /\ \A n : ScopeTotal(n)' = ScopeTotal(n)
  BY <1>1 DEF WaitingChunks, ScopeTotal
<1>4. CountersAccountForState'
  BY <1>0, <1>2, <1>3 DEF CountersAccountForState, Backlog
<1> QED BY <1>0, <1>1, <1>4 DEF ReceiveInv
===========================================================================
