------------------------------ MODULE DataLemmas ------------------------------
(***************************************************************************)
(* Lemmas about the data the models are built from: what the list          *)
(* operations do to a list without duplicates, sums over finite sets       *)
(* (SumFunctionOnSet of the community modules), which do not depend on the *)
(* order in which the elements are picked, list comprehensions, and the    *)
(* shares of an interface, which are those of BandwidthShare.  An          *)
(* induction is stated for a set: had it an element for which the formula  *)
(* is false, it would have a smallest one.                                 *)
(***************************************************************************)
EXTENDS Integers, FiniteSetsExt, SequencesExt, Lists, BandwidthShare, SequenceTheorems,
        FiniteSetTheorems, TLAPS

-----------------------------------------------------------------------------
(* Lists: RemoveFirst, ToSet and IsInjective are those of the community modules *)

LEMMA ElementsOfList ==
  ASSUME NEW S, NEW s \in Seq(S)
  PROVE  \A x : x \in ToSet(s) <=> \E i \in 1 .. Len(s) : s[i] = x
BY DEF ToSet

\* list.remove(e) of Python on a list that holds e once.
LEMMA RemoveFirstIsRemoveAt ==
  ASSUME NEW S, NEW s \in Seq(S), IsInjective(s), NEW k \in 1 .. Len(s)
  PROVE  RemoveFirst(s, s[k]) = SubSeq(s, 1, k - 1) \o SubSeq(s, k + 1, Len(s))
<1> DEFINE I == {i \in 1 .. Len(s) : s[i] = s[k]}
<1>1. I = {k}
  BY DEF IsInjective
<1>2. Min(I) = k
  BY <1>1 DEF Min
<1>3. SelectInSeq(s, LAMBDA v : v = s[k]) = k
  BY <1>1, <1>2 DEF SelectInSeq
<1> QED
  BY <1>3 DEF RemoveFirst, RemoveAt

\* The list without the element at position k, position by position.
LEMMA RemoveAtProperties ==
  ASSUME NEW S, NEW s \in Seq(S), NEW k \in 1 .. Len(s)
  PROVE  LET r == SubSeq(s, 1, k - 1) \o SubSeq(s, k + 1, Len(s))
         IN  /\ r \in Seq(S)
             /\ Len(r) = Len(s) - 1
             /\ \A i \in 1 .. Len(s) - 1 : r[i] = IF i < k THEN s[i] ELSE s[i + 1]
<1> DEFINE a == SubSeq(s, 1, k - 1)
           b == SubSeq(s, k + 1, Len(s))
<1>a. a \in Seq(S) /\ Len(a) = k - 1 /\ \A i \in 1 .. k - 1 : a[i] = s[i]
  OBVIOUS
<1>b. b \in Seq(S) /\ Len(b) = Len(s) - k /\ \A i \in 1 .. Len(s) - k : b[i] = s[k + i]
  OBVIOUS
<1> HIDE DEF a, b
<1>1. /\ a \o b \in Seq(S)
      /\ Len(a \o b) = Len(a) + Len(b)
      /\ \A i \in 1 .. Len(a) + Len(b) :
           (a \o b)[i] = IF i <= Len(a) THEN a[i] ELSE b[i - Len(a)]
  BY <1>a, <1>b, ConcatProperties, Zenon
<1>2. Len(s) \in Nat /\ k \in Nat /\ k <= Len(s) /\ k >= 1
  BY LenProperties
<1>3. ASSUME NEW i \in 1 .. Len(s) - 1
      PROVE  (a \o b)[i] = IF i < k THEN s[i] ELSE s[i + 1]
  <2>1. (a \o b)[i] = IF i <= k - 1 THEN a[i] ELSE b[i - (k - 1)]
    BY <1>a, <1>b, <1>1, <1>2
  <2>2. CASE i < k
    BY <1>a, <2>1, <2>2, <1>2
  <2>3. CASE ~(i < k)
    <3>1. i - (k - 1) \in 1 .. Len(s) - k /\ k + (i - (k - 1)) = i + 1 /\ ~(i <= k - 1)
      BY <2>3, <1>2
    <3>2. b[i - (k - 1)] = s[k + (i - (k - 1))]
      BY <1>b, <3>1
    <3>3. (a \o b)[i] = s[i + 1]
      BY <2>1, <3>1, <3>2
    <3> QED BY <2>3, <1>2, <3>3
  <2> QED BY <2>2, <2>3
<1>4. Len(a \o b) = Len(s) - 1
  BY <1>a, <1>b, <1>1, <1>2
<1> QED
  BY <1>1, <1>3, <1>4 DEF a, b

LEMMA RemoveFirstProperties ==
  ASSUME NEW S, NEW s \in Seq(S), IsInjective(s), NEW e \in ToSet(s)
  PROVE  /\ RemoveFirst(s, e) \in Seq(S)
         /\ Len(RemoveFirst(s, e)) = Len(s) - 1
         /\ IsInjective(RemoveFirst(s, e))
         /\ ToSet(RemoveFirst(s, e)) = ToSet(s) \ {e}
<1> DEFINE r == RemoveFirst(s, e)
<1>1. PICK k \in 1 .. Len(s) : s[k] = e
  BY DEF ToSet
<1>2. /\ r \in Seq(S)
      /\ Len(r) = Len(s) - 1
      /\ \A i \in 1 .. Len(r) : r[i] = IF i < k THEN s[i] ELSE s[i + 1]
  <2>1. r = SubSeq(s, 1, k - 1) \o SubSeq(s, k + 1, Len(s))
    BY <1>1, RemoveFirstIsRemoveAt
  <2> HIDE DEF r
  <2>2. /\ r \in Seq(S)
        /\ Len(r) = Len(s) - 1
        /\ \A i \in 1 .. Len(s) - 1 : r[i] = IF i < k THEN s[i] ELSE s[i + 1]
    BY <2>1, RemoveAtProperties, Zenon
  <2> QED BY <2>2
<1> HIDE DEF r
<1>0. DOMAIN r = 1 .. Len(r) /\ DOMAIN s = 1 .. Len(s) /\ Len(s) \in Nat /\ k \in Nat
  BY <1>2
<1>3. IsInjective(r)
  <2> SUFFICES ASSUME NEW i \in 1 .. Len(r), NEW j \in 1 .. Len(r), r[i] = r[j]
               PROVE  i = j
    BY <1>0 DEF IsInjective
  <2>1. \A x, y \in 1 .. Len(s) : s[x] = s[y] => x = y
    BY <1>0 DEF IsInjective
  <2> QED BY <1>0, <1>2, <2>1
<1>4. ASSUME NEW i \in 1 .. Len(r) PROVE r[i] \in ToSet(s) \ {e}
  <2>1. \A x, y \in 1 .. Len(s) : s[x] = s[y] => x = y
    BY <1>0 DEF IsInjective
  <2>2. PICK x \in 1 .. Len(s) : r[i] = s[x] /\ x # k
    BY <1>0, <1>2
  <2> QED BY <1>0, <1>1, <2>1, <2>2 DEF ToSet
<1>5. ASSUME NEW j \in 1 .. Len(s), s[j] # e
      PROVE  \E i \in 1 .. Len(r) : r[i] = s[j]
  <2>1. CASE j < k
    BY <2>1, <1>0, <1>2
  <2>2. CASE j > k
    <3>1. j - 1 \in 1 .. Len(r) /\ r[j - 1] = s[j]
      BY <2>2, <1>0, <1>2
    <3> QED BY <3>1
  <2> QED BY <1>1, <1>5, <2>1, <2>2
<1>6. ToSet(r) = ToSet(s) \ {e}
  <2>1. \A x : x \in ToSet(s) <=> \E i \in 1 .. Len(s) : s[i] = x
    BY ElementsOfList
  <2>2. \A x : x \in ToSet(r) <=> \E i \in 1 .. Len(r) : r[i] = x
    BY <1>2, ElementsOfList
  <2> QED BY <1>4, <1>5, <2>1, <2>2
<1> QED
  BY <1>2, <1>3, <1>6 DEF r

LEMMA TailOfInjective ==
  ASSUME NEW S, NEW s \in Seq(S), s # <<>>, IsInjective(s)
  PROVE  /\ Tail(s) \in Seq(S) /\ Head(s) \in S /\ Len(Tail(s)) = Len(s) - 1
         /\ \A i \in 1 .. Len(Tail(s)) : Tail(s)[i] = s[i + 1]
         /\ IsInjective(Tail(s))
         /\ ToSet(Tail(s)) = ToSet(s) \ {Head(s)}
         /\ Head(s) \in ToSet(s)
<1>1. /\ Tail(s) \in Seq(S) /\ Head(s) \in S /\ Len(Tail(s)) = Len(s) - 1
      /\ \A i \in 1 .. Len(Tail(s)) : Tail(s)[i] = s[i + 1]
      /\ Head(s) = s[1] /\ Len(s) > 0
  OBVIOUS
<1> DEFINE r == Tail(s)
<1> HIDE DEF r
<1>2. /\ r \in Seq(S) /\ Len(r) = Len(s) - 1
      /\ \A i \in 1 .. Len(r) : r[i] = s[i + 1]
  BY <1>1 DEF r
<1>3. IsInjective(r)
  BY <1>2 DEF IsInjective
<1>4. ASSUME NEW j \in 1 .. Len(s), j # 1
      PROVE  \E i \in 1 .. Len(r) : r[i] = s[j]
  <2>1. j - 1 \in 1 .. Len(r) /\ r[j - 1] = s[j]
    BY <1>2, <1>4
  <2> QED BY <2>1
<1>5. \A i \in 1 .. Len(r) : r[i] \in ToSet(s) \ {s[1]}
  BY <1>2 DEF IsInjective, ToSet
<1>6. ToSet(r) = ToSet(s) \ {s[1]}
  <2>1. \A x : x \in ToSet(s) <=> \E i \in 1 .. Len(s) : s[i] = x
    BY ElementsOfList
  <2>2. \A x : x \in ToSet(r) <=> \E i \in 1 .. Len(r) : r[i] = x
    BY <1>2, ElementsOfList
  <2> QED BY <1>4, <1>5, <2>1, <2>2
<1> QED
  BY <1>1, <1>3, <1>6 DEF r, ToSet

LEMMA AppendToInjective ==
  ASSUME NEW S, NEW s \in Seq(S), IsInjective(s), NEW e \in S, e \notin ToSet(s)
  PROVE  /\ Append(s, e) \in Seq(S) /\ Append(s, e) # <<>> /\ Len(Append(s, e)) = Len(s) + 1
         /\ \A i \in 1 .. Len(s) : Append(s, e)[i] = s[i]
         /\ Append(s, e)[Len(s) + 1] = e
         /\ IsInjective(Append(s, e))
         /\ ToSet(Append(s, e)) = ToSet(s) \cup {e}
<1> DEFINE r == Append(s, e)
<1>1. /\ r \in Seq(S) /\ r # <<>> /\ Len(r) = Len(s) + 1
      /\ \A i \in 1 .. Len(s) : r[i] = s[i]
      /\ r[Len(s) + 1] = e
  OBVIOUS
<1> HIDE DEF r
<1>2. DOMAIN r = 1 .. Len(r) /\ DOMAIN s = 1 .. Len(s) /\ Len(s) \in Nat
  BY <1>1
<1>3. IsInjective(r)
  BY <1>1, <1>2 DEF IsInjective, ToSet
<1>4. ToSet(r) = ToSet(s) \cup {e}
  BY <1>1, <1>2 DEF ToSet
<1> QED
  BY <1>1, <1>3, <1>4 DEF r

-----------------------------------------------------------------------------
(* Induction, sums, recursive functions and comprehensions *)

\* Induction over finite sets: a set of counterexamples would have a smallest one.
LEMMA SmallestSubset ==
  ASSUME NEW S, IsFiniteSet(S), NEW T, T \subseteq SUBSET S, T # {}
  PROVE  \E X \in T : \A Y \in T : Y \subseteq X => Y = X
<1>1. IsWellFoundedOn(StrictSubsetOrdering(S), SUBSET S)
  BY FS_StrictSubsetOrderingWellFounded, FS_FiniteSubsetsOfFinite
<1>2. PICK X \in T : \A Y \in T : ~(<<Y, X>> \in StrictSubsetOrdering(S))
  BY <1>1, WFMin, Zenon
<1> QED
  BY <1>2, Zenon DEF StrictSubsetOrdering

\* How the fold behind SumFunctionOnSet works through a set.
Pick(s) == CHOOSE x \in s : TRUE
SumUpTo(g, S, f) ==
  g = [s \in SUBSET S |-> IF s = {} THEN 0 ELSE f[Pick(s)] + g[s \ {Pick(s)}]]

LEMMA PickIn == ASSUME NEW s, s # {} PROVE Pick(s) \in s
BY DEF Pick

LEMMA SumsAgree ==
  ASSUME NEW f, NEW S, IsFiniteSet(S), NEW R, R \subseteq S,
         NEW g, SumUpTo(g, S, f), NEW h, SumUpTo(h, R, f)
  PROVE  \A s \in SUBSET R : g[s] = h[s]
<1> DEFINE T == {s \in SUBSET R : g[s] # h[s]}
<1> SUFFICES ASSUME T # {} PROVE FALSE
  OBVIOUS
<1>1. PICK X \in T : \A Y \in T : Y \subseteq X => Y = X
  <2>1. T \subseteq SUBSET S
    OBVIOUS
  <2> HIDE DEF T
  <2> QED BY <2>1, SmallestSubset
<1>2. CASE X = {}
  BY <1>2 DEF SumUpTo
<1>3. CASE X # {}
  <2> DEFINE y == X \ {Pick(X)}
  <2>1. Pick(X) \in X
    BY <1>3, PickIn
  <2>2. y \in SUBSET R /\ y \subseteq X /\ y # X /\ X \in SUBSET R /\ X \in SUBSET S
    BY <2>1
  <2>3. g[y] = h[y]
    BY <1>1, <2>2
  <2>4. g[X] = f[Pick(X)] + g[y]
    BY <1>3, <2>2 DEF SumUpTo
  <2>5. h[X] = f[Pick(X)] + h[y]
    BY <1>3, <2>2 DEF SumUpTo
  <2> QED BY <2>3, <2>4, <2>5
<1> QED BY <1>2, <1>3

LEMMA SumExists ==
  ASSUME NEW f, NEW S, IsFiniteSet(S)
  PROVE  \E g : SumUpTo(g, S, f)
<1> DEFINE T == {X \in SUBSET S : ~\E g : SumUpTo(g, X, f)}
<1> SUFFICES ASSUME T # {} PROVE FALSE
  OBVIOUS
<1>1. PICK X \in T : \A Y \in T : Y \subseteq X => Y = X
  <2>1. T \subseteq SUBSET S
    OBVIOUS
  <2> HIDE DEF T
  <2> QED BY <2>1, SmallestSubset
<1> DEFINE h(Y) == CHOOSE g : SumUpTo(g, Y, f)
           rest(s) == s \ {Pick(s)}
           G == [s \in SUBSET X |-> IF s = {} THEN 0 ELSE f[Pick(s)] + h(rest(s))[rest(s)]]
<1>2. ASSUME NEW Y \in SUBSET X, Y # X
      PROVE  SumUpTo(h(Y), Y, f)
  <2>1. \E g : SumUpTo(g, Y, f)
    BY <1>1, <1>2
  <2> QED BY <2>1
<1>3. ASSUME NEW s \in SUBSET X, s # {}
      PROVE  G[rest(s)] = h(rest(s))[rest(s)]
  <2> DEFINE u == rest(s)
  <2>1. Pick(s) \in s
    BY <1>3, PickIn
  <2>2. u \in SUBSET X /\ u # X
    BY <2>1
  <2>3. SumUpTo(h(u), u, f)
    BY <2>2, <1>2
  <2>4. CASE u = {}
    <3>1. h(u)[u] = 0
      BY <2>3, <2>4, Zenon DEF SumUpTo
    <3> QED BY <3>1, <2>4, <2>2
  <2>5. CASE u # {}
    <3> DEFINE v == rest(u)
    <3>1. Pick(u) \in u
      BY <2>5, PickIn
    <3>2. v \in SUBSET X /\ v # X /\ v \in SUBSET u
      BY <3>1, <2>2
    <3>3. SumUpTo(h(v), v, f)
      BY <3>2, <1>2
    <3>4. IsFiniteSet(u)
      BY <2>2, FS_Subset
    <3> HIDE DEF h, v, u
    <3>5. h(u)[v] = h(v)[v]
      <4>1. v \subseteq u /\ v \in SUBSET v
        BY <3>2
      <4> QED BY <4>1, <2>3, <3>3, <3>4, SumsAgree
    <3>6. h(u)[u] = f[Pick(u)] + h(u)[v]
      BY <2>3, <2>5 DEF SumUpTo, v
    <3>7. G[u] = f[Pick(u)] + h(v)[v]
      BY <2>2, <2>5 DEF v
    <3> QED BY <3>5, <3>6, <3>7 DEF u
  <2> QED BY <2>4, <2>5
<1>4. SumUpTo(G, X, f)
  <2>1. G = [s \in SUBSET X |-> IF s = {} THEN 0 ELSE f[Pick(s)] + G[rest(s)]]
    <3> HIDE DEF h
    <3>1. \A s \in SUBSET X : G[s] = IF s = {} THEN 0 ELSE f[Pick(s)] + G[rest(s)]
      BY <1>3
    <3> QED BY <3>1
  <2> QED BY <2>1, Zenon DEF SumUpTo
<1> QED BY <1>1, <1>4

LEMMA SumIsUpTo ==
  ASSUME NEW f, NEW S, IsFiniteSet(S)
  PROVE  \E g : SumUpTo(g, S, f) /\ SumFunctionOnSet(f, S) = g[S]
<1> DEFINE g == CHOOSE h : SumUpTo(h, S, f)
<1>1. SumUpTo(g, S, f)
  BY SumExists
<1>2. SumFunctionOnSet(f, S) = g[S]
  BY DEF SumFunctionOnSet, FoldFunctionOnSet, MapThenFoldSet, SumUpTo, Pick
<1> QED BY <1>1, <1>2

LEMMA SumOfNothing ==
  ASSUME NEW f
  PROVE  SumFunctionOnSet(f, {}) = 0
<1>1. IsFiniteSet({})
  BY FS_EmptySet
<1> QED BY <1>1, SumIsUpTo, ZenonT(60) DEF SumUpTo

LEMMA SumWithPick ==
  ASSUME NEW f, NEW S, IsFiniteSet(S), S # {}
  PROVE  SumFunctionOnSet(f, S) = f[Pick(S)] + SumFunctionOnSet(f, S \ {Pick(S)})
<1> DEFINE R == S \ {Pick(S)}
<1>1. PICK g : SumUpTo(g, S, f) /\ SumFunctionOnSet(f, S) = g[S]
  BY SumIsUpTo
<1>2. IsFiniteSet(R)
  BY FS_RemoveElement
<1>3. PICK h : SumUpTo(h, R, f) /\ SumFunctionOnSet(f, R) = h[R]
  BY <1>2, SumIsUpTo
<1>4. R \subseteq S /\ R \in SUBSET R
  OBVIOUS
<1> HIDE DEF R
<1>5. g[R] = h[R]
  BY <1>1, <1>3, <1>4, SumsAgree
<1>6. g[S] = f[Pick(S)] + g[R]
  BY <1>1 DEF SumUpTo, R
<1> QED BY <1>1, <1>3, <1>5, <1>6 DEF R

LEMMA SumType ==
  ASSUME NEW S, IsFiniteSet(S), NEW f, \A x \in S : f[x] \in Int
  PROVE  SumFunctionOnSet(f, S) \in Int
<1> DEFINE T == {X \in SUBSET S : SumFunctionOnSet(f, X) \notin Int}
<1> SUFFICES ASSUME T # {} PROVE FALSE
  OBVIOUS
<1>1. PICK X \in T : \A Y \in T : Y \subseteq X => Y = X
  <2>1. T \subseteq SUBSET S
    OBVIOUS
  <2> HIDE DEF T
  <2> QED BY <2>1, SmallestSubset
<1>2. X # {} /\ IsFiniteSet(X)
  <2>1. X # {}
    BY SumOfNothing
  <2> QED BY <2>1, FS_Subset
<1>3. Pick(X) \in X
  BY <1>2, PickIn
<1>4. SumFunctionOnSet(f, X \ {Pick(X)}) \in Int
  BY <1>1, <1>3
<1> QED BY <1>2, <1>3, <1>4, SumWithPick

\* Whichever element is taken first.
LEMMA SumWithout ==
  ASSUME NEW S, IsFiniteSet(S), NEW f, \A x \in S : f[x] \in Int, NEW e \in S
  PROVE  SumFunctionOnSet(f, S) = f[e] + SumFunctionOnSet(f, S \ {e})
<1> DEFINE Total(X) == SumFunctionOnSet(f, X)
           T == {X \in SUBSET S : \E x \in X : Total(X) # f[x] + Total(X \ {x})}
<1> SUFFICES ASSUME T # {} PROVE FALSE
  OBVIOUS
<1>1. PICK X \in T : \A Y \in T : Y \subseteq X => Y = X
  <2>1. T \subseteq SUBSET S
    OBVIOUS
  <2> HIDE DEF T
  <2> QED BY <2>1, SmallestSubset
<1>2. PICK x \in X : Total(X) # f[x] + Total(X \ {x})
  OBVIOUS
<1> DEFINE p == Pick(X)
<1>3. p \in X /\ p # x
  <2>1. p \in X
    BY PickIn
  <2>2. IsFiniteSet(X)
    BY FS_Subset
  <2>3. Total(X) = f[p] + Total(X \ {p})
    BY <2>2, SumWithPick
  <2> QED BY <2>1, <2>3, <1>2
<1> DEFINE Z == (X \ {p}) \ {x}
<1>4. Total(X) = f[p] + Total(X \ {p})
  BY <1>3, FS_Subset, SumWithPick
<1> HIDE DEF p
<1>5. Total(X \ {p}) = f[x] + Total(Z)
  <2>1. X \ {p} \notin T /\ x \in X \ {p} /\ X \ {p} \in SUBSET S
    BY <1>1, <1>3
  <2> QED BY <2>1
<1>6. Total(X \ {x}) = f[p] + Total(Z)
  <2>1. X \ {x} \notin T /\ p \in X \ {x} /\ X \ {x} \in SUBSET S
    BY <1>1, <1>3
  <2>2. (X \ {x}) \ {p} = Z
    OBVIOUS
  <2> QED BY <2>1, <2>2
<1>7. f[x] \in Int /\ f[p] \in Int /\ Total(Z) \in Int
  <2>1. IsFiniteSet(Z)
    <3>1. Z \in SUBSET S
      OBVIOUS
    <3> QED BY <3>1, FS_Subset
  <2> QED BY <2>1, <1>3, SumType
<1> HIDE DEF Total
<1> QED BY <1>2, <1>4, <1>5, <1>6, <1>7

LEMMA SumWith ==
  ASSUME NEW S, IsFiniteSet(S), NEW f, \A x \in S : f[x] \in Int,
         NEW e, e \notin S, f[e] \in Int
  PROVE  SumFunctionOnSet(f, S \cup {e}) = f[e] + SumFunctionOnSet(f, S)
<1>1. IsFiniteSet(S \cup {e}) /\ (S \cup {e}) \ {e} = S
  BY FS_AddElement
<1>2. \A x \in S \cup {e} : f[x] \in Int
  OBVIOUS
<1> QED BY <1>1, <1>2, SumWithout

\* Only the values on the set count.
LEMMA SumOfEqual ==
  ASSUME NEW S, IsFiniteSet(S), NEW f, NEW g, \A x \in S : f[x] = g[x]
  PROVE  SumFunctionOnSet(f, S) = SumFunctionOnSet(g, S)
<1> DEFINE T == {X \in SUBSET S : SumFunctionOnSet(f, X) # SumFunctionOnSet(g, X)}
<1> SUFFICES ASSUME T # {} PROVE FALSE
  OBVIOUS
<1>1. PICK X \in T : \A Y \in T : Y \subseteq X => Y = X
  <2>1. T \subseteq SUBSET S
    OBVIOUS
  <2> HIDE DEF T
  <2> QED BY <2>1, SmallestSubset
<1>2. X # {} /\ IsFiniteSet(X)
  <2>1. X # {}
    BY SumOfNothing
  <2> QED BY <2>1, FS_Subset
<1>3. Pick(X) \in X
  BY <1>2, PickIn
<1>4. SumFunctionOnSet(f, X \ {Pick(X)}) = SumFunctionOnSet(g, X \ {Pick(X)})
  BY <1>1, <1>3
<1>5. f[Pick(X)] = g[Pick(X)]
  BY <1>3
<1> QED BY <1>2, <1>4, <1>5, SumWithPick

LEMMA SumMonotone ==
  ASSUME NEW S, IsFiniteSet(S), NEW f, NEW g,
         \A x \in S : f[x] \in Int /\ g[x] \in Int /\ f[x] <= g[x]
  PROVE  SumFunctionOnSet(f, S) <= SumFunctionOnSet(g, S)
<1> DEFINE T == {X \in SUBSET S : ~(SumFunctionOnSet(f, X) <= SumFunctionOnSet(g, X))}
<1> SUFFICES ASSUME T # {} PROVE FALSE
  OBVIOUS
<1>1. PICK X \in T : \A Y \in T : Y \subseteq X => Y = X
  <2>1. T \subseteq SUBSET S
    OBVIOUS
  <2> HIDE DEF T
  <2> QED BY <2>1, SmallestSubset
<1>2. X # {} /\ IsFiniteSet(X)
  <2>1. X # {}
    BY SumOfNothing
  <2> QED BY <2>1, FS_Subset
<1> DEFINE p == Pick(X)
           R == X \ {p}
<1>3. p \in X
  BY <1>2, PickIn
<1>4. SumFunctionOnSet(f, R) <= SumFunctionOnSet(g, R)
  BY <1>1, <1>3
<1>5. f[p] \in Int /\ g[p] \in Int /\ f[p] <= g[p]
  BY <1>3
<1>6. IsFiniteSet(R) /\ R \subseteq S
  BY <1>2, FS_RemoveElement
<1>7. SumFunctionOnSet(f, R) \in Int /\ SumFunctionOnSet(g, R) \in Int
  BY <1>6, SumType
<1>8. /\ SumFunctionOnSet(f, X) = f[p] + SumFunctionOnSet(f, R)
      /\ SumFunctionOnSet(g, X) = g[p] + SumFunctionOnSet(g, R)
  BY <1>2, SumWithPick
<1> QED BY <1>1, <1>4, <1>5, <1>7, <1>8

LEMMA SumOfNaturals ==
  ASSUME NEW S, IsFiniteSet(S), NEW f, \A x \in S : f[x] \in Nat
  PROVE  SumFunctionOnSet(f, S) \in Nat
<1> DEFINE none == [x \in S |-> 0]
           T == {X \in SUBSET S : SumFunctionOnSet(none, X) # 0}
<1>1. SumFunctionOnSet(none, S) = 0
  <2> SUFFICES ASSUME T # {} PROVE FALSE
    OBVIOUS
  <2>1. PICK X \in T : \A Y \in T : Y \subseteq X => Y = X
    <3>1. T \subseteq SUBSET S
      OBVIOUS
    <3> HIDE DEF T
    <3> QED BY <3>1, SmallestSubset
  <2>2. X # {} /\ IsFiniteSet(X)
    <3>1. SumFunctionOnSet(none, {}) = 0
      BY SumOfNothing
    <3>2. X # {}
      BY <3>1
    <3> QED BY <3>2, FS_Subset
  <2>3. Pick(X) \in X
    BY <2>2, PickIn
  <2>4. SumFunctionOnSet(none, X \ {Pick(X)}) = 0 /\ none[Pick(X)] = 0
    BY <2>1, <2>3
  <2> QED BY <2>1, <2>2, <2>4, SumWithPick
<1>2. \A x \in S : none[x] \in Int /\ f[x] \in Int /\ none[x] <= f[x]
  OBVIOUS
<1> HIDE DEF none
<1>3. SumFunctionOnSet(none, S) <= SumFunctionOnSet(f, S) /\ SumFunctionOnSet(f, S) \in Int
  BY <1>2, SumMonotone, SumType
<1> QED BY <1>1, <1>3

LEMMA SumOfConstant ==
  ASSUME NEW S, IsFiniteSet(S), NEW k \in Int, NEW f, \A x \in S : f[x] = k
  PROVE  SumFunctionOnSet(f, S) = k * Cardinality(S)
<1> DEFINE T == {X \in SUBSET S : SumFunctionOnSet(f, X) # k * Cardinality(X)}
<1> SUFFICES ASSUME T # {} PROVE FALSE
  OBVIOUS
<1>1. PICK X \in T : \A Y \in T : Y \subseteq X => Y = X
  <2>1. T \subseteq SUBSET S
    OBVIOUS
  <2> HIDE DEF T
  <2> QED BY <2>1, SmallestSubset
<1>2. X # {} /\ IsFiniteSet(X)
  <2>1. SumFunctionOnSet(f, {}) = 0 /\ Cardinality({}) = 0 /\ k * 0 = 0
    BY SumOfNothing, FS_EmptySet
  <2>2. X # {}
    BY <2>1
  <2> QED BY <2>2, FS_Subset
<1> DEFINE R == X \ {Pick(X)}
<1>3. Pick(X) \in X /\ f[Pick(X)] = k
  BY <1>2, PickIn
<1>4. SumFunctionOnSet(f, R) = k * Cardinality(R)
  BY <1>1, <1>3
<1>5. IsFiniteSet(R) /\ Cardinality(R) = Cardinality(X) - 1 /\ Cardinality(X) \in Nat
  BY <1>2, <1>3, FS_RemoveElement, FS_CardinalityType
<1>6. SumFunctionOnSet(f, X) = k + k * (Cardinality(X) - 1)
  BY <1>2, <1>3, <1>4, <1>5, SumWithPick
<1> HIDE DEF T
<1>7. SumFunctionOnSet(f, X) = k * Cardinality(X)
  BY <1>5, <1>6
<1> QED BY <1>1, <1>7 DEF T

LEMMA SumBound ==
  ASSUME NEW S, IsFiniteSet(S), NEW k \in Int, NEW f, \A x \in S : f[x] \in Int /\ f[x] <= k
  PROVE  SumFunctionOnSet(f, S) <= k * Cardinality(S)
<1> DEFINE g == [x \in S |-> k]
<1>1. \A x \in S : f[x] \in Int /\ g[x] \in Int /\ f[x] <= g[x] /\ g[x] = k
  OBVIOUS
<1> HIDE DEF g
<1>2. SumFunctionOnSet(f, S) <= SumFunctionOnSet(g, S)
  BY <1>1, SumMonotone
<1>3. SumFunctionOnSet(g, S) = k * Cardinality(S)
  BY <1>1, SumOfConstant
<1> QED BY <1>2, <1>3

LEMMA SumOfUnion ==
  ASSUME NEW R, IsFiniteSet(R), NEW S, IsFiniteSet(S), R \cap S = {},
         NEW f, \A x \in R \cup S : f[x] \in Int
  PROVE  SumFunctionOnSet(f, R \cup S) = SumFunctionOnSet(f, R) + SumFunctionOnSet(f, S)
<1> DEFINE Total(X) == SumFunctionOnSet(f, X)
           T == {X \in SUBSET S : Total(R \cup X) # Total(R) + Total(X)}
<1> SUFFICES ASSUME T # {} PROVE FALSE
  OBVIOUS
<1>1. PICK X \in T : \A Y \in T : Y \subseteq X => Y = X
  <2>1. T \subseteq SUBSET S
    OBVIOUS
  <2> HIDE DEF T
  <2> QED BY <2>1, SmallestSubset
<1>2. X # {} /\ IsFiniteSet(X)
  <2>1. Total(R) \in Int /\ Total({}) = 0
    BY SumType, SumOfNothing
  <2>2. R \cup {} = R /\ Total(R) = Total(R) + Total({})
    BY <2>1
  <2>3. ~({} \in T)
    BY <2>2
  <2> QED BY <2>3, <1>1, FS_Subset
<1>3. PICK e \in X : TRUE
  BY <1>2
<1> DEFINE Y == X \ {e}
<1>4. Total(R \cup Y) = Total(R) + Total(Y)
  <2>1. Y \in SUBSET S /\ Y \subseteq X /\ Y # X
    BY <1>3
  <2> QED BY <2>1, <1>1
<1>5. Total(X) = f[e] + Total(Y)
  <2>1. \A x \in X : f[x] \in Int
    OBVIOUS
  <2> QED BY <1>2, <2>1, SumWithout
<1>6. Total(R \cup X) = f[e] + Total(R \cup Y)
  <2>1. IsFiniteSet(R \cup X)
    BY <1>2, FS_Union
  <2>2. (R \cup X) \ {e} = R \cup Y /\ e \in R \cup X /\ \A x \in R \cup X : f[x] \in Int
    OBVIOUS
  <2> QED BY <2>1, <2>2, SumWithout
<1>7. f[e] \in Int /\ Total(R) \in Int /\ Total(Y) \in Int
  <2>1. IsFiniteSet(Y) /\ \A x \in Y : f[x] \in Int
    BY <1>2, FS_RemoveElement
  <2> QED BY <2>1, SumType
<1>8. Total(R \cup X) = Total(R) + Total(X)
  <2> HIDE DEF Total, Y
  <2> QED BY <1>4, <1>5, <1>6, <1>7
<1> QED BY <1>1, <1>8

\* One value changes.
LEMMA SumWithChange ==
  ASSUME NEW S, IsFiniteSet(S), NEW e \in S,
         NEW f, NEW g, \A x \in S : f[x] \in Int /\ g[x] \in Int,
         \A x \in S \ {e} : f[x] = g[x]
  PROVE  SumFunctionOnSet(g, S) = SumFunctionOnSet(f, S) - f[e] + g[e]
<1> DEFINE R == S \ {e}
<1>1. IsFiniteSet(R)
  BY FS_RemoveElement
<1>2. SumFunctionOnSet(f, R) = SumFunctionOnSet(g, R) /\ SumFunctionOnSet(f, R) \in Int
  BY <1>1, SumOfEqual, SumType
<1>3. /\ SumFunctionOnSet(f, S) = f[e] + SumFunctionOnSet(f, R)
      /\ SumFunctionOnSet(g, S) = g[e] + SumFunctionOnSet(g, R)
  BY SumWithout
<1> QED BY <1>2, <1>3

\* Value by value.
LEMMA SumOfSums ==
  ASSUME NEW S, IsFiniteSet(S), NEW f, NEW g, NEW h,
         \A x \in S : f[x] \in Int /\ g[x] \in Int /\ h[x] = f[x] + g[x]
  PROVE  SumFunctionOnSet(h, S) = SumFunctionOnSet(f, S) + SumFunctionOnSet(g, S)
<1> DEFINE T == {X \in SUBSET S : SumFunctionOnSet(h, X)
                                   # SumFunctionOnSet(f, X) + SumFunctionOnSet(g, X)}
<1> SUFFICES ASSUME T # {} PROVE FALSE
  OBVIOUS
<1>1. PICK X \in T : \A Y \in T : Y \subseteq X => Y = X
  <2>1. T \subseteq SUBSET S
    OBVIOUS
  <2> HIDE DEF T
  <2> QED BY <2>1, SmallestSubset
<1>2. X # {} /\ IsFiniteSet(X)
  <2>1. /\ SumFunctionOnSet(f, {}) = 0 /\ SumFunctionOnSet(g, {}) = 0
        /\ SumFunctionOnSet(h, {}) = 0
    BY SumOfNothing
  <2>2. SumFunctionOnSet(h, {}) = SumFunctionOnSet(f, {}) + SumFunctionOnSet(g, {})
    BY <2>1
  <2>3. X # {}
    BY <2>2
  <2> QED BY <2>3, FS_Subset
<1> DEFINE p == Pick(X)
           R == X \ {p}
<1>3. p \in X
  BY <1>2, PickIn
<1>4. SumFunctionOnSet(h, R) = SumFunctionOnSet(f, R) + SumFunctionOnSet(g, R)
  BY <1>1, <1>3
<1>5. f[p] \in Int /\ g[p] \in Int /\ h[p] = f[p] + g[p]
  BY <1>3
<1>6. IsFiniteSet(R) /\ R \subseteq S
  BY <1>2, FS_RemoveElement
<1>7. SumFunctionOnSet(f, R) \in Int /\ SumFunctionOnSet(g, R) \in Int
  BY <1>6, SumType
<1>8. /\ SumFunctionOnSet(f, X) = f[p] + SumFunctionOnSet(f, R)
      /\ SumFunctionOnSet(g, X) = g[p] + SumFunctionOnSet(g, R)
      /\ SumFunctionOnSet(h, X) = h[p] + SumFunctionOnSet(h, R)
  BY <1>2, SumWithPick
<1> QED BY <1>1, <1>4, <1>5, <1>7, <1>8

\* Scaled on both sides.
LEMMA SumScaled ==
  ASSUME NEW S, IsFiniteSet(S), NEW f, NEW g, NEW k \in Nat, NEW n \in Nat,
         \A x \in S : f[x] \in Int /\ g[x] \in Int /\ f[x] * k <= g[x] * n
  PROVE  SumFunctionOnSet(f, S) * k <= SumFunctionOnSet(g, S) * n
<1> DEFINE T == {X \in SUBSET S : ~(SumFunctionOnSet(f, X) * k <= SumFunctionOnSet(g, X) * n)}
<1> SUFFICES ASSUME T # {} PROVE FALSE
  OBVIOUS
<1>1. PICK X \in T : \A Y \in T : Y \subseteq X => Y = X
  <2>1. T \subseteq SUBSET S
    OBVIOUS
  <2> HIDE DEF T
  <2> QED BY <2>1, SmallestSubset
<1>2. X # {} /\ IsFiniteSet(X)
  <2>1. SumFunctionOnSet(f, {}) = 0 /\ SumFunctionOnSet(g, {}) = 0
    BY SumOfNothing
  <2>2. SumFunctionOnSet(f, {}) * k <= SumFunctionOnSet(g, {}) * n
    BY <2>1
  <2>3. X # {}
    BY <2>2
  <2> QED BY <2>3, FS_Subset
<1> DEFINE p == Pick(X)
           R == X \ {p}
           a == SumFunctionOnSet(f, R)
           b == SumFunctionOnSet(g, R)
<1>3. p \in X
  BY <1>2, PickIn
<1>4. a * k <= b * n
  BY <1>1, <1>3
<1>5. f[p] \in Int /\ g[p] \in Int /\ f[p] * k <= g[p] * n
  BY <1>3
<1>6. IsFiniteSet(R) /\ R \subseteq S
  BY <1>2, FS_RemoveElement
<1>7. a \in Int /\ b \in Int
  BY <1>6, SumType
<1>8. SumFunctionOnSet(f, X) = f[p] + a /\ SumFunctionOnSet(g, X) = g[p] + b
  BY <1>2, SumWithPick
<1>9. ~((f[p] + a) * k <= (g[p] + b) * n)
  BY <1>1, <1>8
<1> DEFINE u == f[p]
           v == g[p]
<1>10. /\ u \in Int /\ v \in Int /\ a \in Int /\ b \in Int /\ u * k <= v * n /\ a * k <= b * n
       /\ ~((u + a) * k <= (v + b) * n)
  BY <1>4, <1>5, <1>7, <1>9
<1> HIDE DEF u, v, a, b
<1>11. /\ (u + a) * k = u * k + a * k /\ (v + b) * n = v * n + b * n
       /\ u * k \in Int /\ a * k \in Int /\ v * n \in Int /\ b * n \in Int
  BY <1>10
<1> QED BY <1>10, <1>11

-----------------------------------------------------------------------------

\* Induction up to n.
LEMMA UpTo ==
  ASSUME NEW n \in Nat, NEW T, 0 \in T, \A i \in 0 .. n - 1 : i \in T => i + 1 \in T
  PROVE  \A i \in 0 .. n : i \in T
<1> DEFINE D == {i \in 0 .. n : i \notin T}
           I == {0 .. i : i \in D}
<1> SUFFICES ASSUME D # {} PROVE FALSE
  OBVIOUS
<1>1. IsFiniteSet(0 .. n)
  BY FS_Interval
<1>2. I \subseteq SUBSET (0 .. n) /\ I # {}
  OBVIOUS
<1>3. PICK X \in I : \A Y \in I : Y \subseteq X => Y = X
  <2> DEFINE S == 0 .. n
  <2>1. IsFiniteSet(S) /\ I \subseteq SUBSET S /\ I # {}
    BY <1>1, <1>2
  <2> HIDE DEF I, S
  <2> QED BY <2>1, SmallestSubset
<1>4. PICK m \in D : X = 0 .. m
  BY <1>3
<1>5. m # 0 /\ m - 1 \in 0 .. n - 1 /\ (m - 1) + 1 = m /\ m \notin T /\ m \in 0 .. n
  OBVIOUS
<1>6. m - 1 \in T
  <2> SUFFICES ASSUME m - 1 \in D PROVE FALSE
    BY <1>5
  <2>1. 0 .. m - 1 \in I
    OBVIOUS
  <2>2. 0 .. m - 1 \subseteq 0 .. m
    BY <1>5
  <2>3. m \in 0 .. m /\ m \notin 0 .. m - 1
    BY <1>5
  <2> HIDE DEF I
  <2>4. 0 .. m - 1 = 0 .. m
    BY <2>1, <2>2, <1>3, <1>4
  <2> QED BY <2>3, <2>4
<1> QED BY <1>5, <1>6

\* A recursive function on 0 .. n is defined if each value is calculated from the one before.
RecursiveUpTo(f, n, V, base, step) ==
  /\ f \in [0 .. n -> V]
  /\ f[0] = base
  /\ \A i \in 1 .. n : f[i] = step[i][f[i - 1]]

LEMMA RecursionUpTo ==
  ASSUME NEW n \in Nat, NEW V, NEW base \in V, NEW step \in [1 .. n -> [V -> V]]
  PROVE  \E f : RecursiveUpTo(f, n, V, base, step)
<1> DEFINE T == {k \in 0 .. n : \E f : RecursiveUpTo(f, k, V, base, step)}
<1>1. 0 \in T
  <2> DEFINE g == [i \in 0 .. 0 |-> base]
  <2>1. g \in [0 .. 0 -> V] /\ g[0] = base /\ 1 .. 0 = {}
    OBVIOUS
  <2> HIDE DEF g
  <2> QED BY <2>1 DEF RecursiveUpTo
<1>2. ASSUME NEW k \in 0 .. n - 1, k \in T
      PROVE  k + 1 \in T
  <2>1. PICK f : RecursiveUpTo(f, k, V, base, step)
    BY <1>2
  <2> USE <2>1 DEF RecursiveUpTo
  <2> DEFINE g == [i \in 0 .. k + 1 |-> IF i = k + 1 THEN step[k + 1][f[k]] ELSE f[i]]
  <2>2. k + 1 \in 1 .. n /\ f[k] \in V /\ k \in Nat
    OBVIOUS
  <2>3. step[k + 1][f[k]] \in V
    BY <2>2
  <2>4. g \in [0 .. k + 1 -> V]
    BY <2>2, <2>3
  <2>5. g[0] = base
    BY <2>1, <2>2
  <2>6. ASSUME NEW i \in 1 .. k + 1
        PROVE  g[i] = step[i][g[i - 1]]
    <3>1. g[i - 1] = f[i - 1]
      BY <2>2
    <3>2. CASE i = k + 1
      BY <3>1, <3>2, <2>2
    <3>3. CASE i # k + 1
      <4>1. i \in 1 .. k /\ g[i] = f[i]
        BY <3>3, <2>2
      <4> QED BY <4>1, <3>1, <2>1
    <3> QED BY <3>2, <3>3
  <2> HIDE DEF g
  <2>7. k + 1 \in 0 .. n
    BY <2>2
  <2> QED BY <2>4, <2>5, <2>6, <2>7
<1> HIDE DEF T
<1>3. \A k \in 0 .. n : k \in T
  BY <1>1, <1>2, UpTo
<1> QED BY <1>3 DEF T

\* Filter, position by position.
FiltersUpTo(f, s, A, S) ==
  /\ f \in [0 .. Len(s) -> Seq(S)] /\ f[0] = <<>>
  /\ \A i \in 1 .. Len(s) : f[i] = IF s[i] \in A THEN Append(f[i - 1], s[i]) ELSE f[i - 1]

LEMMA FilterUpTo ==
  ASSUME NEW S, NEW s \in Seq(S), NEW A
  PROVE  \E f : FiltersUpTo(f, s, A, S) /\ Filter(s, A) = f[Len(s)]
<1> DEFINE upTo(f) == f = [i \in 0 .. Len(s) |-> IF i = 0 THEN <<>>
                                   ELSE IF s[i] \in A THEN Append(f[i - 1], s[i])
                                   ELSE f[i - 1]]
           step == [i \in 1 .. Len(s) |-> [r \in Seq(S) |->
                                           IF s[i] \in A THEN Append(r, s[i]) ELSE r]]
<1>0. Len(s) \in Nat /\ 0 \in 0 .. Len(s) /\ \A i \in 1 .. Len(s) : s[i] \in S
  OBVIOUS
<1>1. \A i \in 1 .. Len(s) : i \in 0 .. Len(s) /\ i # 0 /\ i - 1 \in 0 .. Len(s)
  BY <1>0
<1>2. step \in [1 .. Len(s) -> [Seq(S) -> Seq(S)]]
  BY <1>0
<1>3. <<>> \in Seq(S)
  OBVIOUS
<1>4. PICK g : RecursiveUpTo(g, Len(s), Seq(S), <<>>, step)
  <2> HIDE DEF step
  <2> QED BY <1>0, <1>2, <1>3, RecursionUpTo
<1>5. \A i \in 1 .. Len(s) : g[i] = IF s[i] \in A THEN Append(g[i - 1], s[i]) ELSE g[i - 1]
  BY <1>4, <1>1 DEF RecursiveUpTo
<1>6. upTo(g)
  <2> HIDE DEF step
  <2>1. \A i \in 0 .. Len(s) : i # 0 => i \in 1 .. Len(s)
    BY <1>0
  <2> QED BY <1>4, <1>5, <2>1 DEF RecursiveUpTo
<1> DEFINE f == CHOOSE h : upTo(h)
<1>7. upTo(f)
  BY <1>6
<1>8. Filter(s, A) = f[Len(s)]
  BY DEF Filter
<1> HIDE DEF f, step
<1>9. /\ f[0] = <<>>
      /\ \A i \in 1 .. Len(s) : f[i] = IF s[i] \in A THEN Append(f[i - 1], s[i]) ELSE f[i - 1]
  BY <1>7, <1>0, <1>1
<1>10. f \in [0 .. Len(s) -> Seq(S)]
  <2> DEFINE T == {i \in 0 .. Len(s) : f[i] \in Seq(S)}
  <2>1. 0 \in T
    BY <1>9, <1>0, <1>3
  <2>2. ASSUME NEW i \in 0 .. Len(s) - 1, i \in T
        PROVE  i + 1 \in T
    <3>1. i + 1 \in 1 .. Len(s) /\ (i + 1) - 1 = i /\ i + 1 \in 0 .. Len(s)
      BY <1>0
    <3>2. f[i] \in Seq(S)
      BY <2>2
    <3>3. f[i + 1] = IF s[i + 1] \in A THEN Append(f[i], s[i + 1]) ELSE f[i]
      BY <3>1, <1>9
    <3>4. s[i + 1] \in S
      BY <3>1, <1>0
    <3>5. f[i + 1] \in Seq(S)
      BY <3>2, <3>3, <3>4
    <3> QED BY <3>1, <3>5
  <2> HIDE DEF T
  <2>3. \A i \in 0 .. Len(s) : i \in T
    BY <2>1, <2>2, <1>0, UpTo
  <2>4. \A i \in 0 .. Len(s) : f[i] \in Seq(S)
    BY <2>3 DEF T
  <2> QED BY <2>4, <1>7
<1> QED BY <1>8, <1>9, <1>10 DEF FiltersUpTo

LEMMA FilterType ==
  ASSUME NEW S, NEW s \in Seq(S), NEW A
  PROVE  Filter(s, A) \in Seq(S)
<1>1. PICK f : FiltersUpTo(f, s, A, S) /\ Filter(s, A) = f[Len(s)]
  BY FilterUpTo
<1>2. Len(s) \in 0 .. Len(s)
  OBVIOUS
<1> QED BY <1>1, <1>2 DEF FiltersUpTo

\* A list comprehension keeps the elements that are in A, and none of them twice.
LEMMA FilterProperties ==
  ASSUME NEW S, NEW s \in Seq(S), IsInjective(s), NEW A
  PROVE  /\ Filter(s, A) \in Seq(S) /\ IsInjective(Filter(s, A))
         /\ ToSet(Filter(s, A)) = ToSet(s) \cap A
         /\ Len(Filter(s, A)) <= Len(s)
<1>1. PICK f : FiltersUpTo(f, s, A, S) /\ Filter(s, A) = f[Len(s)]
  BY FilterUpTo
<1> USE DEF FiltersUpTo
<1> DEFINE Of(i) == {s[j] : j \in 1 .. i} \cap A
           T == {i \in 0 .. Len(s) : IsInjective(f[i]) /\ ToSet(f[i]) = Of(i) /\ Len(f[i]) <= i}
<1>0. Len(s) \in Nat /\ DOMAIN s = 1 .. Len(s)
  OBVIOUS
<1>2. 0 \in T
  <2>1. Of(0) = {} /\ ToSet(<<>>) = {} /\ IsInjective(<<>>) /\ Len(<<>>) = 0
    BY DEF ToSet, IsInjective
  <2> QED BY <2>1, <1>1, <1>0
<1>3. ASSUME NEW i \in 0 .. Len(s) - 1, i \in T
      PROVE  i + 1 \in T
  <2> DEFINE k == i + 1
  <2>1. k \in 1 .. Len(s) /\ k - 1 = i /\ s[k] \in S /\ f[i] \in Seq(S) /\ i \in 0 .. Len(s)
    BY <1>1, <1>0
  <2>2. 1 .. k = (1 .. i) \cup {k}
    BY <2>1
  <2>3. f[k] = IF s[k] \in A THEN Append(f[i], s[k]) ELSE f[i]
    BY <2>1, <1>1
  <2>4. IsInjective(f[i]) /\ ToSet(f[i]) = Of(i) /\ Len(f[i]) \in Nat /\ Len(f[i]) <= i
    BY <1>3, <2>1
  <2>5. s[k] \notin Of(i)
    BY <2>1, <1>0 DEF IsInjective
  <2>6. CASE s[k] \in A
    <3>1. Of(k) = Of(i) \cup {s[k]}
      BY <2>2, <2>6
    <3> HIDE DEF Of, k
    <3>2. /\ IsInjective(Append(f[i], s[k])) /\ Len(Append(f[i], s[k])) = Len(f[i]) + 1
          /\ ToSet(Append(f[i], s[k])) = ToSet(f[i]) \cup {s[k]}
      BY <2>1, <2>4, <2>5, AppendToInjective
    <3>3. f[k] = Append(f[i], s[k])
      BY <2>3, <2>6
    <3>4. IsInjective(f[k]) /\ ToSet(f[k]) = Of(k)
      BY <3>1, <3>2, <3>3, <2>4
    <3>5. Len(f[k]) <= k
      <4>1. Len(f[k]) = Len(f[i]) + 1
        BY <3>2, <3>3
      <4> QED BY <4>1, <2>4, <2>1 DEF k
    <3> QED BY <3>4, <3>5, <2>1 DEF k
  <2>7. CASE s[k] \notin A
    <3>1. Of(k) = Of(i)
      BY <2>2, <2>7
    <3>2. f[k] = f[i] /\ i <= k
      BY <2>3, <2>7, <2>1
    <3> HIDE DEF Of, k
    <3>3. IsInjective(f[k]) /\ ToSet(f[k]) = Of(k)
      BY <3>1, <3>2, <2>4
    <3>4. Len(f[k]) <= k
      BY <3>2, <2>4, <2>1
    <3> QED BY <3>3, <3>4, <2>1 DEF k
  <2> QED BY <2>6, <2>7
<1> HIDE DEF T
<1>4. \A i \in 0 .. Len(s) : i \in T
  BY <1>2, <1>3, <1>0, UpTo
<1>5. Len(s) \in T
  BY <1>4, <1>0
<1>6. Of(Len(s)) = ToSet(s) \cap A
  BY <1>0 DEF ToSet
<1> QED BY <1>1, <1>5, <1>6, <1>0 DEF T

LEMMA ElementsFinite ==
  ASSUME NEW S, NEW s \in Seq(S)
  PROVE  IsFiniteSet(ToSet(s))
<1>1. Len(s) \in Nat /\ s \in Surjection(1 .. Len(s), ToSet(s))
  BY DEF ToSet, Surjection
<1>2. ExistsSurjection(1 .. Len(s), ToSet(s))
  BY <1>1 DEF ExistsSurjection
<1> QED BY <1>1, <1>2, FS_NatSurjection

\* The length of a list without duplicates is the number of its elements.
LEMMA LengthOfInjective ==
  ASSUME NEW S, NEW s \in Seq(S), IsInjective(s)
  PROVE  IsFiniteSet(ToSet(s)) /\ Cardinality(ToSet(s)) = Len(s)
<1>1. Len(s) \in Nat /\ s \in Bijection(1 .. Len(s), ToSet(s))
  <2>1. s \in [1 .. Len(s) -> ToSet(s)] /\ Len(s) \in Nat
    BY DEF ToSet
  <2> QED BY <2>1 DEF Bijection, Injection, Surjection, IsInjective, ToSet
<1>2. ExistsBijection(1 .. Len(s), ToSet(s))
  BY <1>1 DEF ExistsBijection
<1> QED BY <1>1, <1>2, FS_CountingElements, FS_NatBijection

-----------------------------------------------------------------------------

\* int(a / n) of Python is the greatest integer k with k * n <= a.
LEMMA Division ==
  ASSUME NEW a \in Nat, NEW n \in Nat \ {0}
  PROVE  a \div n \in Nat /\ (a \div n) * n <= a /\ a < (a \div n) * n + n
OBVIOUS

LEMMA DivisionIsGreatest ==
  ASSUME NEW a \in Nat, NEW n \in Nat \ {0}, NEW k \in Int, k * n <= a
  PROVE  k <= a \div n
<1> DEFINE q == a \div n
<1>1. q \in Nat /\ q * n <= a /\ a < q * n + n
  BY Division
<1> HIDE DEF q
<1>2. k * n < (q + 1) * n
  BY <1>1
<1>3. k < q + 1
  BY <1>1, <1>2
<1> QED BY <1>1, <1>3

\* A second that the bandwidth divides gives every number of bytes an exact time.
LEMMA ExactDivision ==
  ASSUME NEW second \in Nat \ {0}, NEW bw \in Nat \ {0}, second % bw = 0, NEW out \in Nat
  PROVE  /\ (out * second) \div bw \in Nat
         /\ bw * ((out * second) \div bw) = out * second
         /\ (out * second) \div bw = 0 => out = 0
<1> DEFINE k == second \div bw
           a == out * second
           n == out * k
           q == a \div bw
<1>1. k \in Nat /\ second = bw * k
  OBVIOUS
<1> HIDE DEF k
<1>2. a \in Nat /\ n \in Nat /\ n * bw = a
  BY <1>1
<1>3. out # 0 => a >= second
  OBVIOUS
<1> HIDE DEF a, n
<1>4. q \in Nat /\ q * bw <= a /\ n <= q
  BY <1>2, Division, DivisionIsGreatest
<1> HIDE DEF q
<1>5. q = n
  <2> SUFFICES ASSUME q > n PROVE FALSE
    BY <1>2, <1>4
  <2>1. q >= n + 1
    BY <1>2, <1>4
  <2>2. q * bw >= (n + 1) * bw
    BY <1>2, <1>4, <2>1
  <2>3. (n + 1) * bw = a + bw
    BY <1>2
  <2>4. q * bw \in Nat
    BY <1>4
  <2> QED BY <1>2, <1>4, <2>2, <2>3, <2>4
<1>6. bw * q = a
  BY <1>2, <1>5
<1>7. q = 0 => out = 0
  BY <1>3, <1>6
<1> QED BY <1>4, <1>6, <1>7 DEF q, a

-----------------------------------------------------------------------------
(* The shares of an interface: they fit into the bandwidth, turn by turn of the while loop *)

\* The recursive functions of the loops are defined.
MovesUpTo(f, bwb, share, desired) ==
  /\ f \in [0 .. Len(bwb) -> BOOLEAN] /\ f[0] = FALSE
  /\ \A i \in 1 .. Len(bwb) : f[i] = (desired[bwb[i]] <= share /\ ~f[i - 1])

LEMMA MovedUpTo ==
  ASSUME NEW S, NEW bwb \in Seq(S), NEW share, NEW desired
  PROVE  \E f : /\ MovesUpTo(f, bwb, share, desired)
                /\ Moved(bwb, share, desired) = {bwb[i] : i \in {j \in 1 .. Len(bwb) : f[j]}}
<1> DEFINE Low(i) == desired[bwb[i]] <= share
           moves(f) == f = [i \in 0 .. Len(bwb) |-> i > 0 /\ desired[bwb[i]] <= share /\ ~f[i - 1]]
           step == [i \in 1 .. Len(bwb) |-> [b \in BOOLEAN |-> Low(i) /\ ~b]]
<1>1. Len(bwb) \in Nat /\ DOMAIN bwb = 1 .. Len(bwb)
  OBVIOUS
<1>2. step \in [1 .. Len(bwb) -> [BOOLEAN -> BOOLEAN]]
  OBVIOUS
<1>3. PICK g : RecursiveUpTo(g, Len(bwb), BOOLEAN, FALSE, step)
  <2> HIDE DEF step
  <2>1. FALSE \in BOOLEAN
    OBVIOUS
  <2> QED BY <1>1, <1>2, <2>1, RecursionUpTo
<1>4. /\ g \in [0 .. Len(bwb) -> BOOLEAN] /\ g[0] = FALSE
      /\ \A i \in 1 .. Len(bwb) : g[i] = (Low(i) /\ ~g[i - 1])
  <2>1. \A i \in 1 .. Len(bwb) : g[i] = step[i][g[i - 1]]
    BY <1>3 DEF RecursiveUpTo
  <2>2. \A i \in 1 .. Len(bwb) : g[i - 1] \in BOOLEAN
    BY <1>1, <1>3 DEF RecursiveUpTo
  <2> QED BY <2>1, <2>2, <1>3 DEF RecursiveUpTo
<1>5. moves(g)
  <2>1. ASSUME NEW i \in 0 .. Len(bwb)
        PROVE  g[i] = (i > 0 /\ Low(i) /\ ~g[i - 1])
    <3>1. CASE i = 0
      BY <1>4, <3>1
    <3>2. CASE i # 0
      <4>1. i \in 1 .. Len(bwb) /\ i > 0
        BY <3>2, <1>1
      <4> QED BY <4>1, <1>4
    <3> QED BY <3>1, <3>2
  <2> QED BY <2>1, <1>4
<1> DEFINE f == CHOOSE h : moves(h)
<1>6. moves(f)
  BY <1>5
<1>7. Moved(bwb, share, desired) = {bwb[i] : i \in {j \in DOMAIN bwb : f[j]}}
  BY DEF Moved
<1> HIDE DEF f
<1>8. MovesUpTo(f, bwb, share, desired)
  <2>1. ASSUME NEW i \in 0 .. Len(bwb)
        PROVE  f[i] = (i > 0 /\ Low(i) /\ ~f[i - 1])
    BY <1>6
  <2>2. f \in [0 .. Len(bwb) -> BOOLEAN]
    BY <1>6
  <2>3. f[0] = FALSE
    <3>1. 0 \in 0 .. Len(bwb) /\ (0 > 0) = FALSE
      BY <1>1
    <3>2. f[0] = (0 > 0 /\ Low(0) /\ ~f[0 - 1])
      BY <3>1, <2>1
    <3> HIDE DEF Low
    <3> QED BY <3>1, <3>2
  <2>4. ASSUME NEW i \in 1 .. Len(bwb)
        PROVE  f[i] = (Low(i) /\ ~f[i - 1])
    <3>1. i \in 0 .. Len(bwb) /\ i > 0
      BY <1>1
    <3> QED BY <3>1, <2>1
  <2> QED BY <2>2, <2>3, <2>4 DEF MovesUpTo
<1> QED BY <1>1, <1>7, <1>8

\* Only connections that are satisfied by the share are moved.
LEMMA MovedAreSatisfied ==
  ASSUME NEW S, NEW bwb \in Seq(S), NEW share, NEW desired
  PROVE  /\ Moved(bwb, share, desired) \subseteq ToSet(bwb)
         /\ IsFiniteSet(Moved(bwb, share, desired))
         /\ \A c \in Moved(bwb, share, desired) : desired[c] <= share
<1> DEFINE M == Moved(bwb, share, desired)
<1>1. PICK f : /\ MovesUpTo(f, bwb, share, desired)
               /\ M = {bwb[i] : i \in {j \in 1 .. Len(bwb) : f[j]}}
  BY MovedUpTo
<1>2. M \subseteq ToSet(bwb) /\ \A c \in M : desired[c] <= share
  <2> SUFFICES ASSUME NEW c \in M PROVE c \in ToSet(bwb) /\ desired[c] <= share
    OBVIOUS
  <2>1. PICK i \in 1 .. Len(bwb) : f[i] /\ c = bwb[i]
    BY <1>1
  <2>2. desired[bwb[i]] <= share
    BY <1>1, <2>1 DEF MovesUpTo
  <2>3. c \in ToSet(bwb)
    BY <2>1, ElementsOfList
  <2> QED BY <2>1, <2>2, <2>3
<1>3. IsFiniteSet(M)
  BY <1>2, ElementsFinite, FS_Subset
<1> QED BY <1>2, <1>3

Inputs(C, connections, desired, bandwidth) ==
  /\ connections \in Seq(C) /\ IsInjective(connections)
  /\ desired \in [C -> Nat] /\ bandwidth \in Nat

\* A turn of the while loop, if it is not the end.
TurnsTo(loop, next, desired, bandwidth) ==
  LET share == EqualPart(loop, bandwidth)
      moved == Moved(loop.bwb, share, desired)
  IN  /\ loop.bwb = <<>> \/ loop.share = share => next = loop
      /\ loop.bwb # <<>> /\ loop.share # share =>
           /\ next.bwb = Filter(loop.bwb, ToSet(loop.bwb) \ moved)
           /\ next.lowSum = loop.lowSum + Sum(desired, moved)
           /\ next.share = share

LEMMA TurnProperties ==
  ASSUME NEW C, NEW desired \in [C -> Nat], NEW bandwidth \in Nat, NEW loop \in Loops(C)
  PROVE  /\ LoopTurn(desired, bandwidth)[loop] \in Loops(C)
         /\ TurnsTo(loop, LoopTurn(desired, bandwidth)[loop], desired, bandwidth)
<1> DEFINE next == LoopTurn(desired, bandwidth)[loop]
           share == EqualPart(loop, bandwidth)
           moved == Moved(loop.bwb, share, desired)
<1>1. /\ loop.bwb \in Seq(C) /\ loop.lowSum \in Int /\ loop.share \in Int
      /\ loop = [bwb |-> loop.bwb, lowSum |-> loop.lowSum, share |-> loop.share]
      /\ DOMAIN desired = C
  BY DEF Loops
<1>2. CASE loop.bwb = <<>> \/ loop.share = share
  <2>1. next = loop
    BY <1>1, <1>2 DEF LoopTurn
  <2> QED BY <1>2, <2>1 DEF TurnsTo
<1>3. CASE loop.bwb # <<>> /\ loop.share # share
  <2>1. share \in Int
    <3>1. Len(loop.bwb) \in Nat \ {0}
      BY <1>1, <1>3
    <3> QED BY <1>1, <3>1 DEF EqualPart
  <2> DEFINE start == [loop EXCEPT !.share = share]
  <2>2. /\ start \in Loops(C) /\ start.bwb = loop.bwb /\ start.lowSum = loop.lowSum
        /\ start.share = share
    BY <1>1, <2>1 DEF Loops
  <2>3. next = ForLoop(desired)[start]
    BY <1>1, <1>3 DEF LoopTurn
  <2> HIDE DEF start, next, share
  <2>4. next = [start EXCEPT !.bwb = Filter(@, ToSet(@) \ moved), !.lowSum = @ + Sum(desired, moved)]
    BY <1>1, <2>2, <2>3 DEF ForLoop
  <2>5. /\ next.bwb = Filter(loop.bwb, ToSet(loop.bwb) \ moved)
        /\ next.lowSum = loop.lowSum + Sum(desired, moved)
        /\ next.share = share
        /\ next = [bwb |-> next.bwb, lowSum |-> next.lowSum, share |-> next.share]
    BY <2>2, <2>4 DEF Loops
  <2>6. next.bwb \in Seq(C)
    BY <1>1, <2>5, FilterType
  <2>7. next.lowSum \in Int
    <3>1. IsFiniteSet(moved) /\ moved \subseteq ToSet(loop.bwb)
      BY <1>1, MovedAreSatisfied
    <3>2. \A c \in moved : desired[c] \in Int
      BY <1>1, <3>1, ElementsOfList
    <3>3. Sum(desired, moved) \in Int
      BY <3>1, <3>2, SumType DEF Sum
    <3> QED BY <1>1, <2>5, <3>3
  <2>8. next \in Loops(C)
    BY <2>1, <2>5, <2>6, <2>7 DEF Loops
  <2> QED BY <1>3, <2>5, <2>8 DEF share, next, TurnsTo
<1> QED BY <1>2, <1>3

\* The while loop, turn by turn.
LoopsUpTo(f, C, connections, desired, bandwidth) ==
  /\ f \in [0 .. Len(connections) -> Loops(C)]
  /\ f[0] = Begin(connections, desired)
  /\ \A n \in 1 .. Len(connections) : f[n] = LoopTurn(desired, bandwidth)[f[n - 1]]

LEMMA SharesUpTo ==
  ASSUME NEW C, NEW connections, NEW desired, NEW bandwidth,
         Inputs(C, connections, desired, bandwidth)
  PROVE  \E f : /\ LoopsUpTo(f, C, connections, desired, bandwidth)
                /\ Shares(connections, desired, bandwidth)
                     = [c \in C |-> IF c \notin ToSet(connections) THEN 0
                                    ELSE IF c \in ToSet(f[Len(connections)].bwb)
                                    THEN f[Len(connections)].share ELSE desired[c]]
<1> DEFINE first == Begin(connections, desired)
           turn == LoopTurn(desired, bandwidth)
           k == Len(connections)
           loops(f) == f = [n \in 0 .. k |-> IF n = 0 THEN first ELSE turn[f[n - 1]]]
           step == [n \in 1 .. k |-> [loop \in Loops(C) |-> turn[loop]]]
<1>1. /\ k \in Nat /\ connections \in Seq(C) /\ desired \in [C -> Nat] /\ bandwidth \in Nat
      /\ DOMAIN desired = C
  BY DEF Inputs
<1>2. \A loop \in Loops(C) : turn[loop] \in Loops(C)
  BY <1>1, TurnProperties
<1>3. first \in Loops(C)
  <2>1. first.bwb \in Seq(C)
    BY <1>1, FilterType DEF Begin
  <2>2. first = [bwb |-> first.bwb, lowSum |-> 0, share |-> 0]
    BY DEF Begin
  <2> HIDE DEF first
  <2> QED BY <2>1, <2>2 DEF Loops
<1> HIDE DEF first, turn, k
<1>4. step \in [1 .. k -> [Loops(C) -> Loops(C)]]
  BY <1>2
<1>5. PICK g : RecursiveUpTo(g, k, Loops(C), first, step)
  <2> HIDE DEF step
  <2> QED BY <1>1, <1>3, <1>4, RecursionUpTo
<1>6. /\ g \in [0 .. k -> Loops(C)] /\ g[0] = first
      /\ \A n \in 1 .. k : g[n] = turn[g[n - 1]]
  <2>1. \A n \in 1 .. k : g[n] = step[n][g[n - 1]] /\ g[n - 1] \in Loops(C)
    BY <1>1, <1>5 DEF RecursiveUpTo
  <2> QED BY <2>1, <1>5 DEF RecursiveUpTo
<1>7. loops(g)
  <2>1. \A n \in 0 .. k : n # 0 => n \in 1 .. k
    BY <1>1
  <2> QED BY <2>1, <1>6
<1> DEFINE f == CHOOSE h : loops(h)
<1>8. loops(f)
  BY <1>7
<1>9. Shares(connections, desired, bandwidth)
        = [c \in C |-> IF c \notin ToSet(connections) THEN 0
                       ELSE IF c \in ToSet(f[k].bwb) THEN f[k].share ELSE desired[c]]
  BY <1>1 DEF Shares, first, turn, k
<1> HIDE DEF f
<1>10. f[0] = first /\ \A n \in 1 .. k : f[n] = turn[f[n - 1]]
  <2>1. 0 \in 0 .. k /\ \A n \in 1 .. k : n \in 0 .. k /\ n # 0
    BY <1>1
  <2> QED BY <2>1, <1>8
<1>11. f \in [0 .. k -> Loops(C)]
  <2> DEFINE T == {n \in 0 .. k : f[n] \in Loops(C)}
  <2>1. 0 \in T
    BY <1>1, <1>3, <1>10
  <2>2. ASSUME NEW n \in 0 .. k - 1, n \in T
        PROVE  n + 1 \in T
    <3>1. n + 1 \in 1 .. k /\ (n + 1) - 1 = n /\ n + 1 \in 0 .. k
      BY <1>1
    <3>2. f[n + 1] = turn[f[n]]
      BY <3>1, <1>10
    <3> QED BY <2>2, <3>1, <3>2, <1>2
  <2> HIDE DEF T
  <2>3. \A n \in 0 .. k : n \in T
    BY <1>1, <2>1, <2>2, UpTo
  <2>4. \A n \in 0 .. k : f[n] \in Loops(C)
    BY <2>3 DEF T
  <2> QED BY <2>4, <1>8
<1> QED BY <1>9, <1>10, <1>11 DEF LoopsUpTo, first, turn, k

-----------------------------------------------------------------------------
(* What holds after every turn *)

Demanding(connections, desired) == {c \in ToSet(connections) : desired[c] > 0}

LoopOk(loop, connections, desired, bandwidth) ==
  LET low == Demanding(connections, desired) \ ToSet(loop.bwb)
  IN  /\ IsInjective(loop.bwb) /\ ToSet(loop.bwb) \subseteq Demanding(connections, desired)
      /\ loop.share \in 0 .. bandwidth /\ \A c \in low : desired[c] <= loop.share
      /\ loop.lowSum = Sum(desired, low) /\ loop.lowSum \in Nat
      /\ loop.lowSum + loop.share * Len(loop.bwb) <= bandwidth
      /\ Len(connections) <= bandwidth => loop.lowSum + Len(loop.bwb) <= bandwidth

LEMMA DemandingFinite ==
  ASSUME NEW C, NEW connections, NEW desired, NEW bandwidth,
         Inputs(C, connections, desired, bandwidth)
  PROVE  /\ IsFiniteSet(Demanding(connections, desired))
         /\ Demanding(connections, desired) \subseteq ToSet(connections)
         /\ ToSet(connections) \subseteq C /\ IsFiniteSet(ToSet(connections))
         /\ \A c \in C : desired[c] \in Nat
<1>1. Demanding(connections, desired) \subseteq ToSet(connections)
  BY DEF Demanding
<1>2. IsFiniteSet(ToSet(connections)) /\ ToSet(connections) \subseteq C
  BY ElementsFinite, ElementsOfList DEF Inputs
<1> QED BY <1>1, <1>2, FS_Subset DEF Inputs

LEMMA FirstLoopOk ==
  ASSUME NEW C, NEW connections, NEW desired, NEW bandwidth,
         Inputs(C, connections, desired, bandwidth)
  PROVE  /\ LoopOk(Begin(connections, desired), connections, desired, bandwidth)
         /\ Begin(connections, desired) \in Loops(C)
<1> DEFINE first == Begin(connections, desired)
           A == {c \in DOMAIN desired : desired[c] > 0}
<1>1. /\ first.bwb = Filter(connections, A) /\ first.lowSum = 0 /\ first.share = 0
      /\ first = [bwb |-> first.bwb, lowSum |-> 0, share |-> 0]
  BY DEF Begin
<1>2. connections \in Seq(C) /\ IsInjective(connections) /\ bandwidth \in Nat /\ DOMAIN desired = C
  BY DEF Inputs
<1> HIDE DEF first
<1>3. /\ first.bwb \in Seq(C) /\ IsInjective(first.bwb)
      /\ ToSet(first.bwb) = ToSet(connections) \cap A /\ Len(first.bwb) <= Len(connections)
  <2> HIDE DEF A
  <2> QED BY <1>1, <1>2, FilterProperties
<1>4. ToSet(first.bwb) = Demanding(connections, desired)
  BY <1>2, <1>3, DemandingFinite DEF Demanding
<1>5. Sum(desired, {}) = 0
  BY SumOfNothing DEF Sum
<1>6. Len(first.bwb) \in Nat /\ Len(connections) \in Nat
  BY <1>2, <1>3
<1>7. LoopOk(first, connections, desired, bandwidth)
  <2>1. Demanding(connections, desired) \ ToSet(first.bwb) = {}
    BY <1>4
  <2>2. 0 * Len(first.bwb) = 0 /\ 0 + 0 <= bandwidth /\ 0 \in 0 .. bandwidth
    BY <1>2, <1>6
  <2>3. Len(connections) <= bandwidth => 0 + Len(first.bwb) <= bandwidth
    BY <1>2, <1>3, <1>6
  <2> DEFINE low == Demanding(connections, desired) \ ToSet(first.bwb)
  <2>4. /\ low = {} /\ first.share \in 0 .. bandwidth /\ \A c \in low : desired[c] <= first.share
        /\ first.lowSum \in Nat /\ first.lowSum = Sum(desired, low)
    <3>1. low = {}
      BY <2>1
    <3>2. \A c \in low : desired[c] <= first.share
      BY <3>1
    <3>3. Sum(desired, low) = 0
      BY <1>5, <3>1
    <3> HIDE DEF low
    <3> QED BY <1>1, <1>2, <2>2, <3>1, <3>2, <3>3
  <2>5. first.lowSum + first.share * Len(first.bwb) <= bandwidth
    BY <1>1, <2>2
  <2>6. Len(connections) <= bandwidth => first.lowSum + Len(first.bwb) <= bandwidth
    BY <1>1, <2>3
  <2> HIDE DEF low
  <2>7. IsInjective(first.bwb) /\ ToSet(first.bwb) \subseteq Demanding(connections, desired)
    BY <1>3, <1>4
  <2> QED BY <2>4, <2>5, <2>6, <2>7 DEF LoopOk, low
<1>8. first \in Loops(C)
  BY <1>1, <1>3 DEF Loops
<1> QED BY <1>7, <1>8 DEF first

LEMMA TurnKeepsOk ==
  ASSUME NEW C, NEW connections, NEW desired, NEW bandwidth,
         Inputs(C, connections, desired, bandwidth),
         NEW loop \in Loops(C), LoopOk(loop, connections, desired, bandwidth)
  PROVE  LET next == LoopTurn(desired, bandwidth)[loop]
         IN  /\ LoopOk(next, connections, desired, bandwidth)
             /\ Len(connections) <= bandwidth /\ next.bwb # <<>> => next.share > 0
<1> DEFINE next == LoopTurn(desired, bandwidth)[loop]
           share == EqualPart(loop, bandwidth)
           moved == Moved(loop.bwb, share, desired)
           W == Demanding(connections, desired)
           B == ToSet(loop.bwb)
           n == Len(loop.bwb)
<1>1. /\ connections \in Seq(C) /\ IsInjective(connections) /\ bandwidth \in Nat
      /\ desired \in [C -> Nat] /\ Len(connections) \in Nat
  BY DEF Inputs
<1>2. loop.bwb \in Seq(C) /\ n \in Nat /\ (loop.bwb # <<>> <=> n # 0)
  BY DEF Loops
<1>3. /\ IsInjective(loop.bwb) /\ B \subseteq W
      /\ loop.share \in 0 .. bandwidth /\ \A c \in W \ B : desired[c] <= loop.share
      /\ loop.lowSum = Sum(desired, W \ B) /\ loop.lowSum \in Nat
      /\ loop.lowSum + loop.share * n <= bandwidth
      /\ Len(connections) <= bandwidth => loop.lowSum + n <= bandwidth
  BY DEF LoopOk
<1>4. /\ IsFiniteSet(W) /\ W \subseteq C /\ \A c \in C : desired[c] \in Nat
  BY DemandingFinite
<1>5. /\ (loop.bwb = <<>> \/ loop.share = share) => next = loop
      /\ (loop.bwb # <<>> /\ loop.share # share) =>
            /\ next.bwb = Filter(loop.bwb, B \ moved)
            /\ next.lowSum = loop.lowSum + Sum(desired, moved)
            /\ next.share = share
  <2> HIDE DEF next, share, moved, B
  <2>1. TurnsTo(loop, next, desired, bandwidth)
    BY <1>1, TurnProperties DEF next
  <2> QED BY <2>1 DEF TurnsTo, share, moved, B
<1>6. CASE loop.bwb = <<>>
  BY <1>5, <1>6
\* The equal part of what is left is the greatest that fits.
<1>7. ASSUME loop.bwb # <<>>
      PROVE  /\ share \in 0 .. bandwidth /\ loop.share <= share
             /\ loop.lowSum + share * n <= bandwidth
             /\ Len(connections) <= bandwidth => share > 0
  <2> DEFINE left == bandwidth - loop.lowSum
  <2>1. /\ n \in Nat \ {0} /\ loop.share \in Nat /\ loop.lowSum \in Nat
        /\ loop.share * n \in Int
    BY <1>2, <1>3, <1>7
  <2>2. left \in Nat /\ left <= bandwidth /\ loop.share * n <= left
    <3> DEFINE m == loop.share * n
    <3>1. m \in Nat
      BY <2>1
    <3>2. loop.lowSum + m <= bandwidth
      BY <1>3
    <3> HIDE DEF m
    <3>3. left \in Nat /\ left <= bandwidth /\ m <= left
      BY <1>1, <2>1, <3>1, <3>2
    <3> QED BY <3>3 DEF m
  <2>3. share = left \div n
    BY DEF EqualPart
  <2> HIDE DEF left, n, share
  <2>4. share \in Nat /\ share * n <= left /\ loop.share <= share
    BY <2>1, <2>2, <2>3, Division, DivisionIsGreatest
  <2>5. share <= share * n /\ share * n \in Nat
    BY <2>1, <2>4
  <2>6. share <= bandwidth /\ loop.lowSum + share * n <= bandwidth
    <3> DEFINE m == share * n
    <3>1. m \in Nat /\ m <= left /\ share <= m
      BY <2>4, <2>5
    <3> HIDE DEF m
    <3>2. share <= bandwidth /\ loop.lowSum + m <= bandwidth
      BY <1>1, <2>1, <2>2, <2>4, <3>1 DEF left
    <3> QED BY <3>2 DEF m
  <2>7. Len(connections) <= bandwidth => share > 0
    <3> SUFFICES ASSUME Len(connections) <= bandwidth PROVE share > 0
      OBVIOUS
    <3>1. 1 * n <= left
      BY <1>1, <1>3, <2>1 DEF left
    <3>2. 1 <= left \div n
      BY <2>1, <2>2, <3>1, DivisionIsGreatest
    <3> QED BY <2>3, <2>4, <3>2
  <2> QED BY <1>1, <2>4, <2>6, <2>7
<1>8. CASE loop.bwb # <<>> /\ loop.share = share
  BY <1>5, <1>7, <1>8
<1>9. CASE loop.bwb # <<>> /\ loop.share # share
  <2>1. /\ next.bwb = Filter(loop.bwb, B \ moved)
        /\ next.lowSum = loop.lowSum + Sum(desired, moved)
        /\ next.share = share
    BY <1>5, <1>9
  <2>2. moved \subseteq B /\ IsFiniteSet(moved) /\ \A c \in moved : desired[c] <= share
    BY <1>2, MovedAreSatisfied
  <2>3. /\ share \in 0 .. bandwidth /\ loop.share <= share
        /\ loop.lowSum + share * n <= bandwidth
        /\ Len(connections) <= bandwidth => share > 0
    BY <1>7, <1>9
  <2> HIDE DEF next, share, moved, W, B, n
  <2>4. /\ next.bwb \in Seq(C) /\ IsInjective(next.bwb) /\ ToSet(next.bwb) = B \ moved
    <3>1. B \cap (B \ moved) = B \ moved
      OBVIOUS
    <3> QED BY <1>2, <1>3, <2>1, <3>1, FilterProperties DEF B
  <2>5. W \ ToSet(next.bwb) = (W \ B) \cup moved /\ (W \ B) \cap moved = {}
    BY <1>3, <2>2, <2>4
  <2>6. /\ IsFiniteSet(W \ B) /\ IsFiniteSet(B) /\ Cardinality(B) = n /\ IsFiniteSet(B \ moved)
        /\ Cardinality(B \ moved) = Len(next.bwb) /\ Cardinality(B \ moved) = n - Cardinality(moved)
        /\ Cardinality(moved) \in Nat /\ Len(next.bwb) \in Nat
    <3>1. IsFiniteSet(B) /\ Cardinality(B) = n
      BY <1>2, <1>3, LengthOfInjective DEF B, n
    <3>2. Cardinality(B \ moved) = Len(next.bwb) /\ Len(next.bwb) \in Nat
      <4>1. Cardinality(ToSet(next.bwb)) = Len(next.bwb)
        BY <2>4, LengthOfInjective
      <4>2. Len(next.bwb) \in Nat
        BY <2>4
      <4> QED BY <2>4, <4>1, <4>2
    <3>3. B \cap moved = moved
      BY <2>2
    <3>4. IsFiniteSet(B \ moved) /\ Cardinality(B \ moved) = Cardinality(B) - Cardinality(moved)
      BY <3>1, <3>3, FS_Difference
    <3>5. IsFiniteSet(W \ B) /\ Cardinality(moved) \in Nat
      BY <1>4, <2>2, FS_Difference, FS_CardinalityType
    <3> QED BY <3>1, <3>2, <3>4, <3>5
  <2>7. \A c \in (W \ B) \cup moved : desired[c] \in Nat /\ desired[c] <= share
    <3>1. \A c \in W : desired[c] \in Nat
      BY <1>4
    <3> QED BY <1>1, <1>3, <2>2, <2>3, <3>1
  <2>8. Sum(desired, (W \ B) \cup moved) = Sum(desired, W \ B) + Sum(desired, moved)
    BY <2>2, <2>5, <2>6, <2>7, SumOfUnion DEF Sum
  <2>9. Sum(desired, moved) \in Nat /\ Sum(desired, moved) <= share * Cardinality(moved)
    <3>1. share \in Int
      BY <1>1, <2>3
    <3>2. \A c \in moved : desired[c] \in Nat /\ desired[c] \in Int /\ desired[c] <= share
      BY <2>7
    <3>3. Sum(desired, moved) \in Nat
      BY <2>2, <3>2, SumOfNaturals DEF Sum
    <3>4. Sum(desired, moved) <= share * Cardinality(moved)
      BY <2>2, <3>1, <3>2, SumBound DEF Sum
    <3> QED BY <3>3, <3>4
  <2>10. next.lowSum = Sum(desired, W \ ToSet(next.bwb)) /\ next.lowSum \in Nat
    <3>1. Sum(desired, W \ ToSet(next.bwb)) = Sum(desired, W \ B) + Sum(desired, moved)
      BY <2>5, <2>8
    <3>2. next.lowSum = Sum(desired, W \ B) + Sum(desired, moved)
      BY <1>3, <2>1
    <3>3. loop.lowSum \in Nat /\ Sum(desired, moved) \in Nat
      BY <1>3, <2>9
    <3> QED BY <2>1, <3>1, <3>2, <3>3
  <2>11. next.lowSum + next.share * Len(next.bwb) <= bandwidth
    <3> DEFINE k == Cardinality(moved)
               sum == Sum(desired, moved)
    <3>1. share * (n - k) = share * n - share * k
      BY <1>2, <2>3, <2>6 DEF n
    <3> DEFINE a == share * n
               b == share * k
    <3>2. a \in Int /\ b \in Int /\ sum <= b /\ loop.lowSum + a <= bandwidth
      BY <1>2, <2>3, <2>6, <2>9 DEF n
    <3>3. next.share * Len(next.bwb) = a - b
      BY <2>1, <2>6, <3>1
    <3> HIDE DEF a, b, sum
    <3>4. loop.lowSum + sum + (a - b) <= bandwidth
      BY <3>2, <1>1, <1>3, <2>9 DEF sum
    <3> QED BY <3>3, <3>4, <2>1 DEF sum
  <2>12. Len(connections) <= bandwidth => next.lowSum + Len(next.bwb) <= bandwidth
    <3> SUFFICES ASSUME Len(connections) <= bandwidth PROVE next.lowSum + Len(next.bwb) <= bandwidth
      OBVIOUS
    <3> DEFINE m == share * Len(next.bwb)
    <3>1. m \in Nat /\ Len(next.bwb) <= m
      BY <2>3, <2>6
    <3>2. next.lowSum + m <= bandwidth
      BY <2>1, <2>11
    <3> HIDE DEF m
    <3> QED BY <1>1, <2>6, <2>10, <3>1, <3>2
  <2>13. \A c \in W \ ToSet(next.bwb) : desired[c] <= next.share
    BY <2>1, <2>5, <2>7
  <2>14. ToSet(next.bwb) \subseteq W
    BY <1>3, <2>4
  <2>15. LoopOk(next, connections, desired, bandwidth)
    BY <2>1, <2>3, <2>4, <2>10, <2>11, <2>12, <2>13, <2>14 DEF LoopOk, W
  <2> QED BY <2>1, <2>3, <2>15 DEF next
<1> QED BY <1>6, <1>8, <1>9

LEMMA LoopsOk ==
  ASSUME NEW C, NEW connections, NEW desired, NEW bandwidth,
         Inputs(C, connections, desired, bandwidth),
         NEW f, LoopsUpTo(f, C, connections, desired, bandwidth)
  PROVE  \A n \in 0 .. Len(connections) :
           /\ LoopOk(f[n], connections, desired, bandwidth)
           /\ n > 0 /\ Len(connections) <= bandwidth /\ f[n].bwb # <<>> => f[n].share > 0
<1> DEFINE k == Len(connections)
           Ok(n) == LoopOk(f[n], connections, desired, bandwidth)
           Some(n) == n > 0 /\ k <= bandwidth /\ f[n].bwb # <<>> => f[n].share > 0
           T == {n \in 0 .. k : Ok(n) /\ Some(n)}
<1>1. k \in Nat
  BY DEF Inputs
<1>2. 0 \in T
  <2>1. Ok(0)
    BY FirstLoopOk DEF LoopsUpTo
  <2> QED BY <1>1, <2>1
<1>3. ASSUME NEW n \in 0 .. k - 1, n \in T
      PROVE  n + 1 \in T
  <2>1. n + 1 \in 1 .. k /\ n + 1 \in 0 .. k /\ n \in 0 .. k /\ (n + 1) - 1 = n
    BY <1>1
  <2>2. f[n + 1] = LoopTurn(desired, bandwidth)[f[n]] /\ f[n] \in Loops(C)
    BY <2>1 DEF LoopsUpTo
  <2>3. Ok(n)
    BY <1>3
  <2>4. Ok(n + 1) /\ Some(n + 1)
    BY <2>2, <2>3, TurnKeepsOk
  <2> QED BY <2>1, <2>4
<1> HIDE DEF T
<1>4. \A n \in 0 .. k : n \in T
  BY <1>1, <1>2, <1>3, UpTo
<1> QED BY <1>4 DEF T

(***************************************************************************)
(* What the call promises: no share exceeds the bandwidth, only            *)
(* connections in the list that want some have one, they add up to at most *)
(* the bandwidth, and if there is a unit for every connection then every   *)
(* one that wants some has one.                                            *)
(***************************************************************************)
LEMMA SharesProperties ==
  ASSUME NEW C, NEW connections, NEW desired, NEW bandwidth,
         Inputs(C, connections, desired, bandwidth)
  PROVE  LET shares == Shares(connections, desired, bandwidth)
         IN  /\ shares \in [C -> 0 .. bandwidth]
             /\ \A c \in C : c \notin ToSet(connections) \/ desired[c] = 0 => shares[c] = 0
             /\ Sum(shares, ToSet(connections)) <= bandwidth
             /\ Len(connections) <= bandwidth =>
                  \A c \in ToSet(connections) : desired[c] > 0 => shares[c] > 0
<1> DEFINE shares == Shares(connections, desired, bandwidth)
           k == Len(connections)
           W == Demanding(connections, desired)
<1>1. PICK f : /\ LoopsUpTo(f, C, connections, desired, bandwidth)
               /\ shares = [c \in C |-> IF c \notin ToSet(connections) THEN 0
                                        ELSE IF c \in ToSet(f[k].bwb) THEN f[k].share
                                        ELSE desired[c]]
  BY SharesUpTo
<1> DEFINE end == f[k]
           B == ToSet(end.bwb)
           low == W \ B
<1>2. k \in Nat /\ bandwidth \in Nat /\ connections \in Seq(C)
  BY DEF Inputs
<1>3. /\ IsFiniteSet(W) /\ W \subseteq ToSet(connections) /\ ToSet(connections) \subseteq C
      /\ IsFiniteSet(ToSet(connections)) /\ \A c \in C : desired[c] \in Nat
  BY DemandingFinite
<1>4. /\ LoopOk(end, connections, desired, bandwidth)
      /\ k > 0 /\ k <= bandwidth /\ end.bwb # <<>> => end.share > 0
  BY <1>1, <1>2, LoopsOk
<1>5. end.bwb \in Seq(C) /\ Len(end.bwb) \in Nat
  <2>1. end \in Loops(C)
    BY <1>1, <1>2 DEF LoopsUpTo
  <2> QED BY <2>1 DEF Loops
<1>6. /\ IsInjective(end.bwb) /\ B \subseteq W /\ end.share \in 0 .. bandwidth
      /\ \A c \in low : desired[c] <= end.share
      /\ end.lowSum = Sum(desired, low) /\ end.lowSum \in Nat
      /\ end.lowSum + end.share * Len(end.bwb) <= bandwidth
  BY <1>4 DEF LoopOk
<1>7. \A c \in C : shares[c] = IF c \notin ToSet(connections) THEN 0
                               ELSE IF c \in B THEN end.share ELSE desired[c]
  BY <1>1
<1>8. \A c \in W : desired[c] > 0
  BY DEF Demanding
<1>9. \A c \in ToSet(connections) \ W : desired[c] = 0
  BY <1>3 DEF Demanding
<1> HIDE DEF shares, W, B, end
<1>10. \A c \in C : c \notin ToSet(connections) \/ desired[c] = 0 => shares[c] = 0
  <2> SUFFICES ASSUME NEW c \in C, c \in ToSet(connections), desired[c] = 0 PROVE shares[c] = 0
    BY <1>7
  <2>1. c \notin W
    BY <1>8
  <2> QED BY <1>6, <1>7, <2>1
<1>11. \A c \in C : shares[c] \in 0 .. bandwidth
  <2> SUFFICES ASSUME NEW c \in C PROVE shares[c] \in 0 .. bandwidth
    OBVIOUS
  <2>1. CASE c \notin W
    <3>1. shares[c] = 0
      BY <1>3, <1>7, <1>9, <1>10, <2>1
    <3> QED BY <1>2, <3>1
  <2>2. CASE c \in B
    BY <1>3, <1>6, <1>7, <2>2
  <2>3. CASE c \in low
    <3>1. shares[c] = desired[c]
      BY <1>3, <1>7, <2>3
    <3>2. desired[c] \in Nat /\ desired[c] <= end.share
      BY <1>3, <1>6, <2>3
    <3> QED BY <1>2, <1>6, <3>1, <3>2
  <2> QED BY <2>1, <2>2, <2>3
<1>12. Sum(shares, ToSet(connections)) <= bandwidth
  <2> DEFINE idle == ToSet(connections) \ W
             n == Len(end.bwb)
  <2>1. /\ IsFiniteSet(idle) /\ IsFiniteSet(low) /\ IsFiniteSet(B)
        /\ ToSet(connections) = idle \cup W /\ idle \cap W = {}
        /\ W = low \cup B /\ low \cap B = {}
    BY <1>3, <1>6, FS_Subset
  <2>2. \A c \in C : shares[c] \in Int
    BY <1>2, <1>11
  <2>3. \A c \in idle \cup W : shares[c] \in Int
    BY <1>3, <2>1, <2>2
  <2>4. Sum(shares, idle \cup W) = Sum(shares, idle) + Sum(shares, W)
    <3> HIDE DEF idle
    <3> QED BY <1>3, <2>1, <2>3, SumOfUnion DEF Sum
  <2>5. Sum(shares, low \cup B) = Sum(shares, low) + Sum(shares, B)
    <3> HIDE DEF low
    <3>1. \A c \in low \cup B : shares[c] \in Int
      BY <2>1, <2>3
    <3> QED BY <2>1, <3>1, SumOfUnion DEF Sum
  <2>6. Sum(shares, idle) = 0
    <3>1. \A c \in idle : shares[c] = 0
      BY <1>3, <1>9, <1>10
    <3>2. 0 * Cardinality(idle) = 0
      BY <2>1, FS_CardinalityType
    <3>3. Sum(shares, idle) = 0 * Cardinality(idle)
      <4> HIDE DEF idle
      <4> QED BY <2>1, <3>1, SumOfConstant DEF Sum
    <3> QED BY <3>2, <3>3
  <2>7. Sum(shares, low) = end.lowSum
    <3>1. \A c \in low : shares[c] = desired[c]
      BY <1>3, <1>7
    <3> HIDE DEF low
    <3>2. Sum(shares, low) = Sum(desired, low)
      BY <2>1, <3>1, SumOfEqual DEF Sum
    <3> QED BY <1>6, <3>2
  <2>8. Sum(shares, B) = end.share * n
    <3>1. \A c \in B : shares[c] = end.share
      BY <1>3, <1>6, <1>7
    <3>2. Cardinality(B) = n
      BY <1>5, <1>6, LengthOfInjective DEF B
    <3>3. end.share \in Int
      BY <1>6
    <3>4. Sum(shares, B) = end.share * Cardinality(B)
      BY <2>1, <3>1, <3>3, SumOfConstant DEF Sum
    <3> QED BY <3>2, <3>4
  <2>9. Sum(shares, ToSet(connections)) = 0 + (end.lowSum + end.share * n)
    BY <2>1, <2>4, <2>5, <2>6, <2>7, <2>8
  <2> DEFINE m == end.share * n
  <2>10. m \in Int
    BY <1>5, <1>6
  <2> HIDE DEF m
  <2>11. Sum(shares, ToSet(connections)) = 0 + (end.lowSum + m) /\ end.lowSum + m <= bandwidth
    BY <1>6, <2>9 DEF m
  <2> QED BY <1>2, <1>6, <2>10, <2>11
<1>13. k <= bandwidth => \A c \in ToSet(connections) : desired[c] > 0 => shares[c] > 0
  <2> SUFFICES ASSUME k <= bandwidth, NEW c \in ToSet(connections), desired[c] > 0
               PROVE  shares[c] > 0
    OBVIOUS
  <2>1. CASE c \notin B
    BY <1>3, <1>7, <2>1
  <2>2. CASE c \in B
    <3>1. k # 0 /\ end.bwb # <<>>
      <4>1. ToSet(connections) # {} /\ ToSet(end.bwb) # {}
        BY <2>2 DEF B
      <4> QED BY <4>1, <1>2, <1>5, ElementsOfList
    <3>2. shares[c] = end.share
      BY <1>3, <1>7, <2>2
    <3> QED BY <1>2, <1>4, <3>1, <3>2
  <2> QED BY <2>1, <2>2
<1>14. shares \in [C -> 0 .. bandwidth]
  BY <1>1, <1>11
<1> QED BY <1>10, <1>12, <1>13, <1>14 DEF shares

-----------------------------------------------------------------------------
(* A share is greater than the wish only if the connection was skipped, behind another *)
(* one: the share is then at most half the bandwidth.                                  *)

LEMMA SkippedIsBehind ==
  ASSUME NEW S, NEW bwb \in Seq(S), NEW share, NEW desired,
         NEW c \in ToSet(bwb) \ Moved(bwb, share, desired), desired[c] <= share
  PROVE  Len(bwb) \in Nat /\ Len(bwb) >= 2
<1>1. PICK f : /\ MovesUpTo(f, bwb, share, desired)
               /\ Moved(bwb, share, desired) = {bwb[i] : i \in {j \in 1 .. Len(bwb) : f[j]}}
  BY MovedUpTo
<1>2. PICK i \in 1 .. Len(bwb) : bwb[i] = c
  BY ElementsOfList
<1>3. ~f[i]
  BY <1>1, <1>2
<1>4. f[i] = (desired[c] <= share /\ ~f[i - 1])
  BY <1>1, <1>2 DEF MovesUpTo
<1>5. i # 1
  <2>1. i = 1 => i - 1 = 0
    OBVIOUS
  <2> QED BY <1>1, <1>3, <1>4, <2>1 DEF MovesUpTo
<1> QED BY <1>2, <1>5

SkippedOk(loop, desired, bandwidth) ==
  \A c \in ToSet(loop.bwb) : desired[c] <= loop.share => loop.share + loop.share <= bandwidth

LEMMA TurnSkips ==
  ASSUME NEW C, NEW connections, NEW desired, NEW bandwidth,
         Inputs(C, connections, desired, bandwidth), NEW loop \in Loops(C),
         LoopOk(loop, connections, desired, bandwidth), SkippedOk(loop, desired, bandwidth)
  PROVE  SkippedOk(LoopTurn(desired, bandwidth)[loop], desired, bandwidth)
<1> DEFINE next == LoopTurn(desired, bandwidth)[loop]
           share == EqualPart(loop, bandwidth)
           moved == Moved(loop.bwb, share, desired)
           n == Len(loop.bwb)
<1>1. TurnsTo(loop, next, desired, bandwidth)
  BY TurnProperties DEF Inputs
<1>2. /\ loop.bwb \in Seq(C) /\ IsInjective(loop.bwb) /\ n \in Nat /\ bandwidth \in Nat
      /\ loop.share \in 0 .. bandwidth /\ loop.lowSum \in Nat
      /\ loop.lowSum + loop.share * n <= bandwidth
  BY DEF Loops, LoopOk, Inputs
<1> HIDE DEF next
<1>3. CASE loop.bwb = <<>> \/ loop.share = share
  <2>1. next = loop
    BY <1>1, <1>3 DEF TurnsTo
  <2> QED BY <2>1 DEF next
<1>4. CASE loop.bwb # <<>> /\ loop.share # share
  <2>1. next.bwb = Filter(loop.bwb, ToSet(loop.bwb) \ moved) /\ next.share = share
    BY <1>1, <1>4 DEF TurnsTo
  <2>2. ToSet(next.bwb) = ToSet(loop.bwb) \ moved
    <3> DEFINE A == ToSet(loop.bwb) \ moved
    <3> HIDE DEF A
    <3>1. ToSet(Filter(loop.bwb, A)) = ToSet(loop.bwb) \cap A
      BY <1>2, FilterProperties
    <3> QED BY <2>1, <3>1 DEF A
  <2>3. ASSUME NEW c \in ToSet(next.bwb), desired[c] <= share
        PROVE  share + share <= bandwidth
    <3>1. n >= 2
      <4> HIDE DEF share
      <4> QED BY <1>2, <2>2, <2>3, SkippedIsBehind
    <3> DEFINE left == bandwidth - loop.lowSum
    <3>2. left \in Nat /\ left <= bandwidth
      <4>1. \A a \in Nat : \A b \in Nat : a * b \in Nat
        OBVIOUS
      <4>2. loop.share * n \in Nat
        BY <1>2, <4>1
      <4> QED BY <1>2, <4>2
    <3> HIDE DEF left
    <3>3. share = left \div n
      BY DEF EqualPart, left
    <3> HIDE DEF n, share
    <3>4. share \in Nat /\ share * n <= left
      BY <1>2, <3>1, <3>2, <3>3, Division
    <3>5. \A q \in Nat : \A k \in Nat : k >= 2 => q * k >= q + q
      <4> TAKE q \in Nat
      <4> TAKE k \in Nat
      <4> HAVE k >= 2
      <4>1. q * k = q + q + q * (k - 2) /\ k - 2 \in Nat
        OBVIOUS
      <4>2. \A b \in Nat : q * b \in Nat
        OBVIOUS
      <4> QED BY <4>1, <4>2
    <3>6. share * n >= share + share /\ share * n \in Int
      BY <1>2, <3>1, <3>4, <3>5
    <3>7. bandwidth \in Nat
      BY <1>2
    <3> DEFINE used == share * n
    <3>8. used \in Int /\ used >= share + share /\ used <= left
      BY <3>4, <3>6
    <3> HIDE DEF used
    <3> QED BY <3>2, <3>4, <3>7, <3>8
  <2> QED BY <2>1, <2>3 DEF SkippedOk, next
<1> QED BY <1>3, <1>4

\* No share is greater than both the wish and half the bandwidth.
LEMMA SharesMeetWishes ==
  ASSUME NEW C, NEW connections, NEW desired, NEW bandwidth,
         Inputs(C, connections, desired, bandwidth)
  PROVE  LET shares == Shares(connections, desired, bandwidth)
         IN  \A c \in C : shares[c] <= desired[c] \/ shares[c] + shares[c] <= bandwidth
<1> DEFINE shares == Shares(connections, desired, bandwidth)
           k == Len(connections)
<1>1. PICK f : /\ LoopsUpTo(f, C, connections, desired, bandwidth)
               /\ shares = [c \in C |-> IF c \notin ToSet(connections) THEN 0
                                        ELSE IF c \in ToSet(f[k].bwb) THEN f[k].share
                                        ELSE desired[c]]
  BY SharesUpTo
<1>2. k \in Nat /\ desired \in [C -> Nat] /\ bandwidth \in Nat
  BY DEF Inputs
<1> DEFINE T == {n \in 0 .. k : SkippedOk(f[n], desired, bandwidth)}
<1>3. 0 \in T
  <2>1. LoopOk(f[0], connections, desired, bandwidth) /\ f[0].share = 0
    BY <1>1, FirstLoopOk DEF LoopsUpTo, Begin
  <2>2. \A c \in ToSet(f[0].bwb) : c \in C /\ desired[c] > 0
    BY <2>1, DemandingFinite DEF LoopOk, Demanding
  <2> QED BY <1>2, <2>1, <2>2 DEF SkippedOk
<1>4. ASSUME NEW n \in 0 .. k - 1, n \in T
      PROVE  n + 1 \in T
  <2>1. n + 1 \in 1 .. k /\ n + 1 \in 0 .. k /\ n \in 0 .. k /\ (n + 1) - 1 = n
    BY <1>2
  <2>2. f[n + 1] = LoopTurn(desired, bandwidth)[f[n]] /\ f[n] \in Loops(C)
    BY <1>1, <2>1 DEF LoopsUpTo
  <2>3. LoopOk(f[n], connections, desired, bandwidth)
    BY <1>1, <2>1, LoopsOk
  <2>4. SkippedOk(f[n + 1], desired, bandwidth)
    BY <1>4, <2>2, <2>3, TurnSkips
  <2> QED BY <2>1, <2>4
<1> HIDE DEF T
<1>5. \A n \in 0 .. k : n \in T
  BY <1>2, <1>3, <1>4, UpTo
<1>6. SkippedOk(f[k], desired, bandwidth) /\ f[k].share \in 0 .. bandwidth
  <2>1. k \in 0 .. k
    BY <1>2
  <2> QED BY <1>1, <1>5, <2>1, LoopsOk DEF T, LoopOk
<1> SUFFICES ASSUME NEW c \in C
             PROVE  shares[c] <= desired[c] \/ shares[c] + shares[c] <= bandwidth
  OBVIOUS
<1>7. desired[c] \in Nat
  BY <1>2
<1>8. shares[c] = IF c \notin ToSet(connections) THEN 0
                  ELSE IF c \in ToSet(f[k].bwb) THEN f[k].share ELSE desired[c]
  BY <1>1
<1> HIDE DEF shares
<1>9. CASE c \in ToSet(connections) /\ c \in ToSet(f[k].bwb)
  BY <1>6, <1>7, <1>8, <1>9 DEF SkippedOk
<1>10. CASE ~(c \in ToSet(connections) /\ c \in ToSet(f[k].bwb))
  BY <1>7, <1>8, <1>10
<1> QED BY <1>9, <1>10

=============================================================================
