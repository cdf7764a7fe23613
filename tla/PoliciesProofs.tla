--------------------------- MODULE PoliciesProofs ---------------------------
(***************************************************************************)
(* roundRobin takes its interfaces in turn, and every policy takes the     *)
(* best of what it considers, for any number of interfaces, connections,   *)
(* hosts and predicted times.                                              *)
(***************************************************************************)
EXTENDS Policies, DataLemmas

-----------------------------------------------------------------------------
(* Orders of a finite set *)

LEMMA OrderOfSet ==
  ASSUME NEW S, IsFiniteSet(S), NEW s \in SetToSeqs(S)
  PROVE  s \in Seq(S) /\ IsInjective(s) /\ ToSet(s) = S /\ Len(s) = Cardinality(S)
<1> DEFINE n == Cardinality(S)
<1>1. n \in Nat
  BY FS_CardinalityType
<1>2. s \in [1 .. n -> S] /\ \A i, j \in 1 .. n : i # j => s[i] # s[j]
  BY DEF SetToSeqs
<1> HIDE DEF n
<1>3. s \in Seq(S) /\ Len(s) = n /\ DOMAIN s = 1 .. n
  BY <1>1, <1>2
<1>4. IsInjective(s)
  BY <1>2, <1>3 DEF IsInjective
<1>5. Cardinality(ToSet(s)) = n
  BY <1>3, <1>4, LengthOfInjective
<1>6. ToSet(s) \in SUBSET S
  BY <1>2, <1>3 DEF ToSet
<1>7. ToSet(s) = S
  BY <1>5, <1>6, FS_Subset DEF n
<1> QED BY <1>3, <1>4, <1>7 DEF n

LEMMA OrdersFinite ==
  ASSUME NEW S, IsFiniteSet(S)
  PROVE  IsFiniteSet(SetToSeqs(S))
<1> DEFINE D == 1 .. Cardinality(S)
           graph == [s \in SetToSeqs(S) |-> {<<i, s[i]>> : i \in D}]
<1>1. Cardinality(S) \in Nat /\ IsFiniteSet(D)
  BY FS_CardinalityType, FS_Interval
<1>2. IsFiniteSet(SUBSET (D \X S))
  BY <1>1, FS_Product, FS_SUBSET
<1>3. SetToSeqs(S) \subseteq [D -> S]
  BY DEF SetToSeqs
<1> HIDE DEF D
<1>4. graph \in [SetToSeqs(S) -> SUBSET (D \X S)]
  BY <1>3
<1>5. ASSUME NEW s \in SetToSeqs(S), NEW t \in SetToSeqs(S), graph[s] = graph[t]
      PROVE  s = t
  <2>1. s \in [D -> S] /\ t \in [D -> S]
    BY <1>3
  <2>2. ASSUME NEW i \in D PROVE s[i] = t[i]
    <3>1. <<i, s[i]>> \in graph[t]
      BY <1>5
    <3> QED BY <3>1
  <2> QED BY <2>1, <2>2
<1>6. graph \in Injection(SetToSeqs(S), SUBSET (D \X S))
  BY <1>4, <1>5 DEF Injection, IsInjective
<1> HIDE DEF graph
<1> QED BY <1>2, <1>6, FS_Injection

\* Lists of elements of a finite set.
LEMMA PermutationsFinite ==
  ASSUME NEW S, IsFiniteSet(S)
  PROVE  IsFiniteSet(SetToAllKPermutations(S))
<1> DEFINE All == {SetToSeqs(s) : s \in SUBSET S}
           orders == [s \in SUBSET S |-> SetToSeqs(s)]
<1>1. IsFiniteSet(SUBSET S)
  BY FS_SUBSET
<1>2. orders \in Surjection(SUBSET S, All)
  BY DEF Surjection
<1>3. \A T \in All : IsFiniteSet(T)
  BY FS_Subset, OrdersFinite
<1>4. IsFiniteSet(UNION All)
  <2> HIDE DEF All, orders
  <2>1. IsFiniteSet(All)
    BY <1>1, <1>2, FS_Surjection
  <2> QED BY <2>1, <1>3, FS_UNION
<1> QED BY <1>4 DEF SetToAllKPermutations

LEMMA PermutationsOf ==
  ASSUME NEW S, IsFiniteSet(S), NEW p \in SetToAllKPermutations(S)
  PROVE  p \in Seq(S)
<1>1. PICK s \in SUBSET S : p \in SetToSeqs(s)
  BY DEF SetToAllKPermutations
<1>2. IsFiniteSet(s)
  BY FS_Subset
<1>3. p \in Seq(s)
  BY <1>1, <1>2, OrderOfSet
<1> QED BY <1>3

-----------------------------------------------------------------------------
(* The first of the earliest predictions *)

IsBest(best, time, ways, k) ==
  IF best = Nothing THEN \A n \in 1 .. k : ways[n] = Nothing
  ELSE \E n \in 1 .. k :
         /\ best = ways[n]
         /\ \A m \in 1 .. k : ways[m] # Nothing =>
                                time[best] <= time[ways[m]] /\ (m < n => time[best] < time[ways[m]])

LEMMA BestProperties ==
  ASSUME NEW W, Nothing \notin W, NEW time \in [W -> Nat], NEW ways \in Seq(W \cup {Nothing})
  PROVE  Best(time, ways) \in W \cup {Nothing} /\ IsBest(Best(time, ways), time, ways, Len(ways))
<1> DEFINE V == W \cup {Nothing}
           Better(way, best) == way # Nothing /\ (best = Nothing \/ time[way] < time[best])
           is(f) == f = [n \in 0 .. Len(ways) |->
                           IF n = 0 THEN Nothing
                           ELSE IF ways[n] # Nothing /\ (f[n - 1] = Nothing \/ time[ways[n]] < time[f[n - 1]])
                                THEN ways[n] ELSE f[n - 1]]
           step == [n \in 1 .. Len(ways) |-> [best \in V |-> IF Better(ways[n], best) THEN ways[n] ELSE best]]
<1>0. Len(ways) \in Nat /\ 0 \in 0 .. Len(ways) /\ \A n \in 1 .. Len(ways) : ways[n] \in V
  OBVIOUS
<1>1. \A n \in 1 .. Len(ways) : n \in 0 .. Len(ways) /\ n # 0 /\ n - 1 \in 0 .. Len(ways)
  BY <1>0
<1>2. step \in [1 .. Len(ways) -> [V -> V]] /\ Nothing \in V
  BY <1>0
<1>3. PICK g : RecursiveUpTo(g, Len(ways), V, Nothing, step)
  <2> HIDE DEF step, V
  <2> QED BY <1>0, <1>2, RecursionUpTo
<1>4. /\ g \in [0 .. Len(ways) -> V] /\ g[0] = Nothing
      /\ \A n \in 1 .. Len(ways) : g[n] = IF Better(ways[n], g[n - 1]) THEN ways[n] ELSE g[n - 1]
  BY <1>3, <1>1 DEF RecursiveUpTo
<1> HIDE DEF step
<1>5. is(g)
  <2>1. \A n \in 0 .. Len(ways) : n # 0 => n \in 1 .. Len(ways)
    BY <1>0
  <2> QED BY <1>4, <2>1
<1> DEFINE f == CHOOSE h : is(h)
<1>6. is(f)
  BY <1>5
<1>7. Best(time, ways) = f[Len(ways)]
  BY DEF Best
<1> HIDE DEF f
<1>8. /\ f[0] = Nothing
      /\ \A n \in 1 .. Len(ways) : f[n] = IF Better(ways[n], f[n - 1]) THEN ways[n] ELSE f[n - 1]
  BY <1>6, <1>0, <1>1
<1> DEFINE T == {n \in 0 .. Len(ways) : f[n] \in V /\ IsBest(f[n], time, ways, n)}
<1>9. 0 \in T
  BY <1>0, <1>8 DEF IsBest
<1>10. ASSUME NEW i \in 0 .. Len(ways) - 1, i \in T
       PROVE  i + 1 \in T
  <2> DEFINE k == i + 1
  <2>1. k \in 1 .. Len(ways) /\ k - 1 = i /\ ways[k] \in V /\ f[i] \in V /\ i \in Nat /\ k \in Nat
    BY <1>10, <1>0
  <2>2. f[k] = IF Better(ways[k], f[i]) THEN ways[k] ELSE f[i]
    BY <2>1, <1>8
  <2>3. \A n \in 1 .. i : n \in 1 .. k /\ n < k /\ ways[n] \in V
    BY <1>0, <2>1
  <2>4. \A n \in 1 .. k : n = k \/ n \in 1 .. i
    BY <2>1
  <2>5. k \in 1 .. k /\ ~(k < k)
    BY <2>1
  <2>6. IsBest(f[i], time, ways, i)
    BY <1>10
  <2> HIDE DEF k
  <2>7. \A way \in V : way # Nothing => time[way] \in Nat
    OBVIOUS
  <2>8. IsBest(f[k], time, ways, k)
    <3>1. CASE ~Better(ways[k], f[i]) /\ f[i] = Nothing
      BY <2>2, <2>4, <2>6, <3>1 DEF IsBest
    <3>2. CASE ~Better(ways[k], f[i]) /\ f[i] # Nothing
      <4>1. f[k] = f[i]
        BY <2>2, <3>2
      <4>2. PICK n \in 1 .. i :
               /\ f[i] = ways[n]
               /\ \A m \in 1 .. i : ways[m] # Nothing =>
                     time[f[i]] <= time[ways[m]] /\ (m < n => time[f[i]] < time[ways[m]])
        BY <2>6, <3>2 DEF IsBest
      <4>3. n \in 1 .. k /\ n < k /\ n \in Nat
        BY <2>3
      <4>4. ways[k] # Nothing => time[f[i]] <= time[ways[k]]
        BY <2>1, <2>7, <3>2
      <4>5. ~(k < n)
        BY <4>3, <2>1
      <4> QED BY <4>1, <4>2, <4>3, <4>4, <4>5, <2>4, <3>2 DEF IsBest
    <3>3. CASE Better(ways[k], f[i])
      <4>1. f[k] = ways[k] /\ ways[k] # Nothing
        BY <2>2, <3>3
      <4>2. \A m \in 1 .. i : ways[m] # Nothing => time[ways[k]] < time[ways[m]]
        <5>1. CASE f[i] = Nothing
          BY <2>6, <5>1 DEF IsBest
        <5>2. CASE f[i] # Nothing
          <6>1. \A m \in 1 .. i : ways[m] # Nothing => time[f[i]] <= time[ways[m]]
            BY <2>6, <5>2 DEF IsBest
          <6>2. time[ways[k]] < time[f[i]]
            BY <3>3, <5>2
          <6> QED BY <6>1, <6>2, <5>2, <4>1, <2>1, <2>3, <2>7
        <5> QED BY <5>1, <5>2
      <4>3. \A m \in 1 .. i : ways[m] # Nothing => time[ways[k]] <= time[ways[m]]
        BY <4>1, <4>2, <2>1, <2>3, <2>7
      <4>4. time[ways[k]] <= time[ways[k]]
        BY <4>1, <2>1, <2>7
      <4> QED BY <4>1, <4>2, <4>3, <4>4, <2>4, <2>5 DEF IsBest
    <3> QED BY <3>1, <3>2, <3>3
  <2>9. f[k] \in V /\ k \in 0 .. Len(ways)
    BY <2>1, <2>2, <1>1
  <2> QED BY <2>8, <2>9 DEF k
<1> HIDE DEF T
<1>11. \A i \in 0 .. Len(ways) : i \in T
  BY <1>9, <1>10, <1>0, UpTo
<1>12. Len(ways) \in T
  BY <1>11, <1>0
<1> QED BY <1>7, <1>12 DEF T

-----------------------------------------------------------------------------
(* The inductive invariant *)

TypeOK ==
  /\ policy \in SingleInterface \cup Mptcp
  /\ interfaces \in Seq(1 .. NumInterfaces)
  /\ nextInterfaceId \in 1 .. Len(interfaces)
  /\ connections \in Seq(Conns)
  /\ connInterfaces \in [Conns -> Seq(1 .. NumInterfaces)]
  /\ host \in [Conns -> Hosts]
  /\ turns \in [1 .. NumInterfaces -> Nat]

\* What the constructors were given.
Given ==
  /\ policy = "useOneInterfaceOnly" => nextInterfaceId = 1
  /\ policy = "roundRobin" => /\ Len(interfaces) = NumInterfaces
                              /\ IsInjective(interfaces)
                              /\ ToSet(interfaces) = 1 .. NumInterfaces
  /\ policy \in Mptcp => interfaces = Interfaces

\* Connections are open once, over at least one interface.
Open == IsInjective(connections) /\ \A c \in ToSet(connections) : connInterfaces[c] # <<>>

\* The interfaces before the next one have had a turn more than the others.
Rotation ==
  policy = "roundRobin" =>
    \E n \in Nat : \A k \in 1 .. Len(interfaces) :
      turns[interfaces[k]] = n + (IF k < nextInterfaceId THEN 1 ELSE 0)

IInv == TypeOK /\ Given /\ Open /\ Rotation

LEMMA AllInterfaces ==
  /\ NumInterfaces \in Nat /\ NumInterfaces >= 1
  /\ Interfaces \in Seq(1 .. NumInterfaces)
  /\ Len(Interfaces) = NumInterfaces
  /\ \A i \in 1 .. NumInterfaces : Interfaces[i] = i
  /\ IsInjective(Interfaces)
  /\ ToSet(Interfaces) = 1 .. NumInterfaces
  /\ IsFiniteSet(1 .. NumInterfaces) /\ Cardinality(1 .. NumInterfaces) = NumInterfaces
<1>1. NumInterfaces \in Nat /\ NumInterfaces >= 1
  BY NumInterfacesAssumption
<1>2. IsFiniteSet(1 .. NumInterfaces) /\ Cardinality(1 .. NumInterfaces) = NumInterfaces
  BY <1>1, FS_Interval
<1>3. /\ Interfaces \in Seq(1 .. NumInterfaces)
      /\ Len(Interfaces) = NumInterfaces
      /\ \A i \in 1 .. NumInterfaces : Interfaces[i] = i
      /\ DOMAIN Interfaces = 1 .. NumInterfaces
  BY <1>1 DEF Interfaces
<1> QED BY <1>1, <1>2, <1>3 DEF IsInjective, ToSet

LEMMA InitHolds == Init => IInv
<1> SUFFICES ASSUME Init PROVE IInv
  OBVIOUS
<1>1. (CHOOSE h \in Hosts : TRUE) \in Hosts
  BY HostsAssumption
<1>2. /\ connections = <<>> /\ nextInterfaceId = 1
      /\ connInterfaces = [c \in Conns |-> <<>>]
      /\ host \in [Conns -> Hosts]
      /\ turns = [i \in 1 .. NumInterfaces |-> 0]
      /\ policy \in SingleInterface \cup Mptcp
  BY <1>1, AllInterfaces DEF Init
<1>3. /\ interfaces \in Seq(1 .. NumInterfaces) /\ Len(interfaces) >= 1 /\ Given
  <2>1. CASE policy = "useOneInterfaceOnly"
    <3>1. PICK i \in 1 .. NumInterfaces : interfaces = <<i>>
      BY <2>1, AllInterfaces DEF Init
    <3> QED BY <2>1, <3>1, <1>2 DEF Given, Mptcp
  <2>2. CASE policy = "roundRobin"
    <3>1. interfaces \in {Interfaces, Reverse(Interfaces)}
      BY <2>2 DEF Init
    <3>2. CASE interfaces = Interfaces
      BY <2>2, <3>2, AllInterfaces DEF Given, Mptcp
    <3>3. CASE interfaces = Reverse(Interfaces)
      <4>1. interfaces = [i \in 1 .. NumInterfaces |-> (NumInterfaces - i) + 1]
        <5>1. \A i \in 1 .. NumInterfaces : (NumInterfaces - i) + 1 \in 1 .. NumInterfaces
          BY AllInterfaces
        <5> QED BY <3>3, <5>1, AllInterfaces DEF Reverse
      <4>2. \A i \in 1 .. NumInterfaces : interfaces[i] = (NumInterfaces - i) + 1
        BY <4>1
      <4>3. interfaces \in [1 .. NumInterfaces -> 1 .. NumInterfaces]
        BY <4>1, AllInterfaces
      <4>4. /\ interfaces \in Seq(1 .. NumInterfaces) /\ Len(interfaces) = NumInterfaces
            /\ DOMAIN interfaces = 1 .. NumInterfaces
        BY <4>3, AllInterfaces
      <4>5. IsInjective(interfaces)
        BY <4>2, <4>4, AllInterfaces DEF IsInjective
      <4>6. ToSet(interfaces) = 1 .. NumInterfaces
        <5>1. ASSUME NEW i \in 1 .. NumInterfaces
              PROVE  \E j \in 1 .. NumInterfaces : interfaces[j] = i
          <6>1. /\ (NumInterfaces - i) + 1 \in 1 .. NumInterfaces
                /\ (NumInterfaces - ((NumInterfaces - i) + 1)) + 1 = i
            BY AllInterfaces
          <6> QED BY <6>1, <4>2
        <5>2. \A j \in 1 .. NumInterfaces : interfaces[j] \in 1 .. NumInterfaces
          BY <4>3
        <5> QED BY <5>1, <5>2, <4>4 DEF ToSet
      <4> QED BY <2>2, <4>4, <4>5, <4>6, AllInterfaces DEF Given, Mptcp
    <3> QED BY <3>1, <3>2, <3>3
  <2>3. CASE policy \notin {"useOneInterfaceOnly", "roundRobin"}
    <3>1. interfaces = Interfaces
      BY <2>3 DEF Init
    <3> QED BY <3>1, <2>3, AllInterfaces DEF Given
  <2> QED BY <2>1, <2>2, <2>3
<1>4. TypeOK
  <2>1. Len(interfaces) \in Nat /\ nextInterfaceId \in 1 .. Len(interfaces)
    BY <1>2, <1>3
  <2> QED BY <1>2, <1>3, <2>1 DEF TypeOK
<1>5. Open
  BY <1>2 DEF Open, ToSet, IsInjective
<1>6. Rotation
  <2>0. interfaces \in Seq(1 .. NumInterfaces)
    BY <1>3
  <2>1. ASSUME NEW k \in 1 .. Len(interfaces) PROVE interfaces[k] \in 1 .. NumInterfaces
    BY <2>0, ElementOfSeq, Zenon
  <2>2. Len(interfaces) \in Nat
    BY <2>0
  <2>3. \A k \in 1 .. Len(interfaces) : ~(k < 1)
    BY <2>2
  <2> QED BY <2>1, <2>3, <1>2 DEF Rotation
<1> QED BY <1>3, <1>4, <1>5, <1>6 DEF IInv

-----------------------------------------------------------------------------
(* A decision *)

\* What a finish time is predicted for.
Ways == {Pipelined(c) : c \in ToSet(connections)}
          \cup {New(p) : p \in SetToAllKPermutations(1 .. NumInterfaces) \ {<<>>}}

LEMMA KindsOfWays ==
  ASSUME TypeOK
  PROVE  /\ \A c \in ToSet(connections) : c \in Conns
         /\ \A c \in Conns : Pipelined(c).conn = c /\ c # None
         /\ \A p : New(p).conn = None /\ New(p).ifaces = p
         /\ \A way \in Ways : way.conn # None => way.conn \in ToSet(connections)
         /\ \A way \in Ways : way.conn = None =>
              /\ way = New(way.ifaces) /\ way.ifaces # <<>>
              /\ way.ifaces \in SetToAllKPermutations(1 .. NumInterfaces)
         /\ Nothing \notin Ways
<1>1. \A c \in ToSet(connections) : c \in Conns
  BY DEF TypeOK, ToSet
<1>2. \A c \in Conns : Pipelined(c).conn = c /\ c # None
  BY ConnsAssumption DEF Pipelined
<1>3. \A p : New(p).conn = None /\ New(p).ifaces = p
  BY DEF New
<1>4. Nothing.conn = None /\ Nothing.ifaces = <<>>
  BY DEF Nothing
<1>5. \A way \in Ways : \/ \E c \in ToSet(connections) : way = Pipelined(c)
                        \/ \E p \in SetToAllKPermutations(1 .. NumInterfaces) : p # <<>> /\ way = New(p)
  BY DEF Ways
<1>6. \A way \in Ways : way.conn # None => way.conn \in ToSet(connections)
  BY <1>1, <1>2, <1>3, <1>5
<1>7. ASSUME NEW way \in Ways, way.conn = None
      PROVE  /\ way = New(way.ifaces) /\ way.ifaces # <<>>
             /\ way.ifaces \in SetToAllKPermutations(1 .. NumInterfaces)
  <2>1. PICK p \in SetToAllKPermutations(1 .. NumInterfaces) : p # <<>> /\ way = New(p)
    BY <1>1, <1>2, <1>5, <1>7
  <2> QED BY <2>1, <1>3
<1>8. Nothing \notin Ways
  BY <1>4, <1>7
<1> QED BY <1>1, <1>2, <1>3, <1>6, <1>7, <1>8

LEMMA PredictionsAreTimes ==
  ASSUME NEW time \in Predictions
  PROVE  time \in [Ways -> Nat]
<1>1. Predictions = [Ways -> Times]
  BY AllInterfaces DEF Predictions, Ways
<1>2. Times \subseteq Nat
  BY TimesAssumption
<1> QED BY <1>1, <1>2

\* New connections over one interface and over all of them are among the ways.
LEMMA NewWays ==
  /\ \A i \in 1 .. NumInterfaces : New(<<i>>) \in Ways
  /\ \A p \in SetToSeqs(1 .. NumInterfaces) : New(p) \in Ways
  /\ Interfaces \in SetToSeqs(1 .. NumInterfaces)
<1>1. ASSUME NEW i \in 1 .. NumInterfaces
      PROVE  New(<<i>>) \in Ways
  <2>1. Cardinality({i}) = 1 /\ {i} \in SUBSET (1 .. NumInterfaces)
    BY FS_Singleton
  <2>2. <<i>> \in [1 .. 1 -> {i}] /\ \A a, b \in 1 .. 1 : a = b
    OBVIOUS
  <2>3. <<i>> \in SetToSeqs({i})
    BY <2>1, <2>2 DEF SetToSeqs
  <2>4. <<i>> \in SetToAllKPermutations(1 .. NumInterfaces) /\ <<i>> # <<>>
    BY <2>1, <2>3 DEF SetToAllKPermutations
  <2> QED BY <2>4 DEF Ways
<1>2. ASSUME NEW p \in SetToSeqs(1 .. NumInterfaces)
      PROVE  New(p) \in Ways
  <2>1. p \in SetToAllKPermutations(1 .. NumInterfaces)
    BY DEF SetToAllKPermutations
  <2>2. Len(p) = NumInterfaces
    BY AllInterfaces, OrderOfSet
  <2>3. p # <<>>
    BY <2>2, AllInterfaces
  <2> QED BY <2>1, <2>3 DEF Ways
<1>3. Interfaces \in SetToSeqs(1 .. NumInterfaces)
  <2>1. Interfaces \in [1 .. NumInterfaces -> 1 .. NumInterfaces]
    BY DEF Interfaces
  <2> QED BY <2>1, AllInterfaces DEF SetToSeqs
<1> QED BY <1>1, <1>2, <1>3

\* way is one of the ways in P, and nothing in P would be finished earlier.
Earliest(way, time, P) == way \in P /\ \A other \in P : time[way] <= time[other]

\* Connections to h in a list.
PipesTo(h, cs) == {Pipelined(c) : c \in {d \in ToSet(cs) : host[d] = h}}

LEMMA PipelinedIsEarliest ==
  ASSUME TypeOK, NEW time \in Predictions, NEW h,
         NEW cs \in Seq(Conns), IsInjective(cs), ToSet(cs) \subseteq ToSet(connections)
  PROVE  /\ PipesTo(h, cs) \subseteq Ways
         /\ IF PipesTo(h, cs) = {} THEN PredictPipelinedConnections(h, time, cs) = Nothing
            ELSE Earliest(PredictPipelinedConnections(h, time, cs), time, PipesTo(h, cs))
<1> DEFINE A == {c \in Conns : host[c] = h}
           sameHost == Filter(cs, A)
           ways == [n \in DOMAIN sameHost |-> Pipelined(sameHost[n])]
           P == PipesTo(h, cs)
           best == Best(time, ways)
<1>1. sameHost \in Seq(Conns) /\ ToSet(sameHost) = ToSet(cs) \cap A
  <2> HIDE DEF A
  <2> QED BY FilterProperties
<1>2. PredictPipelinedConnections(h, time, cs) = best
  BY DEF PredictPipelinedConnections
<1>3. ToSet(cs) \cap A = {d \in ToSet(cs) : host[d] = h}
  BY KindsOfWays
<1> HIDE DEF sameHost
<1>4. P \subseteq Ways
  BY DEF PipesTo, Ways
<1>5. DOMAIN sameHost = 1 .. Len(sameHost) /\ Len(sameHost) \in Nat
  BY <1>1
<1>6. \A n \in 1 .. Len(sameHost) : Pipelined(sameHost[n]) \in P
  BY <1>1, <1>3, <1>5 DEF PipesTo, ToSet
<1>7. \A way \in P : \E n \in 1 .. Len(sameHost) : way = Pipelined(sameHost[n])
  BY <1>1, <1>3, <1>5 DEF PipesTo, ToSet
<1>8. ways \in Seq(Ways \cup {Nothing}) /\ Len(ways) = Len(sameHost)
  BY <1>4, <1>5, <1>6
<1>9. \A n \in 1 .. Len(ways) : ways[n] = Pipelined(sameHost[n])
  BY <1>5, <1>8
<1> HIDE DEF P, ways
<1>10. IsBest(best, time, ways, Len(ways))
  <2> HIDE DEF best
  <2>1. time \in [Ways -> Nat] /\ Nothing \notin Ways
    BY PredictionsAreTimes, KindsOfWays
  <2> QED BY <2>1, <1>8, BestProperties DEF best
<1>11. Nothing \notin P
  BY <1>4, KindsOfWays
<1> HIDE DEF best
<1>12. CASE best = Nothing
  <2>1. \A n \in 1 .. Len(ways) : ways[n] = Nothing
    BY <1>10, <1>12 DEF IsBest
  <2>2. P = {}
    BY <2>1, <1>6, <1>7, <1>8, <1>9, <1>11
  <2> QED BY <2>2, <1>12, <1>2, <1>4 DEF P
<1>13. CASE best # Nothing
  <2>1. PICK n \in 1 .. Len(ways) :
          best = ways[n] /\ \A m \in 1 .. Len(ways) : ways[m] # Nothing => time[best] <= time[ways[m]]
    BY <1>10, <1>13 DEF IsBest
  <2>2. best \in P
    BY <2>1, <1>6, <1>8, <1>9
  <2>3. \A way \in P : time[best] <= time[way]
    BY <2>1, <1>7, <1>8, <1>9, <1>11
  <2> QED BY <2>2, <2>3, <1>2, <1>4 DEF P, Earliest
<1> QED BY <1>12, <1>13

\* A new connection is taken only if it would be finished before all existing ones.
Chosen(way, time, P, new) ==
  /\ Earliest(way, time, P \cup {new})
  /\ way = new => \A pipe \in P : time[new] < time[pipe]

LEMMA NewOrPipelined ==
  ASSUME TypeOK, NEW time \in Predictions, NEW h, NEW p, New(p) \in Ways,
         NEW cs \in Seq(Conns), IsInjective(cs), ToSet(cs) \subseteq ToSet(connections)
  PROVE  Chosen(Best(time, <<PredictPipelinedConnections(h, time, cs), New(p)>>),
                time, PipesTo(h, cs), New(p))
<1> DEFINE pipe == PredictPipelinedConnections(h, time, cs)
           P == PipesTo(h, cs)
           new == New(p)
           ways == <<pipe, new>>
           best == Best(time, ways)
<1>1. /\ P \subseteq Ways
      /\ IF P = {} THEN pipe = Nothing ELSE Earliest(pipe, time, P)
  BY PipelinedIsEarliest
<1>2. time \in [Ways -> Nat] /\ Nothing \notin Ways
  BY PredictionsAreTimes, KindsOfWays
<1>3. new \notin P
  <2>1. \A c \in ToSet(cs) : Pipelined(c).conn # new.conn
    BY KindsOfWays
  <2> QED BY <2>1 DEF PipesTo
<1> HIDE DEF pipe, P, new
<1>4. pipe \in Ways \cup {Nothing} /\ new \in Ways /\ new # Nothing
  BY <1>1, <1>2 DEF Earliest, new
<1>5. ways \in Seq(Ways \cup {Nothing}) /\ Len(ways) = 2 /\ ways[1] = pipe /\ ways[2] = new
  BY <1>4
<1> HIDE DEF ways
<1>6. IsBest(best, time, ways, 2)
  BY <1>2, <1>5, BestProperties
<1> HIDE DEF best
<1>7. 1 .. 2 = {1, 2}
  OBVIOUS
<1>8. best # Nothing
  BY <1>4, <1>5, <1>6, <1>7 DEF IsBest
<1>9. PICK n \in {1, 2} :
         /\ best = ways[n]
         /\ \A m \in {1, 2} : ways[m] # Nothing =>
               time[best] <= time[ways[m]] /\ (m < n => time[best] < time[ways[m]])
  BY <1>6, <1>7, <1>8 DEF IsBest
<1>10. Chosen(best, time, P, new)
  <2>1. CASE P = {}
    <3>1. best = new
      BY <2>1, <1>1, <1>5, <1>8, <1>9
    <3> QED BY <3>1, <2>1, <1>2, <1>4 DEF Chosen, Earliest
  <2>2. CASE P # {}
    <3>1. pipe \in P /\ pipe # Nothing /\ \A other \in P : time[pipe] <= time[other]
      BY <2>2, <1>1, <1>2 DEF Earliest
    <3>2. \A way \in P \cup {new} : time[way] \in Nat
      BY <1>1, <1>2, <1>4
    <3>3. time[best] <= time[pipe] /\ time[best] <= time[new]
      BY <3>1, <1>4, <1>5, <1>9
    <3>4. best \in P \cup {new}
      BY <3>1, <1>5, <1>9
    <3>5. ASSUME best = new PROVE time[best] < time[pipe]
      <4>1. n = 2
        BY <3>5, <3>1, <1>3, <1>5, <1>9
      <4>2. 1 < n /\ ways[1] # Nothing
        BY <4>1, <3>1, <1>5
      <4> QED BY <4>2, <1>5, <1>9
    <3> QED BY <3>1, <3>2, <3>3, <3>4, <3>5 DEF Chosen, Earliest
  <2> QED BY <2>1, <2>2
<1> QED BY <1>10 DEF best, ways, new, pipe, P

\* Connections over an interface.
LEMMA PipesOverInterface ==
  ASSUME TypeOK, Open, NEW i, NEW h
  PROVE  /\ ConnectionsOf(i) \in Seq(Conns) /\ IsInjective(ConnectionsOf(i))
         /\ ToSet(ConnectionsOf(i)) \subseteq ToSet(connections)
         /\ PipesTo(h, ConnectionsOf(i)) =
              {Pipelined(c) : c \in {d \in ToSet(connections) :
                                       host[d] = h /\ i \in ToSet(connInterfaces[d])}}
<1> DEFINE A == {c \in Conns : i \in ToSet(connInterfaces[c])}
           cs == Filter(connections, A)
<1>1. connections \in Seq(Conns) /\ IsInjective(connections)
  BY DEF TypeOK, Open
<1>2. cs \in Seq(Conns) /\ IsInjective(cs) /\ ToSet(cs) = ToSet(connections) \cap A
  <2> HIDE DEF A
  <2> QED BY <1>1, FilterProperties
<1> HIDE DEF cs
<1>3. PipesTo(h, cs) = {Pipelined(c) : c \in {d \in ToSet(connections) :
                                               host[d] = h /\ i \in ToSet(connInterfaces[d])}}
  <2>1. {d \in ToSet(cs) : host[d] = h}
          = {d \in ToSet(connections) : host[d] = h /\ i \in ToSet(connInterfaces[d])}
    BY <1>2, KindsOfWays
  <2> QED BY <2>1 DEF PipesTo
<1> QED BY <1>2, <1>3 DEF ConnectionsOf, cs, A

LEMMA OneInterface ==
  ASSUME TypeOK, Open, NEW time \in Predictions, NEW h, NEW i \in 1 .. NumInterfaces
  PROVE  Chosen(UseOneInterfaceOnly(i, h, time), time, PipesTo(h, ConnectionsOf(i)), New(<<i>>))
<1>1. New(<<i>>) \in Ways
  BY NewWays
<1>2. /\ ConnectionsOf(i) \in Seq(Conns) /\ IsInjective(ConnectionsOf(i))
      /\ ToSet(ConnectionsOf(i)) \subseteq ToSet(connections)
  BY PipesOverInterface
<1> QED BY <1>1, <1>2, NewOrPipelined DEF UseOneInterfaceOnly

\* The candidates in any order.
LEMMA Candidates ==
  ASSUME TypeOK, Open, NEW cs \in CandidateOrders
  PROVE  cs \in Seq(Conns) /\ IsInjective(cs) /\ ToSet(cs) = ToSet(connections)
<1>1. IsFiniteSet(ToSet(connections))
  BY ElementsFinite DEF TypeOK
<1>2. cs \in Seq(ToSet(connections)) /\ IsInjective(cs) /\ ToSet(cs) = ToSet(connections)
  BY <1>1, OrderOfSet DEF CandidateOrders
<1> QED BY <1>2, KindsOfWays

LEMMA MeshOrPipelined ==
  ASSUME TypeOK, Open, NEW time \in Predictions, NEW h, NEW p \in SetToSeqs(1 .. NumInterfaces),
         NEW way \in MptcpFullMesh(p, h, time)
  PROVE  Chosen(way, time, PipesTo(h, connections), New(p))
<1>1. PICK cs \in CandidateOrders :
         way = Best(time, <<PredictPipelinedConnections(h, time, cs), New(p)>>)
  BY DEF MptcpFullMesh
<1>2. cs \in Seq(Conns) /\ IsInjective(cs) /\ ToSet(cs) = ToSet(connections)
  BY Candidates
<1>3. PipesTo(h, cs) = PipesTo(h, connections)
  BY <1>2 DEF PipesTo
<1>4. New(p) \in Ways
  BY NewWays
<1> QED BY <1>1, <1>2, <1>3, <1>4, NewOrPipelined

\* What the policies that consider several interfaces could reuse.
LEMMA EverythingIsReusable ==
  ASSUME TypeOK, Open, Turn = 1 .. NumInterfaces, NEW h
  PROVE  /\ Reusable(h) = PipesTo(h, connections)
         /\ \A way \in Reusable(h) : \E i \in 1 .. NumInterfaces : way \in PipesTo(h, ConnectionsOf(i))
         /\ \A i \in 1 .. NumInterfaces : PipesTo(h, ConnectionsOf(i)) \subseteq Reusable(h)
<1>1. ASSUME NEW c \in ToSet(connections)
      PROVE  \E i \in 1 .. NumInterfaces : i \in ToSet(connInterfaces[c])
  <2> DEFINE s == connInterfaces[c]
  <2>1. s \in Seq(1 .. NumInterfaces) /\ s # <<>>
    BY KindsOfWays DEF TypeOK, Open
  <2> HIDE DEF s
  <2>2. Len(s) \in Nat /\ Len(s) # 0 /\ DOMAIN s = 1 .. Len(s)
    BY <2>1
  <2>3. 1 \in 1 .. Len(s)
    BY <2>2
  <2>4. s[1] \in 1 .. NumInterfaces
    BY <2>1, <2>3, ElementOfSeq, Zenon
  <2>5. s[1] \in ToSet(s)
    BY <2>2, <2>3 DEF ToSet
  <2> QED BY <2>4, <2>5 DEF s
<1>2. {d \in ToSet(connections) : host[d] = h /\ ToSet(connInterfaces[d]) \cap Turn # {}}
        = {d \in ToSet(connections) : host[d] = h}
  BY <1>1
<1>3. Reusable(h) = PipesTo(h, connections)
  BY <1>2 DEF Reusable, PipesTo
<1>4. ASSUME NEW c \in ToSet(connections), host[c] = h
      PROVE  \E i \in 1 .. NumInterfaces : Pipelined(c) \in PipesTo(h, ConnectionsOf(i))
  <2>1. PICK i \in 1 .. NumInterfaces : i \in ToSet(connInterfaces[c])
    BY <1>1
  <2> QED BY <1>4, <2>1, PipesOverInterface
<1>5. ASSUME NEW i \in 1 .. NumInterfaces
      PROVE  PipesTo(h, ConnectionsOf(i)) \subseteq Reusable(h)
  <2>1. ToSet(ConnectionsOf(i)) \subseteq ToSet(connections)
    BY PipesOverInterface
  <2> QED BY <2>1, <1>3 DEF PipesTo
<1>6. \A way \in Reusable(h) : \E i \in 1 .. NumInterfaces : way \in PipesTo(h, ConnectionsOf(i))
  BY <1>3, <1>4 DEF PipesTo
<1> QED BY <1>3, <1>5, <1>6

\* What BestTaken says of one decision, which is for one of the ways.
TakesBest(h, time, way) ==
  /\ way \in Ways
  /\ way \in Reusable(h) \/ (way.conn = None /\ way.ifaces # <<>>)
  /\ \A other \in Reusable(h) \cup Openable : time[way] <= time[other]
  /\ way.conn = None =>
       \A pipe \in Reusable(h) :
         \/ time[way] < time[pipe]
         \/ policy = "earliestArrivalFirst" /\ connInterfaces[pipe.conn] # way.ifaces

\* A policy that compares one new connection with all that could be reused.
LEMMA OneNewConnection ==
  ASSUME TypeOK, NEW time, NEW h, NEW way, NEW p, New(p) \in Ways, p # <<>>,
         Reusable(h) \subseteq Ways,
         Chosen(way, time, Reusable(h), New(p)), Openable \subseteq {New(p)}
  PROVE  TakesBest(h, time, way)
<1>1. way \in Reusable(h) \cup {New(p)} /\ \A other \in Reusable(h) \cup {New(p)} : time[way] <= time[other]
  BY DEF Chosen, Earliest
<1>2. New(p).conn = None /\ New(p).ifaces = p
  BY KindsOfWays
<1>3. \A pipe \in Reusable(h) : pipe.conn # None
  <2>1. \A c \in ToSet(connections) : Pipelined(c).conn # None
    BY KindsOfWays
  <2> QED BY <2>1 DEF Reusable
<1>4. way.conn = None => \A pipe \in Reusable(h) : time[way] < time[pipe]
  BY <1>1, <1>3 DEF Chosen
<1> QED BY <1>1, <1>2, <1>4 DEF TakesBest

LEMMA TakesBestOneInterface ==
  ASSUME TypeOK, Open, NEW time \in Predictions, NEW h, policy \in {"useOneInterfaceOnly", "roundRobin"},
         Given, NEW way \in Predict(h, time)
  PROVE  TakesBest(h, time, way)
<1> DEFINE i == interfaces[nextInterfaceId]
<1>1. i \in 1 .. NumInterfaces
  BY ElementOfSeq, Zenon DEF TypeOK
<1>2. way = UseOneInterfaceOnly(i, h, time)
  BY DEF Predict, Given
<1>3. Turn = {i}
  BY DEF Turn
<1> HIDE DEF i
<1>4. Reusable(h) = PipesTo(h, ConnectionsOf(i))
  BY <1>3, PipesOverInterface DEF Reusable
<1>5. Openable = {New(<<i>>)}
  BY <1>3 DEF Openable, SingleInterface
<1>6. Reusable(h) \subseteq Ways
  BY DEF Reusable, Ways
<1>7. Chosen(way, time, Reusable(h), New(<<i>>))
  BY <1>1, <1>2, <1>4, OneInterface
<1>8. <<i>> # <<>> /\ New(<<i>>) \in Ways
  BY <1>1, NewWays
<1> QED BY <1>5, <1>6, <1>7, <1>8, OneNewConnection

LEMMA TakesBestMesh ==
  ASSUME TypeOK, Open, NEW time \in Predictions, NEW h,
         policy \in {"mptcpFullMeshIFListPolicy", "mptcpFullMeshPolicy"},
         Given, NEW way \in Predict(h, time)
  PROVE  TakesBest(h, time, way)
<1>1. PICK p \in SetToSeqs(1 .. NumInterfaces) :
         way \in MptcpFullMesh(p, h, time) /\ Openable \subseteq {New(p)}
  <2>1. CASE policy = "mptcpFullMeshIFListPolicy"
    <3>1. interfaces = Interfaces
      BY <2>1 DEF Given, Mptcp
    <3>2. way \in MptcpFullMesh(Interfaces, h, time)
      BY <2>1, <3>1 DEF Predict
    <3>3. Openable = {New(Interfaces)}
      BY <2>1, <3>1 DEF Openable, SingleInterface
    <3> QED BY <3>2, <3>3, NewWays
  <2>2. CASE policy = "mptcpFullMeshPolicy"
    <3>1. way \in UNION {MptcpFullMesh(p, h, time) : p \in SetToSeqs(1 .. NumInterfaces)}
      BY <2>2, AllInterfaces DEF Predict
    <3>2. Openable = {}
      BY <2>2 DEF Openable, SingleInterface
    <3> QED BY <3>1, <3>2
  <2> QED BY <2>1, <2>2
<1>2. Turn = 1 .. NumInterfaces
  BY AllInterfaces DEF Turn
<1>3. Chosen(way, time, Reusable(h), New(p))
  BY <1>1, <1>2, MeshOrPipelined, EverythingIsReusable
<1>4. Reusable(h) \subseteq Ways
  BY DEF Reusable, Ways
<1>5. p # <<>> /\ New(p) \in Ways
  <2>1. p \in Seq(1 .. NumInterfaces) /\ Len(p) = NumInterfaces
    BY AllInterfaces, OrderOfSet
  <2> QED BY <2>1, AllInterfaces, NewWays
<1> QED BY <1>1, <1>3, <1>4, <1>5, OneNewConnection

LEMMA TakesBestOfAll ==
  ASSUME TypeOK, Open, NEW time \in Predictions, NEW h, policy = "earliestArrivalFirst",
         NEW way \in Predict(h, time)
  PROVE  TakesBest(h, time, way)
<1> DEFINE of(i) == UseOneInterfaceOnly(i, h, time)
           P(i) == PipesTo(h, ConnectionsOf(i))
           ways == [n \in DOMAIN Interfaces |-> of(Interfaces[n])]
<1>0. way = Best(time, ways)
  BY DEF Predict, EarliestArrivalFirst
<1>1. Turn = 1 .. NumInterfaces
  BY AllInterfaces DEF Turn
<1>2. ASSUME NEW i \in 1 .. NumInterfaces
      PROVE  Chosen(of(i), time, P(i), New(<<i>>)) /\ of(i) \in Ways
  <2>1. Chosen(of(i), time, P(i), New(<<i>>))
    BY OneInterface
  <2>2. P(i) \subseteq Ways
    BY PipesOverInterface DEF Ways
  <2> QED BY <2>1, <2>2, NewWays DEF Chosen, Earliest
<1>3. time \in [Ways -> Nat] /\ Nothing \notin Ways
  BY PredictionsAreTimes, KindsOfWays
<1>4. DOMAIN Interfaces = 1 .. NumInterfaces /\ \A i \in 1 .. NumInterfaces : Interfaces[i] = i
  BY AllInterfaces DEF Interfaces
<1> HIDE DEF of, P
<1>5. ways \in Seq(Ways \cup {Nothing}) /\ Len(ways) = NumInterfaces
      /\ \A i \in 1 .. NumInterfaces : ways[i] = of(i)
  <2>1. ways = [i \in 1 .. NumInterfaces |-> of(i)]
    BY <1>4
  <2>2. \A i \in 1 .. NumInterfaces : of(i) \in Ways
    BY <1>2
  <2> HIDE DEF ways
  <2>3. ways \in [1 .. NumInterfaces -> Ways \cup {Nothing}]
    BY <2>1, <2>2
  <2>4. NumInterfaces \in Nat
    BY AllInterfaces
  <2> QED BY <2>1, <2>3, <2>4
<1> HIDE DEF ways
<1>6. IsBest(way, time, ways, NumInterfaces)
  BY <1>0, <1>3, <1>5, BestProperties
<1>7. way # Nothing
  <2>1. 1 \in 1 .. NumInterfaces
    BY AllInterfaces
  <2>2. ways[1] # Nothing
    BY <2>1, <1>2, <1>3, <1>5
  <2> QED BY <2>1, <2>2, <1>6 DEF IsBest
<1>8. PICK i \in 1 .. NumInterfaces :
         way = of(i) /\ \A j \in 1 .. NumInterfaces : time[way] <= time[of(j)]
  <2>1. \A j \in 1 .. NumInterfaces : ways[j] # Nothing
    BY <1>2, <1>3, <1>5
  <2> QED BY <1>5, <1>6, <1>7, <2>1 DEF IsBest
<1>9. \A j \in 1 .. NumInterfaces :
         /\ of(j) \in Ways /\ New(<<j>>) \in Ways /\ P(j) \subseteq Ways
         /\ time[of(j)] <= time[New(<<j>>)] /\ \A pipe \in P(j) : time[of(j)] <= time[pipe]
  <2>1. \A j \in 1 .. NumInterfaces : P(j) \subseteq Ways
    BY PipesOverInterface DEF Ways, P
  <2> QED BY <2>1, <1>2, NewWays DEF Chosen, Earliest
<1>10. \A other \in Reusable(h) \cup Openable : time[way] <= time[other]
  <2>1. Openable = {New(<<j>>) : j \in 1 .. NumInterfaces}
    BY <1>1 DEF Openable, SingleInterface
  <2>2. \A other \in Reusable(h) : \E j \in 1 .. NumInterfaces : other \in P(j)
    BY <1>1, EverythingIsReusable DEF P
  <2>3. \A other \in Reusable(h) \cup Openable :
          \E j \in 1 .. NumInterfaces : other \in Ways /\ time[of(j)] <= time[other]
    BY <2>1, <2>2, <1>9
  <2> SUFFICES ASSUME NEW other \in Reusable(h) \cup Openable
               PROVE  time[way] <= time[other]
    OBVIOUS
  <2>4. PICK j \in 1 .. NumInterfaces : other \in Ways /\ time[of(j)] <= time[other]
    BY <2>3
  <2>5. time[way] <= time[of(j)]
    BY <1>8
  <2>6. time[way] \in Nat /\ time[of(j)] \in Nat /\ time[other] \in Nat
    BY <2>4, <1>3, <1>8, <1>9
  <2> QED BY <2>4, <2>5, <2>6
<1>11. way \in P(i) \cup {New(<<i>>)}
  BY <1>2, <1>8 DEF Chosen, Earliest
<1>12. New(<<i>>).conn = None /\ New(<<i>>).ifaces = <<i>> /\ <<i>> # <<>>
  BY KindsOfWays
<1>13. \A pipe \in Reusable(h) : pipe.conn # None
  <2>1. \A c \in ToSet(connections) : Pipelined(c).conn # None
    BY KindsOfWays
  <2> QED BY <2>1 DEF Reusable
<1>14. P(i) \subseteq Reusable(h)
  BY <1>1, EverythingIsReusable DEF P
<1>15. ASSUME way.conn = None, NEW pipe \in Reusable(h), connInterfaces[pipe.conn] = way.ifaces
       PROVE  time[way] < time[pipe]
  <2>1. way = New(<<i>>)
    BY <1>11, <1>13, <1>14, <1>15
  <2>2. connInterfaces[pipe.conn] = <<i>>
    BY <2>1, <1>12, <1>15
  <2>3. PICK c \in ToSet(connections) : pipe = Pipelined(c) /\ host[c] = h
    BY DEF Reusable
  <2>4. pipe.conn = c
    BY <2>3, KindsOfWays
  <2>5. i \in ToSet(connInterfaces[c])
    <3>1. i \in ToSet(<<i>>)
      BY DEF ToSet
    <3> QED BY <3>1, <2>2, <2>4
  <2>6. pipe \in P(i)
    BY <2>3, <2>5, PipesOverInterface DEF P
  <2> QED BY <2>1, <2>6, <1>2, <1>8 DEF Chosen
<1> QED BY <1>8, <1>9, <1>10, <1>11, <1>12, <1>14, <1>15 DEF TakesBest

LEMMA TakesBestCombination ==
  ASSUME TypeOK, Open, NEW time \in Predictions, NEW h, policy = "earliestArrivalFirstMPTCP",
         NEW way \in Predict(h, time)
  PROVE  TakesBest(h, time, way)
<1> DEFINE S == 1 .. NumInterfaces
           C == {New(p) : p \in {q \in SetToAllKPermutations(S) : Len(q) > 1}}
<1>0. PICK cs \in CandidateOrders, combinations \in Combinations :
         way = Best(time, <<PredictPipelinedConnections(h, time, cs)>>
                            \o [n \in DOMAIN Interfaces |-> New(<<Interfaces[n]>>)] \o combinations)
  BY DEF Predict, EarliestArrivalFirstMPTCP
<1> DEFINE pipe == PredictPipelinedConnections(h, time, cs)
           single == [n \in DOMAIN Interfaces |-> New(<<Interfaces[n]>>)]
           P == PipesTo(h, cs)
           ways == <<pipe>> \o single \o combinations
<1>1. combinations \in Seq(C) /\ ToSet(combinations) = C
  <2> DEFINE A == {q \in SetToAllKPermutations(S) : Len(q) > 1}
             new == [p \in A |-> New(p)]
  <2>1. IsFiniteSet(SetToAllKPermutations(S))
    BY AllInterfaces, PermutationsFinite
  <2>2. IsFiniteSet(A)
    BY <2>1, FS_Subset
  <2>3. new \in Surjection(A, C)
    BY DEF Surjection
  <2>4. IsFiniteSet(C)
    <3> HIDE DEF A, new, C
    <3> QED BY <2>2, <2>3, FS_Surjection
  <2>5. combinations \in SetToSeqs(C)
    BY AllInterfaces DEF Combinations
  <2> HIDE DEF C
  <2> QED BY <2>4, <2>5, OrderOfSet
<1>2. C \subseteq Ways
  BY DEF Ways
<1>3. cs \in Seq(Conns) /\ IsInjective(cs) /\ ToSet(cs) = ToSet(connections)
  BY Candidates
<1>4. /\ P \subseteq Ways
      /\ IF P = {} THEN pipe = Nothing ELSE Earliest(pipe, time, P)
  BY <1>3, PipelinedIsEarliest
<1>5. Turn = S
  BY AllInterfaces DEF Turn
<1>6. Reusable(h) = P
  <2>1. Reusable(h) = PipesTo(h, connections)
    BY <1>5, EverythingIsReusable
  <2> QED BY <2>1, <1>3 DEF PipesTo
<1>7. time \in [Ways -> Nat] /\ Nothing \notin Ways
  BY PredictionsAreTimes, KindsOfWays
<1>8. /\ single \in Seq(Ways) /\ Len(single) = NumInterfaces
      /\ \A i \in S : single[i] = New(<<i>>) /\ New(<<i>>) \in Ways
  <2>1. single = [i \in S |-> New(<<i>>)]
    BY AllInterfaces DEF Interfaces
  <2>2. \A i \in S : New(<<i>>) \in Ways
    BY NewWays
  <2> HIDE DEF single
  <2> QED BY <2>1, <2>2, AllInterfaces
<1>9. pipe \in Ways \cup {Nothing}
  BY <1>4 DEF Earliest
<1>10. way = Best(time, ways)
  BY <1>0
<1> HIDE DEF pipe, single, P, C, S
<1>11. /\ ways \in Seq(Ways \cup {Nothing})
       /\ 1 \in 1 .. Len(ways) /\ ways[1] = pipe
       /\ \A i \in S : i + 1 \in 1 .. Len(ways) /\ ways[i + 1] = New(<<i>>)
       /\ \A c \in C : \E n \in 1 .. Len(ways) : ways[n] = c
       /\ \A n \in 1 .. Len(ways) : n # 1 => (\E i \in S : ways[n] = New(<<i>>)) \/ ways[n] \in C
  <2> DEFINE V == Ways \cup {Nothing}
             first == <<pipe>> \o single
             all == first \o combinations
             N == NumInterfaces
  <2>0. N \in Nat /\ S = 1 .. N
    BY AllInterfaces DEF S
  <2>1. <<pipe>> \in Seq(V) /\ Len(<<pipe>>) = 1 /\ <<pipe>>[1] = pipe
    BY <1>9
  <2>2. single \in Seq(V) /\ combinations \in Seq(V)
    BY <1>1, <1>2, <1>8
  <2> DEFINE head == <<pipe>>
  <2> HIDE DEF V, head
  <2>3. /\ head \o single \in Seq(V)
        /\ Len(head \o single) = Len(head) + Len(single)
        /\ \A i \in 1 .. Len(head) + Len(single) :
             (head \o single)[i] = IF i <= Len(head) THEN head[i] ELSE single[i - Len(head)]
    BY <2>1, <2>2, ConcatProperties, Zenon DEF head
  <2>4. first = head \o single
    BY DEF head
  <2> HIDE DEF first
  <2>5. /\ first \in Seq(V) /\ Len(first) = N + 1
        /\ first[1] = pipe
        /\ \A i \in 1 .. N + 1 : i # 1 => first[i] = New(<<i - 1>>) /\ i - 1 \in S
    <3>1. Len(first) = N + 1 /\ first \in Seq(V)
      BY <2>0, <2>1, <2>3, <2>4, <1>8 DEF head
    <3>2. first[1] = pipe
      BY <2>0, <2>1, <2>3, <2>4, <1>8 DEF head
    <3>3. ASSUME NEW i \in 1 .. N + 1, i # 1
          PROVE  first[i] = New(<<i - 1>>) /\ i - 1 \in S
      <4>1. i - 1 \in S /\ ~(i <= 1) /\ i \in 1 .. 1 + N
        BY <3>3, <2>0
      <4>2. first[i] = single[i - 1]
        BY <4>1, <2>1, <2>3, <2>4, <1>8 DEF head
      <4> QED BY <4>1, <4>2, <1>8
    <3> QED BY <3>1, <3>2, <3>3
  <2>6. /\ all \in Seq(V)
        /\ Len(all) = Len(first) + Len(combinations)
        /\ \A i \in 1 .. Len(first) + Len(combinations) :
             all[i] = IF i <= Len(first) THEN first[i] ELSE combinations[i - Len(first)]
    BY <2>2, <2>5, ConcatProperties, Zenon
  <2>7. ways = all
    BY DEF first
  <2> DEFINE K == Len(combinations)
  <2>8. K \in Nat /\ DOMAIN combinations = 1 .. K
    BY <1>1
  <2> HIDE DEF all, ways, K
  <2>9. /\ ways \in Seq(V) /\ Len(ways) = (N + 1) + K
        /\ \A i \in 1 .. N + 1 + K :
             ways[i] = IF i <= N + 1 THEN first[i] ELSE combinations[i - (N + 1)]
    BY <2>5, <2>6, <2>7 DEF K
  <2>10. 1 \in 1 .. Len(ways) /\ ways[1] = pipe
    BY <2>0, <2>5, <2>8, <2>9
  <2>11. ASSUME NEW i \in S
         PROVE  i + 1 \in 1 .. Len(ways) /\ ways[i + 1] = New(<<i>>)
    <3>1. i + 1 \in 1 .. N + 1 /\ i + 1 # 1 /\ (i + 1) - 1 = i /\ i + 1 \in 1 .. N + 1 + K /\ i + 1 <= N + 1
      BY <2>0, <2>8
    <3> QED BY <3>1, <2>5, <2>9
  <2>12. ASSUME NEW c \in C
         PROVE  \E n \in 1 .. Len(ways) : ways[n] = c
    <3>1. PICK k \in 1 .. K : combinations[k] = c
      BY <1>1, <2>8 DEF ToSet
    <3>2. /\ N + 1 + k \in 1 .. N + 1 + K /\ ~(N + 1 + k <= N + 1)
          /\ (N + 1 + k) - (N + 1) = k
      BY <2>0, <2>8
    <3> QED BY <3>1, <3>2, <2>9
  <2>13. ASSUME NEW n \in 1 .. Len(ways), n # 1
         PROVE  (\E i \in S : ways[n] = New(<<i>>)) \/ ways[n] \in C
    <3>1. CASE n <= N + 1
      <4>1. n \in 1 .. N + 1 /\ n \in 1 .. N + 1 + K
        BY <3>1, <2>0, <2>8, <2>9
      <4> QED BY <4>1, <3>1, <2>5, <2>9, <2>13
    <3>2. CASE ~(n <= N + 1)
      <4>1. n \in 1 .. N + 1 + K /\ n - (N + 1) \in 1 .. K
        BY <3>2, <2>0, <2>8, <2>9
      <4>2. combinations[n - (N + 1)] \in C
        BY <4>1, <1>1, <2>8 DEF ToSet
      <4> QED BY <4>1, <4>2, <3>2, <2>9
    <3> QED BY <3>1, <3>2
  <2> QED BY <2>9, <2>10, <2>11, <2>12, <2>13 DEF V
<1> HIDE DEF ways
<1>12. IsBest(way, time, ways, Len(ways))
  BY <1>7, <1>10, <1>11, BestProperties
<1>13. \A i \in S : New(<<i>>) \in Ways
  BY <1>8
<1>14. 1 \in S
  BY AllInterfaces DEF S
<1>15. way # Nothing
  <2>1. 1 + 1 \in 1 .. Len(ways) /\ ways[1 + 1] # Nothing
    BY <1>7, <1>11, <1>13, <1>14
  <2> QED BY <2>1, <1>12 DEF IsBest
<1>16. PICK n \in 1 .. Len(ways) :
          /\ way = ways[n]
          /\ \A m \in 1 .. Len(ways) : ways[m] # Nothing =>
                time[way] <= time[ways[m]] /\ (m < n => time[way] < time[ways[m]])
  BY <1>12, <1>15 DEF IsBest
<1>17. way \in Ways
  <2>1. ways[n] \in Ways \cup {Nothing}
    BY <1>11, ElementOfSeq, Zenon
  <2> QED BY <2>1, <1>15, <1>16
<1>18. \A other \in P : time[way] <= time[other] /\ (n # 1 => time[way] < time[other])
  <2> SUFFICES ASSUME NEW other \in P
               PROVE  time[way] <= time[other] /\ (n # 1 => time[way] < time[other])
    OBVIOUS
  <2>1. pipe \in P /\ time[pipe] <= time[other] /\ pipe # Nothing
    BY <1>4, <1>7 DEF Earliest
  <2>2. time[way] <= time[pipe] /\ (n # 1 => time[way] < time[pipe])
    <3>1. n # 1 => 1 < n
      OBVIOUS
    <3> QED BY <3>1, <2>1, <1>11, <1>16
  <2>3. time[way] \in Nat /\ time[pipe] \in Nat /\ time[other] \in Nat
    BY <2>1, <1>4, <1>7, <1>17
  <2> QED BY <2>1, <2>2, <2>3
<1>19. \A other \in Openable : time[way] <= time[other]
  <2>1. Openable = {New(p) : p \in SetToAllKPermutations(S) \ {<<>>}}
    BY AllInterfaces DEF Openable, SingleInterface, S
  <2>2. ASSUME NEW p \in SetToAllKPermutations(S), p # <<>>
        PROVE  time[way] <= time[New(p)]
    <3>1. p \in Seq(S)
      BY AllInterfaces, PermutationsOf DEF S
    <3>2. CASE Len(p) > 1
      <4>1. New(p) \in C
        BY <3>2 DEF C
      <4> QED BY <4>1, <1>2, <1>7, <1>11, <1>16
    <3>3. CASE ~(Len(p) > 1)
      <4>1. Len(p) = 1
        <5>1. Len(p) \in Nat /\ Len(p) # 0
          BY <3>1, <2>2, EmptySeq, Zenon
        <5>2. \A k \in Nat : k # 0 /\ ~(k > 1) => k = 1
          OBVIOUS
        <5> QED BY <5>1, <5>2, <3>3, Zenon
      <4>2. 1 \in 1 .. Len(p)
        BY <4>1
      <4>3. p[1] \in S
        BY <3>1, <4>2, ElementOfSeq, Zenon
      <4>4. p = <<p[1]>>
        BY <3>1, <4>1
      <4> QED BY <4>3, <4>4, <1>7, <1>11, <1>13, <1>16
    <3> QED BY <3>2, <3>3
  <2> QED BY <2>1, <2>2
<1>20. CASE n = 1
  <2>1. way = pipe
    BY <1>20, <1>11, <1>16
  <2>2. way \in P
    BY <2>1, <1>4, <1>15 DEF Earliest
  <2>3. way.conn # None
    <3>1. \A c \in ToSet(connections) : Pipelined(c).conn # None
      BY KindsOfWays
    <3> QED BY <3>1, <2>2, <1>6 DEF Reusable
  <2> QED BY <2>2, <2>3, <1>6, <1>17, <1>18, <1>19 DEF TakesBest
<1>21. CASE n # 1
  <2>1. way \in P \/ (way.conn = None /\ way.ifaces # <<>>)
    <3>1. CASE way.conn = None
      BY <3>1, <1>17, KindsOfWays
    <3>2. CASE way.conn # None
      <4>1. ways[n].conn = None
        <5>1. \A c \in C : c.conn = None
          BY KindsOfWays DEF C
        <5>2. \A i : New(<<i>>).conn = None
          BY KindsOfWays
        <5>3. (\E i \in S : ways[n] = New(<<i>>)) \/ ways[n] \in C
          BY <1>11, <1>21
        <5>4. CASE \E i \in S : ways[n] = New(<<i>>)
          BY <5>2, <5>4
        <5>5. CASE ways[n] \in C
          BY <5>1, <5>5
        <5> QED BY <5>3, <5>4, <5>5
      <4> QED BY <4>1, <3>2, <1>16
    <3> QED BY <3>1, <3>2
  <2> QED BY <2>1, <1>6, <1>17, <1>18, <1>19, <1>21 DEF TakesBest
<1> QED BY <1>20, <1>21

LEMMA Decision ==
  ASSUME IInv, NEW h, NEW time \in Predictions, NEW way \in Predict(h, time)
  PROVE  TakesBest(h, time, way)
<1>1. policy \in SingleInterface \cup Mptcp
  BY DEF IInv, TypeOK
<1>2. policy \in {"useOneInterfaceOnly", "roundRobin", "earliestArrivalFirst",
                  "mptcpFullMeshIFListPolicy", "mptcpFullMeshPolicy", "earliestArrivalFirstMPTCP"}
  BY <1>1 DEF SingleInterface, Mptcp
<1> QED
  BY <1>2, TakesBestOneInterface, TakesBestMesh, TakesBestOfAll, TakesBestCombination DEF IInv

-----------------------------------------------------------------------------
(* Steps *)

LEMMA NextIndex ==
  ASSUME NEW n \in Nat \ {0}, NEW k \in 1 .. n
  PROVE  (k % n) + 1 = IF k = n THEN 1 ELSE k + 1
OBVIOUS

\* The turn passes to the next interface.
LEMMA TurnPasses ==
  ASSUME IInv, NEW way, NextTurn(way), UNCHANGED <<policy, interfaces>>
  PROVE  /\ nextInterfaceId' \in 1 .. Len(interfaces)
         /\ turns' \in [1 .. NumInterfaces -> Nat]
         /\ Given' /\ Rotation'
<1> DEFINE L == Len(interfaces)
           k == nextInterfaceId
<1>0. /\ interfaces \in Seq(1 .. NumInterfaces) /\ L \in Nat /\ k \in 1 .. L
      /\ turns \in [1 .. NumInterfaces -> Nat]
  BY DEF IInv, TypeOK
<1>1. CASE policy # "roundRobin"
  BY <1>0, <1>1 DEF NextTurn, IInv, Given, Rotation, Mptcp
<1>2. CASE policy = "roundRobin"
  <2>1. /\ k' = (k % L) + 1
        /\ turns' = [turns EXCEPT ![interfaces[k]] = @ + 1]
    BY <1>2 DEF NextTurn
  <2>2. k' = (IF k = L THEN 1 ELSE k + 1) /\ L \in Nat \ {0}
    <3>1. L \in Nat \ {0}
      BY <1>0
    <3> QED BY <3>1, <1>0, <2>1, NextIndex
  <2>3. k' \in 1 .. L
    BY <1>0, <2>2
  <2>4. \A j \in 1 .. L : interfaces[j] \in 1 .. NumInterfaces
    BY <1>0, ElementOfSeq, Zenon
  <2>5. turns' \in [1 .. NumInterfaces -> Nat]
    BY <1>0, <2>1, <2>4
  <2>6. \A j \in 1 .. L : interfaces[j] = interfaces[k] => j = k
    <3>1. IsInjective(interfaces) /\ DOMAIN interfaces = 1 .. L
      BY <1>0, <1>2 DEF IInv, Given
    <3> QED BY <3>1, <1>0 DEF IsInjective
  <2>7. PICK n \in Nat : \A j \in 1 .. L : turns[interfaces[j]] = n + (IF j < k THEN 1 ELSE 0)
    BY <1>2 DEF IInv, Rotation
  <2>8. \A j \in 1 .. L : turns'[interfaces[j]] = IF j = k THEN n + 1 ELSE n + (IF j < k THEN 1 ELSE 0)
    <3> SUFFICES ASSUME NEW j \in 1 .. L
                 PROVE  turns'[interfaces[j]] = IF j = k THEN n + 1 ELSE n + (IF j < k THEN 1 ELSE 0)
      OBVIOUS
    <3>1. turns'[interfaces[j]] = IF interfaces[j] = interfaces[k] THEN turns[interfaces[k]] + 1
                                                                  ELSE turns[interfaces[j]]
      BY <1>0, <2>1, <2>4
    <3>2. turns[interfaces[k]] = n
      BY <1>0, <2>7
    <3> QED BY <3>1, <3>2, <2>6, <2>7
  <2>9. \E m \in Nat : \A j \in 1 .. L : turns'[interfaces[j]] = m + (IF j < k' THEN 1 ELSE 0)
    <3>1. CASE k = L
      <4>1. \A j \in 1 .. L : turns'[interfaces[j]] = (n + 1) + (IF j < k' THEN 1 ELSE 0)
        BY <3>1, <1>0, <2>2, <2>8
      <4>2. n + 1 \in Nat
        OBVIOUS
      <4> HIDE DEF L, k
      <4> QED BY <4>1, <4>2
    <3>2. CASE k # L
      <4>1. \A j \in 1 .. L : turns'[interfaces[j]] = n + (IF j < k' THEN 1 ELSE 0)
        BY <3>2, <1>0, <2>2, <2>8
      <4> QED BY <4>1
    <3> QED BY <3>1, <3>2
  <2>10. Given'
    BY <1>2 DEF IInv, Given, Mptcp
  <2> QED BY <2>3, <2>5, <2>9, <2>10, <1>2 DEF Rotation
<1> QED BY <1>1, <1>2

LEMMA ScheduleStep ==
  ASSUME IInv, NEW h \in Hosts, Schedule(h)
  PROVE  IInv'
<1>0. PICK time \in Predictions : \E way \in Predict(h, time) : Execute(way, h) /\ NextTurn(way)
  BY DEF Schedule
<1>1. PICK way \in Predict(h, time) : Execute(way, h) /\ NextTurn(way)
  BY <1>0
<1>2. UNCHANGED <<policy, interfaces>>
  BY DEF Schedule
<1>3. /\ nextInterfaceId' \in 1 .. Len(interfaces)
      /\ turns' \in [1 .. NumInterfaces -> Nat]
      /\ Given' /\ Rotation'
  BY <1>1, <1>2, TurnPasses
<1>4. way \in Ways
  BY <1>1, Decision DEF TakesBest
<1>5. /\ connections \in Seq(Conns) /\ IsInjective(connections)
      /\ connInterfaces \in [Conns -> Seq(1 .. NumInterfaces)]
      /\ host \in [Conns -> Hosts]
      /\ \A c \in ToSet(connections) : c \in Conns /\ connInterfaces[c] # <<>>
  BY KindsOfWays DEF IInv, TypeOK, Open
<1>6. /\ connections' \in Seq(Conns) /\ Open'
      /\ connInterfaces' \in [Conns -> Seq(1 .. NumInterfaces)]
      /\ host' \in [Conns -> Hosts]
  <2>1. CASE way.conn # None
    BY <2>1, <1>1, <1>5 DEF Execute, Open
  <2>2. CASE way.conn = None
    <3>1. PICK c \in Conns \ ToSet(connections) :
             /\ connections' = Append(connections, c)
             /\ connInterfaces' = [connInterfaces EXCEPT ![c] = way.ifaces]
             /\ host' = [host EXCEPT ![c] = h]
      BY <2>2, <1>1 DEF Execute
    <3>2. way.ifaces # <<>> /\ way.ifaces \in SetToAllKPermutations(1 .. NumInterfaces)
      BY <2>2, <1>4, KindsOfWays DEF IInv
    <3>3. way.ifaces \in Seq(1 .. NumInterfaces)
      BY <3>2, AllInterfaces, PermutationsOf
    <3>4. /\ connections' \in Seq(Conns) /\ IsInjective(connections')
          /\ ToSet(connections') = ToSet(connections) \cup {c}
      BY <1>5, <3>1, AppendToInjective
    <3> QED BY <3>1, <3>2, <3>3, <3>4, <1>5 DEF Open
  <2> QED BY <2>1, <2>2
<1>7. TypeOK'
  BY <1>2, <1>3, <1>6 DEF IInv, TypeOK
<1> QED BY <1>3, <1>6, <1>7 DEF IInv

LEMMA CloseStep ==
  ASSUME IInv, NEW c \in Conns, Close(c)
  PROVE  IInv'
<1>1. /\ connections \in Seq(Conns) /\ IsInjective(connections) /\ c \in ToSet(connections)
      /\ connections' = RemoveFirst(connections, c)
  BY DEF IInv, TypeOK, Open, Close
<1>2. /\ connections' \in Seq(Conns) /\ IsInjective(connections')
      /\ ToSet(connections') = ToSet(connections) \ {c}
  BY <1>1, RemoveFirstProperties
<1>3. UNCHANGED <<policy, interfaces, nextInterfaceId, connInterfaces, host, turns>>
  BY DEF Close
<1>4. TypeOK'
  BY <1>2, <1>3 DEF IInv, TypeOK
<1>5. Open'
  BY <1>2, <1>3 DEF IInv, Open
<1>6. Given' /\ Rotation'
  BY <1>3 DEF IInv, Given, Rotation
<1> QED BY <1>4, <1>5, <1>6 DEF IInv

-----------------------------------------------------------------------------
(* Theorems *)

\* roundRobin has decided for the interfaces before its index once more than for the others,
\* and every open connection was made over interfaces and to a host that there are.
THEOREM InvariantHolds == Spec => []IInv
<1>1. ASSUME IInv, [Next]_vars PROVE IInv'
  <2>1. ASSUME NEW h \in Hosts, Schedule(h) PROVE IInv'
    BY <1>1, <2>1, ScheduleStep
  <2>2. ASSUME NEW c \in Conns, Close(c) PROVE IInv'
    BY <1>1, <2>2, CloseStep
  <2>3. CASE UNCHANGED vars
    BY <1>1, <2>3 DEF vars, IInv, TypeOK, Given, Open, Rotation
  <2> QED BY <1>1, <2>1, <2>2, <2>3 DEF Next
<1> QED BY <1>1, InitHolds, PTL DEF Spec

\* policy.py:152-157: roundRobin decides for its interfaces in turn, whatever the decisions are
\* and whichever connections are closed meanwhile: no interface is ever two turns ahead.
THEOREM TakesTurns == Spec => []InTurn
<1>1. ASSUME IInv PROVE InTurn
  <2> SUFFICES ASSUME policy = "roundRobin", NEW i \in DOMAIN turns, NEW j \in DOMAIN turns
               PROVE  turns[i] <= turns[j] + 1
    BY DEF InTurn
  <2>1. PICK n \in Nat : \A k \in 1 .. Len(interfaces) :
           turns[interfaces[k]] = n + (IF k < nextInterfaceId THEN 1 ELSE 0)
    BY <1>1 DEF IInv, Rotation
  <2>2. DOMAIN turns = 1 .. NumInterfaces /\ interfaces \in Seq(1 .. NumInterfaces)
    BY <1>1 DEF IInv, TypeOK
  <2>3. ToSet(interfaces) = 1 .. NumInterfaces
    BY <1>1 DEF IInv, Given
  <2>4. PICK a \in 1 .. Len(interfaces), b \in 1 .. Len(interfaces) : i = interfaces[a] /\ j = interfaces[b]
    BY <2>2, <2>3, ElementsOfList
  <2>5. turns[i] \in {n, n + 1} /\ turns[j] \in {n, n + 1}
    BY <2>1, <2>4
  <2> QED BY <2>5
<1> QED BY <1>1, InvariantHolds, PTL

\* policy.py:134-220: of the connections it may reuse and those it may open, a policy takes one
\* that would finish the transfer first, whatever is predicted.  The order in which sets are
\* tried and the interfaces that are drawn at random do not matter.
THEOREM TakesTheBest == Spec => []BestTaken
<1>1. ASSUME IInv PROVE BestTaken
  BY <1>1, Decision DEF BestTaken, TakesBest
<1> QED BY <1>1, InvariantHolds, PTL

=============================================================================
