--------------------------- MODULE InterfaceProofs ---------------------------
(***************************************************************************)
(* Proofs about the shares of an interface.  While the call runs, the      *)
(* connections it has moved to the satisfied ones and those that wait for  *)
(* their share together need no more than the bandwidth, and the equal     *)
(* share only grows; so nobody envies a connection that was satisfied      *)
(* in an earlier round.  And the loops compute the function Shares.        *)
(***************************************************************************)
EXTENDS Interface, DataLemmas

\* What a call finds and leaves: who wants nothing gets nothing.
IdleGetsNothing ==
  \A c \in Conns : /\ c \notin ToSet(connections) => desiredBw[c] = 0
                   /\ desiredBw[c] = 0 => availableBw[c] = 0

Returned == Used <= Bandwidth /\ NoLocals(connBWB, bwLowSum, bwShare, round, next, wished)

\* What a call knows of the wishes: those that wait for their share want what they wanted
\* when the call began, and whoever wanted something still does.
Wishes ==
  \A c \in Conns : /\ c \in ToSet(connBWB) => desiredBw[c] = wished[c]
                   /\ desiredBw[c] = 0 <=> wished[c] = 0

\* The satisfied ones, and what the loops know about them and the others.
Low == Wanting \ ToSet(connBWB)
Sharing ==
  /\ ToSet(connBWB) \subseteq Wanting
  /\ \A c \in Low : availableBw[c] = wished[c] /\ wished[c] <= bwShare
  /\ bwLowSum = SumFunctionOnSet(wished, Low)
  /\ bwLowSum + bwShare * Len(connBWB) <= Bandwidth

\* Every round but the last moves a connection to the satisfied ones.
RoundsLeft == round + Len(connBWB) <= Len(connections)
Moving == RoundsLeft /\ (round + Len(connBWB) < Len(connections) \/ bwShare = EqualShare)

IInv ==
  /\ TypeOK
  /\ IdleGetsNothing
  /\ pc = "done" => Returned
  /\ pc # "done" => Sharing /\ Wishes
  /\ pc = "while" /\ ~Converged => RoundsLeft
  /\ pc = "for" => Moving

-----------------------------------------------------------------------------
(* Facts about the lists and the shares of a state *)

LEMMA FiniteSets ==
  ASSUME TypeOK
  PROVE  /\ IsFiniteSet(ToSet(connections)) /\ ToSet(connections) \subseteq Conns
         /\ IsFiniteSet(Wanting) /\ IsFiniteSet(Low) /\ IsFiniteSet(ToSet(connBWB))
         /\ Cardinality(ToSet(connBWB)) = Len(connBWB)
<1>0. connections \in Seq(Conns) /\ IsInjective(connections)
  BY DEF TypeOK
<1>1. IsFiniteSet(ToSet(connections)) /\ ToSet(connections) \subseteq Conns
  <2>1. ToSet(connections) \subseteq Conns
    BY <1>0, ElementsOfList
  <2> QED BY <1>0, <2>1, LengthOfInjective
<1>2. Wanting \subseteq ToSet(connections) /\ Low \subseteq ToSet(connections)
  BY DEF Wanting, Low
<1>3. IsFiniteSet(ToSet(connBWB)) /\ Cardinality(ToSet(connBWB)) = Len(connBWB)
  BY LengthOfInjective DEF TypeOK
<1> QED BY <1>1, <1>2, <1>3, FS_Subset

LEMMA NotEmpty ==
  ASSUME TypeOK
  PROVE  /\ Len(connBWB) \in Nat /\ Len(connections) \in Nat
         /\ connBWB # <<>> <=> Len(connBWB) # 0
         /\ connBWB # <<>> <=> ToSet(connBWB) # {}
<1>1. /\ connBWB \in Seq(Conns) /\ Len(connBWB) \in Nat
      /\ connections \in Seq(Conns) /\ Len(connections) \in Nat
  BY DEF TypeOK
<1>2. connBWB # <<>> <=> Len(connBWB) # 0
  BY <1>1
<1>3. \A x : x \in ToSet(connBWB) <=> \E i \in 1 .. Len(connBWB) : connBWB[i] = x
  BY <1>1, ElementsOfList
<1>4. ToSet(connBWB) # {} <=> Len(connBWB) # 0
  <2>1. CASE Len(connBWB) = 0
    BY <1>3, <2>1
  <2>2. CASE Len(connBWB) # 0
    <3>1. 1 \in 1 .. Len(connBWB)
      BY <1>1, <2>2
    <3> QED BY <1>3, <2>2, <3>1
  <2> QED BY <2>1, <2>2
<1> QED BY <1>1, <1>2, <1>4

\* The equal share of the connections that wait for it is the greatest that fits.
LEMMA EqualShareFits ==
  ASSUME TypeOK, Sharing, connBWB # <<>>
  PROVE  /\ EqualShare \in Nat /\ bwShare <= EqualShare
         /\ bwLowSum + EqualShare * Len(connBWB) <= Bandwidth
         /\ Bandwidth < bwLowSum + EqualShare * Len(connBWB) + Len(connBWB)
<1> DEFINE left == Bandwidth - bwLowSum
           n == Len(connBWB)
<1>1. left \in Nat /\ n \in Nat \ {0} /\ bwShare \in Int /\ bwShare * n <= left
  BY NotEmpty, BandwidthAssumption DEF TypeOK, Sharing
<1>2. EqualShare = left \div n /\ bwLowSum \in Int /\ Bandwidth \in Int
  BY BandwidthAssumption DEF EqualShare, TypeOK
<1> HIDE DEF left, n
<1>3. /\ EqualShare \in Nat /\ EqualShare * n <= left /\ left < EqualShare * n + n
      /\ bwShare <= EqualShare
  BY <1>1, <1>2, Division, DivisionIsGreatest
<1>4. EqualShare * n \in Int
  BY <1>1, <1>3
<1> QED BY <1>1, <1>2, <1>3, <1>4 DEF left, n

\* In the middle of a call too, who wants nothing has nothing.
LEMMA IdleInCall ==
  ASSUME IdleGetsNothing, Wishes
  PROVE  \A c \in Conns : wished[c] = 0 => availableBw[c] = 0
BY DEF IdleGetsNothing, Wishes

-----------------------------------------------------------------------------
(* The invariant, action by action *)

LEMMA InvInit == Init => IInv
<1> SUFFICES ASSUME Init PROVE IInv
  OBVIOUS
<1> USE DEF Init, NoLocals
<1>1. /\ connections = <<>> /\ connBWB = <<>> /\ pc = "done"
      /\ ToSet(<<>>) = {} /\ IsInjective(<<>>) /\ <<>> \in Seq(Conns)
  BY DEF ToSet, IsInjective
<1>2. TypeOK
  BY <1>1, BandwidthAssumption, MaxDesiredAssumption DEF TypeOK
<1>3. Used = 0
  BY <1>1, SumOfNothing DEF Used
<1>4. Returned
  BY <1>1, <1>3, BandwidthAssumption DEF Returned
<1> QED BY <1>1, <1>2, <1>4 DEF IInv, IdleGetsNothing

LEMMA InvAddConnection ==
  ASSUME IInv, NEW c \in Conns, AddConnection(c)
  PROVE  IInv'
<1> USE DEF IInv, AddConnection
<1>1. /\ pc = "done" /\ pc' = "done" /\ connections' = Append(connections, c)
      /\ UNCHANGED <<desiredBw, availableBw>> /\ UNCHANGED locals
  OBVIOUS
<1>2. /\ connections' \in Seq(Conns) /\ IsInjective(connections')
      /\ ToSet(connections') = ToSet(connections) \cup {c}
  BY AppendToInjective DEF TypeOK
<1>3. TypeOK'
  BY <1>1, <1>2 DEF TypeOK, locals
<1>4. IdleGetsNothing'
  BY <1>1, <1>2 DEF IdleGetsNothing
<1>5. Used' = availableBw[c] + Used
  <2>1. IsFiniteSet(ToSet(connections)) /\ ToSet(connections) \subseteq Conns
    BY FiniteSets
  <2>2. \A d \in Conns : availableBw[d] \in Int
    BY DEF TypeOK
  <2> QED BY <1>1, <1>2, <2>1, <2>2, SumWith DEF Used
<1>6. availableBw[c] = 0 /\ Used <= Bandwidth
  BY <1>1 DEF IdleGetsNothing, Returned
<1>7. Used \in Int
  <2>1. IsFiniteSet(ToSet(connections)) /\ \A d \in ToSet(connections) : availableBw[d] \in Int
    BY FiniteSets DEF TypeOK
  <2> QED BY <2>1, SumType DEF Used
<1>8. Used' <= Bandwidth
  BY <1>5, <1>6, <1>7
<1> QED BY <1>1, <1>3, <1>4, <1>8 DEF Returned, locals, NoLocals

LEMMA InvRemoveConnection ==
  ASSUME IInv, NEW c \in Conns, RemoveConnection(c)
  PROVE  IInv'
<1> USE DEF IInv, RemoveConnection
<1>1. /\ pc = "done" /\ pc' = "done" /\ connections' = RemoveFirst(connections, c)
      /\ c \in ToSet(connections) /\ desiredBw[c] = 0
      /\ UNCHANGED <<desiredBw, availableBw>> /\ UNCHANGED locals
  OBVIOUS
<1>2. /\ connections' \in Seq(Conns) /\ IsInjective(connections')
      /\ ToSet(connections') = ToSet(connections) \ {c}
  BY <1>1, RemoveFirstProperties DEF TypeOK
<1>3. TypeOK'
  <2>1. connBWB = <<>> /\ ToSet(<<>>) = {}
    BY <1>1 DEF Returned, NoLocals, ToSet
  <2> QED BY <1>1, <1>2, <2>1 DEF TypeOK, locals
<1>4. IdleGetsNothing'
  BY <1>1, <1>2 DEF IdleGetsNothing
<1>5. Used = availableBw[c] + Used'
  <2>1. IsFiniteSet(ToSet(connections)) /\ ToSet(connections) \subseteq Conns
    BY FiniteSets
  <2>2. \A d \in Conns : availableBw[d] \in Int
    BY DEF TypeOK
  <2> QED BY <1>1, <1>2, <2>1, <2>2, SumWithout DEF Used
<1>6. availableBw[c] = 0 /\ Used <= Bandwidth
  BY <1>1 DEF IdleGetsNothing, Returned
<1>7. Used' \in Int
  <2>1. IsFiniteSet(ToSet(connections')) /\ \A d \in ToSet(connections') : availableBw[d] \in Int
    BY <1>2, FiniteSets, FS_RemoveElement DEF TypeOK
  <2> QED BY <1>1, <2>1, SumType DEF Used
<1>8. Used' <= Bandwidth
  BY <1>5, <1>6, <1>7
<1> QED BY <1>1, <1>3, <1>4, <1>8 DEF Returned, locals, NoLocals

\* The call begins: nobody is satisfied yet.
LEMMA InvUpdateDesiredBw ==
  ASSUME IInv, NEW c \in Conns, NEW bw \in 0 .. MaxDesired, UpdateDesiredBw(c, bw)
  PROVE  IInv'
<1> USE DEF IInv, UpdateDesiredBw
<1> DEFINE A == {d \in Conns : desiredBw'[d] > 0}
<1>1. /\ connections \in Seq(Conns) /\ IsInjective(connections) /\ connections' = connections
      /\ c \in ToSet(connections) /\ connBWB' = Filter(connections, A)
      /\ pc = "done" /\ pc' = "while"
      /\ bwLowSum' = 0 /\ bwShare' = 0 /\ round' = 0 /\ next' = 1 /\ wished' = desiredBw'
  BY DEF TypeOK, Returned, NoLocals
<1>2. /\ connBWB' \in Seq(Conns) /\ IsInjective(connBWB')
      /\ ToSet(connBWB') = ToSet(connections) \cap A
      /\ Len(connBWB') <= Len(connections) /\ Len(connBWB') \in Nat /\ Len(connections) \in Nat
  <2> HIDE DEF A, UpdateDesiredBw, IInv
  <2>1. LET s == Filter(connections, A)
        IN  /\ s \in Seq(Conns) /\ IsInjective(s)
            /\ ToSet(s) = ToSet(connections) \cap A /\ Len(s) <= Len(connections)
    BY <1>1, FilterProperties
  <2> QED BY <1>1, <2>1
<1>3. /\ desiredBw' \in [Conns -> 0 .. MaxDesired]
      /\ \A d \in Conns : d # c => desiredBw'[d] = desiredBw[d]
  BY DEF TypeOK
<1>4. availableBw' \in [Conns -> Nat]
      /\ \A d \in Conns : availableBw'[d] = IF d \in ToSet(connections) /\ desiredBw'[d] = 0
                                              THEN 0 ELSE availableBw[d]
  BY DEF SetIdle, TypeOK
<1>5. TypeOK'
  BY <1>1, <1>2, <1>3, <1>4, BandwidthAssumption DEF TypeOK
<1>6. IdleGetsNothing'
  BY <1>1, <1>3, <1>4 DEF IdleGetsNothing
<1>7. ToSet(connBWB') = Wanting' /\ Low' = {}
  <2>1. ToSet(connections) \subseteq Conns
    BY FiniteSets
  <2> QED BY <1>1, <1>2, <2>1 DEF Wanting, Low
<1>8. Sharing'
  BY <1>1, <1>2, <1>7, SumOfNothing, BandwidthAssumption DEF Sharing
<1>9. RoundsLeft'
  BY <1>1, <1>2 DEF RoundsLeft
<1>10. Wishes'
  BY <1>1 DEF Wishes
<1> QED BY <1>1, <1>5, <1>6, <1>8, <1>9, <1>10

\* The equal share may grow, and the lists stay as they are.
LEMMA InvBeginRound ==
  ASSUME IInv, BeginRound
  PROVE  IInv'
<1> USE DEF IInv, BeginRound
<1>1. /\ pc = "while" /\ ~Converged /\ pc' = "for" /\ bwShare' = EqualShare /\ next' = 1
      /\ UNCHANGED <<connections, desiredBw, availableBw, connBWB, bwLowSum, round, wished>>
  OBVIOUS
<1>2. connBWB # <<>>
  BY <1>1 DEF Converged
<1>3. /\ EqualShare \in Nat /\ bwShare <= EqualShare
      /\ bwLowSum + EqualShare * Len(connBWB) <= Bandwidth
  BY <1>1, <1>2, EqualShareFits
<1>4. TypeOK'
  BY <1>1, <1>3 DEF TypeOK
<1>5. IdleGetsNothing'
  BY <1>1 DEF IdleGetsNothing
<1>6. Wanting' = Wanting /\ Low' = Low /\ EqualShare' = EqualShare
  BY <1>1 DEF Wanting, Low, EqualShare
<1>7. Sharing'
  <2>1. \A c \in Low : availableBw[c] = wished[c] /\ wished[c] <= bwShare
    BY <1>1 DEF Sharing
  <2>2. \A c \in Low : wished[c] \in Int
    BY FiniteSets DEF Low, Wanting, TypeOK
  <2>3. bwShare \in Int
    BY DEF TypeOK
  <2>4. \A c \in Low : availableBw[c] = wished[c] /\ wished[c] <= EqualShare
    BY <2>1, <2>2, <2>3, <1>3
  <2> QED BY <1>1, <1>3, <1>6, <2>4 DEF Sharing
<1>8. Moving'
  <2>1. bwShare' = EqualShare'
    BY <1>1, <1>6
  <2> QED BY <1>1, <2>1 DEF Moving, RoundsLeft
<1>9. Wishes'
  BY <1>1 DEF Wishes
<1> QED BY <1>1, <1>4, <1>5, <1>7, <1>8, <1>9

LEMMA InvKeep ==
  ASSUME IInv, Keep
  PROVE  IInv'
<1> USE DEF IInv, Keep
<1>1. TypeOK'
  BY DEF TypeOK
<1>2. IdleGetsNothing' /\ Sharing' /\ Wishes'
  BY DEF IdleGetsNothing, Sharing, Low, Wanting, Wishes
<1>3. EqualShare' = EqualShare
  BY DEF EqualShare
<1>4. Moving'
  BY <1>3 DEF Moving, RoundsLeft
<1> QED BY <1>1, <1>2, <1>4

LEMMA InvMoveToLow ==
  ASSUME IInv, MoveToLow
  PROVE  IInv'
<1> USE DEF IInv, MoveToLow
<1> DEFINE c == connBWB[next]
<1>1. Sharing /\ Wishes
  OBVIOUS
<1>2. connBWB \in Seq(Conns) /\ IsInjective(connBWB) /\ c \in ToSet(connBWB) /\ Len(connBWB) \in Nat
  <2>1. next \in 1 .. Len(connBWB)
    BY DEF TypeOK
  <2> QED BY <2>1, ElementsOfList DEF TypeOK
<1>3. c \in Wanting /\ c \in Conns /\ c \notin Low
  BY <1>1, <1>2, FiniteSets DEF Sharing, Low, Wanting
<1>4. /\ pc = "for" /\ pc' = "for" /\ wished[c] <= bwShare /\ desiredBw[c] = wished[c]
      /\ connBWB' = RemoveFirst(connBWB, c)
      /\ bwLowSum' = bwLowSum + wished[c]
      /\ availableBw' = [availableBw EXCEPT ![c] = wished[c]]
      /\ desiredBw' \in Raised({c})
      /\ next' = next + 1
      /\ UNCHANGED <<connections, bwShare, round, wished>>
  BY <1>1, <1>2, <1>3 DEF Satisfied, Wishes
<1> HIDE DEF c
<1>5. /\ desiredBw' \in [Conns -> 0 .. MaxDesired] /\ desiredBw'[c] >= desiredBw[c]
      /\ \A d \in Conns : d # c => desiredBw'[d] = desiredBw[d]
  BY <1>4, <1>3 DEF Raised
<1>6. /\ connBWB' \in Seq(Conns) /\ IsInjective(connBWB') /\ Len(connBWB') = Len(connBWB) - 1
      /\ ToSet(connBWB') = ToSet(connBWB) \ {c}
  BY <1>4, <1>2, RemoveFirstProperties
<1>7. Len(connBWB) # 0
  BY <1>2, NotEmpty
<1>8. /\ wished[c] \in Nat /\ bwShare \in Nat /\ bwLowSum \in Nat /\ Bandwidth \in Nat
      /\ wished[c] <= bwShare /\ wished[c] > 0
  BY <1>4, <1>3, BandwidthAssumption, MaxDesiredAssumption DEF TypeOK, Wanting
<1>9. bwLowSum' + bwShare * Len(connBWB') <= Bandwidth /\ bwLowSum' \in 0 .. Bandwidth
  <2> DEFINE n == Len(connBWB)
  <2>1. bwLowSum + bwShare * n <= Bandwidth /\ n \in Nat \ {0}
    BY <1>4, <1>2, <1>7 DEF Sharing
  <2> HIDE DEF n
  <2>2. bwShare * (n - 1) = bwShare * n - bwShare /\ bwShare * n \in Int /\ bwShare * (n - 1) >= 0
    <3>1. \A b \in Nat : \A k \in Nat : b * k \in Nat /\ b * k >= 0
      OBVIOUS
    <3>2. \A b \in Nat : \A k \in Nat \ {0} : b * (k - 1) = b * k - b
      OBVIOUS
    <3>3. n \in Nat /\ n - 1 \in Nat /\ bwShare \in Nat
      BY <2>1, <1>8
    <3>4. bwShare * n \in Nat /\ bwShare * (n - 1) \in Nat /\ bwShare * (n - 1) >= 0
      BY <3>1, <3>3
    <3> QED BY <2>1, <3>2, <3>3, <3>4
  <2>3. bwLowSum + wished[c] + bwShare * (n - 1) <= Bandwidth
    BY <2>1, <2>2, <1>8
  <2>4. bwLowSum' = bwLowSum + wished[c] /\ Len(connBWB') = n - 1 /\ bwShare' = bwShare
    BY <1>4, <1>6 DEF n
  <2>5. bwLowSum' + bwShare * Len(connBWB') <= Bandwidth
    BY <2>3, <2>4
  <2>6. bwLowSum' \in Int /\ 0 <= bwLowSum' /\ bwLowSum' <= Bandwidth
    <3> DEFINE rest == bwShare * (n - 1)
    <3>1. rest \in Int /\ rest >= 0 /\ bwLowSum' + rest <= Bandwidth
      BY <2>1, <2>2, <2>3, <2>4, <1>8
    <3>2. bwLowSum' = bwLowSum + wished[c]
      BY <2>4
    <3>3. bwLowSum' \in Nat
      BY <3>2, <1>8
    <3> HIDE DEF rest
    <3> QED BY <3>1, <3>3, <1>8
  <2> QED BY <2>5, <2>6, <1>8
<1>10. TypeOK'
  <2>1. ToSet(connBWB') \subseteq ToSet(connections)
    BY <1>6 DEF TypeOK
  <2>2. availableBw' \in [Conns -> Nat]
    BY <1>4, <1>8 DEF TypeOK
  <2>3. next' \in Nat \ {0}
    BY <1>4 DEF TypeOK
  <2> QED BY <1>4, <1>6, <1>9, <1>5, <2>1, <2>2, <2>3 DEF TypeOK
<1>11. IdleGetsNothing'
  <2>1. \A d \in Conns : d # c => desiredBw'[d] = desiredBw[d] /\ availableBw'[d] = availableBw[d]
    BY <1>4, <1>5 DEF TypeOK
  <2>2. desiredBw'[c] # 0 /\ c \in ToSet(connections)
    <3>1. desiredBw'[c] \in Int
      BY <1>3, <1>5, MaxDesiredAssumption
    <3> QED BY <3>1, <1>3, <1>4, <1>5, <1>8 DEF Wanting
  <2>3. connections' = connections /\ IdleGetsNothing
    BY <1>4
  <2> QED BY <2>1, <2>2, <2>3 DEF IdleGetsNothing
<1>12. Wanting' = Wanting /\ Low' = Low \cup {c}
  BY <1>4, <1>2, <1>3, <1>6 DEF Wanting, Low
<1>13. Sharing'
  <2>1. ToSet(connBWB') \subseteq Wanting'
    BY <1>4, <1>6, <1>12 DEF Sharing
  <2>2. ASSUME NEW d \in Low'
        PROVE  availableBw'[d] = wished'[d] /\ wished'[d] <= bwShare'
    <3>1. d \in Conns
      BY <2>2, <1>3, <1>12, FiniteSets DEF Low, Wanting
    <3>2. CASE d = c
      BY <3>1, <3>2, <1>4, <1>8 DEF TypeOK
    <3>3. CASE d # c
      BY <3>1, <3>3, <1>4, <1>12 DEF TypeOK, Sharing
    <3> QED BY <3>2, <3>3
  <2>3. bwLowSum' = SumFunctionOnSet(wished', Low')
    <3>1. IsFiniteSet(Low) /\ Low \subseteq Conns
      BY FiniteSets DEF Low, Wanting
    <3>2. \A d \in Conns : wished[d] \in Int
      BY DEF TypeOK
    <3>3. SumFunctionOnSet(wished, Low \cup {c}) = wished[c] + SumFunctionOnSet(wished, Low)
      BY <3>1, <3>2, <1>3, SumWith
    <3>4. bwLowSum = SumFunctionOnSet(wished, Low)
      BY <1>4 DEF Sharing
    <3> QED BY <3>3, <3>4, <1>4, <1>8, <1>12
  <2> QED BY <2>1, <2>2, <2>3, <1>4, <1>9 DEF Sharing
<1>14. Moving'
  <2>1. round + Len(connBWB) <= Len(connections) /\ round \in Nat /\ Len(connections) \in Nat
    BY <1>4, NotEmpty DEF Moving, RoundsLeft, TypeOK
  <2> QED BY <2>1, <1>4, <1>2, <1>6 DEF Moving, RoundsLeft
<1>15. Wishes'
  BY <1>1, <1>4, <1>3, <1>6, <1>8, <1>5 DEF Wishes
<1> QED BY <1>4, <1>10, <1>11, <1>13, <1>14, <1>15

\* If the next round begins, a connection has been moved in this one.
LEMMA InvEndRound ==
  ASSUME IInv, EndRound
  PROVE  IInv'
<1> USE DEF IInv, EndRound
<1>1. /\ pc = "for" /\ pc' = "while" /\ round' = round + 1
      /\ UNCHANGED <<connections, desiredBw, availableBw, connBWB, bwLowSum, bwShare, next, wished>>
  OBVIOUS
<1>2. TypeOK'
  BY <1>1 DEF TypeOK
<1>3. IdleGetsNothing' /\ Sharing' /\ Wishes'
  BY <1>1 DEF IdleGetsNothing, Sharing, Low, Wanting, Wishes
<1>4. ~Converged' => RoundsLeft'
  <2>1. Converged' <=> Converged
    BY <1>1 DEF Converged, EqualShare
  <2>2. SUFFICES ASSUME ~Converged PROVE RoundsLeft'
    BY <2>1
  <2>3. round + Len(connBWB) < Len(connections)
    BY <1>1, <2>2 DEF Moving, Converged
  <2>4. round \in Nat /\ Len(connBWB) \in Nat /\ Len(connections) \in Nat
    BY NotEmpty DEF TypeOK
  <2> QED BY <1>1, <2>3, <2>4 DEF RoundsLeft
<1> QED BY <1>1, <1>2, <1>3, <1>4

\* What is shared out in the end.
LEMMA UsedAfter ==
  ASSUME IInv, ShareOut
  PROVE  /\ availableBw' \in [Conns -> Nat]
         /\ \A c \in ToSet(connBWB) : availableBw'[c] = bwShare
         /\ \A c \in Conns \ ToSet(connBWB) : availableBw'[c] = availableBw[c]
         /\ Used' = bwLowSum + bwShare * Len(connBWB)
<1> USE DEF IInv, ShareOut
<1>1. /\ pc = "while" /\ connections' = connections
      /\ availableBw' = [c \in Conns |-> IF c \in ToSet(connBWB) THEN bwShare ELSE availableBw[c]]
  OBVIOUS
<1>2. /\ ToSet(connBWB) \subseteq Wanting /\ Wanting \subseteq ToSet(connections)
      /\ ToSet(connections) \subseteq Conns
  BY <1>1, FiniteSets DEF Sharing, Wanting
<1>3. /\ availableBw' \in [Conns -> Nat]
      /\ \A c \in ToSet(connBWB) : availableBw'[c] = bwShare
      /\ \A c \in Conns \ ToSet(connBWB) : availableBw'[c] = availableBw[c]
  BY <1>1, <1>2 DEF TypeOK
<1> DEFINE Given(S) == SumFunctionOnSet(availableBw', S)
           Idle == ToSet(connections) \ Wanting
<1>4. /\ IsFiniteSet(ToSet(connections)) /\ IsFiniteSet(Wanting) /\ IsFiniteSet(Low)
      /\ IsFiniteSet(ToSet(connBWB)) /\ Cardinality(ToSet(connBWB)) = Len(connBWB)
      /\ IsFiniteSet(Idle) /\ Cardinality(Idle) \in Nat
  BY FiniteSets, FS_Difference, FS_CardinalityType
<1>5. \A c \in Conns : availableBw'[c] \in Int
  BY <1>3
<1>6. Given(Idle) = 0
  <2>1. \A c \in Idle : availableBw'[c] = 0
    BY <1>1, <1>2, <1>3, IdleInCall DEF Wanting, TypeOK
  <2>2. Given(Idle) = 0 * Cardinality(Idle)
    BY <1>4, <2>1, SumOfConstant
  <2> QED BY <1>4, <2>2
<1>7. Given(Low) = bwLowSum
  <2>1. \A c \in Low : availableBw'[c] = wished[c]
    BY <1>1, <1>2, <1>3 DEF Sharing, Low
  <2>2. Given(Low) = SumFunctionOnSet(wished, Low)
    BY <1>4, <2>1, SumOfEqual
  <2> QED BY <1>1, <2>2 DEF Sharing
<1>8. Given(ToSet(connBWB)) = bwShare * Len(connBWB)
  <2>1. bwShare \in Int
    BY DEF TypeOK
  <2> QED BY <1>3, <1>4, <2>1, SumOfConstant
<1>9. Given(Wanting) = Given(Low) + Given(ToSet(connBWB))
  <2>1. Wanting = Low \cup ToSet(connBWB) /\ Low \cap ToSet(connBWB) = {}
    BY <1>2 DEF Low
  <2>2. \A c \in Low \cup ToSet(connBWB) : availableBw'[c] \in Int
    BY <2>1, <1>2, <1>5
  <2> QED BY <1>4, <2>1, <2>2, SumOfUnion
<1>10. Given(ToSet(connections)) = Given(Idle) + Given(Wanting)
  <2>1. ToSet(connections) = Idle \cup Wanting /\ Idle \cap Wanting = {}
    BY <1>2
  <2>2. \A c \in Idle \cup Wanting : availableBw'[c] \in Int
    BY <2>1, <1>2, <1>5
  <2>3. IsFiniteSet(Idle) /\ IsFiniteSet(Wanting)
    BY <1>4
  <2> HIDE DEF Idle
  <2> QED BY <2>1, <2>2, <2>3, SumOfUnion, ZenonT(60)
<1>11. Used' = Given(ToSet(connections))
  BY <1>1 DEF Used
<1>12. bwLowSum \in Int /\ bwShare * Len(connBWB) \in Int
  BY NotEmpty DEF TypeOK
<1> HIDE DEF Given, Idle
<1>13. Used' = bwLowSum + bwShare * Len(connBWB)
  BY <1>6, <1>7, <1>8, <1>9, <1>10, <1>11, <1>12
<1> QED BY <1>3, <1>13

LEMMA InvShareOut ==
  ASSUME IInv, ShareOut
  PROVE  IInv'
<1>1. /\ pc = "while" /\ pc' = "done" /\ UNCHANGED connections
      /\ desiredBw' \in Raised(ToSet(connBWB))
      /\ NoLocals(connBWB', bwLowSum', bwShare', round', next', wished')
  BY DEF ShareOut
<1>2. Sharing /\ Wishes /\ TypeOK /\ IdleGetsNothing
  BY <1>1 DEF IInv
<1>3. Used' <= Bandwidth
  BY <1>2, UsedAfter DEF Sharing
<1>4. TypeOK'
  <2>1. ToSet(<<>>) = {} /\ IsInjective(<<>>) /\ <<>> \in Seq(Conns)
    BY DEF ToSet, IsInjective
  <2>2. availableBw' \in [Conns -> Nat] /\ desiredBw' \in [Conns -> 0 .. MaxDesired]
    BY <1>1, UsedAfter DEF Raised
  <2> QED BY <1>1, <1>2, <2>1, <2>2, BandwidthAssumption, MaxDesiredAssumption DEF TypeOK, NoLocals
<1>5. IdleGetsNothing'
  <2>1. \A c \in Conns : c \in ToSet(connBWB)
                          => /\ desiredBw[c] # 0 /\ desiredBw'[c] >= desiredBw[c]
                             /\ c \in ToSet(connections)
    BY <1>1, <1>2, MaxDesiredAssumption DEF Sharing, Wanting, Wishes, Raised, TypeOK
  <2>2. \A c \in Conns : c \in ToSet(connBWB) => desiredBw'[c] # 0
    <3>1. \A c \in Conns : desiredBw[c] \in Nat /\ desiredBw'[c] \in Int
      BY <1>1, <1>2, MaxDesiredAssumption DEF Raised, TypeOK
    <3> QED BY <2>1, <3>1
  <2>3. \A c \in Conns : c \in ToSet(connBWB) \/ (/\ availableBw'[c] = availableBw[c]
                                                  /\ desiredBw'[c] = desiredBw[c])
    BY <1>1, UsedAfter DEF Raised
  <2> QED BY <1>1, <1>2, <2>1, <2>2, <2>3 DEF IdleGetsNothing
<1> QED BY <1>1, <1>3, <1>4, <1>5 DEF IInv, Returned

LEMMA InvNext == IInv /\ [Next]_vars => IInv'
<1> SUFFICES ASSUME IInv, [Next]_vars PROVE IInv'
  OBVIOUS
<1>1. ASSUME NEW c \in Conns, AddConnection(c) PROVE IInv'
  BY <1>1, InvAddConnection
<1>2. ASSUME NEW c \in Conns, RemoveConnection(c) PROVE IInv'
  BY <1>2, InvRemoveConnection
<1>3. ASSUME NEW c \in Conns, NEW bw \in 0 .. MaxDesired, UpdateDesiredBw(c, bw) PROVE IInv'
  BY <1>3, InvUpdateDesiredBw
<1>4. CASE UpdateConnectionBwShare
  BY <1>4, InvBeginRound, InvKeep, InvMoveToLow, InvEndRound, InvShareOut
     DEF UpdateConnectionBwShare
<1>5. CASE UNCHANGED vars
  BY <1>5 DEF vars, locals, IInv, TypeOK, IdleGetsNothing, Returned, Used, NoLocals, Sharing, Low,
              Wanting, Wishes, Converged, EqualShare, RoundsLeft, Moving
<1> QED BY <1>1, <1>2, <1>3, <1>4, <1>5 DEF Next

-----------------------------------------------------------------------------
(* Theorems *)

\* The satisfied connections and the equal share of the others fit into the bandwidth in the
\* middle of the loops of updateConnectionBwShare, and there is a round left for each that waits.
THEOREM InvariantHolds == Spec => []IInv
<1> QED BY InvInit, InvNext, PTL DEF Spec

\* The variables keep their types: what the satisfied connections need never exceeds
\* the bandwidth (interface.py:119).
THEOREM TypeCorrect == Spec => []TypeOK
<1>1. IInv => TypeOK
  BY DEF IInv
<1> QED BY <1>1, InvariantHolds, PTL

\* After a call the connections have no more than the bandwidth of the interface, for
\* any number of connections that come, go and change what they want.
THEOREM CapacityHolds == Spec => []CapacityRespected
<1>1. IInv => CapacityRespected
  BY DEF IInv, Returned, CapacityRespected
<1> QED BY <1>1, InvariantHolds, PTL

\* The assertion of the while loop (interface.py:107) never fails.
THEOREM RoundsAreBounded == Spec => []RoundsBounded
<1>1. IInv => RoundsBounded
  <2> SUFFICES ASSUME IInv, pc = "while", ~Converged PROVE round < Len(connections)
    BY DEF RoundsBounded
  <2>1. RoundsLeft /\ round \in Nat /\ Len(connBWB) # 0
    BY NotEmpty DEF IInv, TypeOK, Converged
  <2> QED BY <2>1, NotEmpty DEF IInv, RoundsLeft
<1> QED BY <1>1, InvariantHolds, PTL

\* A call returns with the equal share for those that still wait for theirs, and only
\* they can have less than they want.
LEMMA ShortOnesWait ==
  ASSUME IInv, [Next]_vars, Returns
  PROVE  /\ ShareOut /\ Converged /\ Sharing /\ Wishes /\ UNCHANGED connections
         /\ Short \subseteq ToSet(connBWB)
<1>1. pc = "while" /\ pc' = "done"
  BY DEF Returns
<1>2. ShareOut
  <2> USE <1>1
  <2>1. ~UNCHANGED vars
    BY DEF vars
  <2>2. ASSUME NEW c \in Conns PROVE ~AddConnection(c) /\ ~RemoveConnection(c)
    BY DEF AddConnection, RemoveConnection
  <2>3. ASSUME NEW c \in Conns, NEW bw \in 0 .. MaxDesired
        PROVE  ~UpdateDesiredBw(c, bw)
    BY DEF UpdateDesiredBw
  <2>4. ~BeginRound /\ ~Keep /\ ~MoveToLow /\ ~EndRound
    BY DEF BeginRound, Keep, MoveToLow, EndRound
  <2> QED BY <2>1, <2>2, <2>3, <2>4 DEF Next, UpdateConnectionBwShare
<1>3. Sharing /\ Wishes /\ TypeOK /\ Converged /\ UNCHANGED connections
  BY <1>1, <1>2 DEF IInv, ShareOut
<1>4. ASSUME NEW c \in Short, c \notin ToSet(connBWB) PROVE FALSE
  <2>1. c \in Low /\ c \in Conns /\ availableBw'[c] < wished[c]
    BY <1>3, <1>4, FiniteSets DEF Short, Low, Wanting
  <2>2. availableBw'[c] = wished[c] /\ wished[c] \in Int
    BY <1>2, <1>3, <1>4, <2>1, UsedAfter DEF Sharing, TypeOK
  <2> QED BY <2>1, <2>2
<1> QED BY <1>2, <1>3, <1>4

\* Nobody who gets less than it wants has less than another.
THEOREM NobodyEnvies == Spec => NoEnvy
<1>1. ASSUME IInv, [Next]_vars, Returns, NEW c \in Short, NEW d \in ToSet(connections)
      PROVE  availableBw'[d] <= availableBw'[c]
  <2>1. /\ ShareOut /\ Sharing /\ Wishes /\ TypeOK /\ IdleGetsNothing
        /\ c \in ToSet(connBWB) /\ d \in Conns
    BY <1>1, ShortOnesWait, FiniteSets DEF IInv
  <2>2. availableBw'[c] = bwShare /\ bwShare \in Nat
    BY <1>1, <2>1, UsedAfter DEF TypeOK
  <2>3. CASE d \in ToSet(connBWB)
    BY <1>1, <2>1, <2>2, <2>3, UsedAfter
  <2>4. CASE d \in Low
    <3>1. availableBw'[d] = availableBw[d]
      BY <1>1, <2>1, <2>4, UsedAfter DEF Low
    <3>2. availableBw[d] <= bwShare
      BY <2>1, <2>4 DEF Sharing
    <3> QED BY <2>2, <3>1, <3>2
  <2>5. CASE d \notin Low /\ d \notin ToSet(connBWB)
    <3>1. wished[d] = 0
      BY <2>1, <2>5 DEF Low, Wanting, TypeOK
    <3>2. availableBw'[d] = 0
      BY <1>1, <2>1, <2>5, <3>1, UsedAfter, IdleInCall
    <3> QED BY <2>2, <3>2
  <2> QED BY <2>3, <2>4, <2>5
<1>2. IInv /\ [Next]_vars
      => [Returns => \A c \in Short, d \in ToSet(connections) :
                       availableBw'[d] <= availableBw'[c]]_vars
  BY <1>1
<1> QED BY <1>2, InvariantHolds, PTL DEF Spec, NoEnvy

\* While somebody gets less than it wants, less than a byte per second for each
\* connection that wants any is left over.
THEOREM NothingIsWasted == Spec => WorkConserving
<1>1. ASSUME IInv, [Next]_vars, Returns, Short # {}
      PROVE  Bandwidth - Used' < Cardinality(Wanting)
  <2>1. ShareOut /\ Converged /\ Sharing /\ TypeOK /\ ToSet(connBWB) # {}
    BY <1>1, ShortOnesWait DEF IInv
  <2>2. connBWB # <<>> /\ bwShare = EqualShare
    BY <2>1, NotEmpty DEF Converged
  <2>3. Used' = bwLowSum + EqualShare * Len(connBWB)
    BY <1>1, <2>1, <2>2, UsedAfter
  <2>4. Bandwidth < bwLowSum + EqualShare * Len(connBWB) + Len(connBWB)
    BY <2>1, <2>2, EqualShareFits
  <2>5. Len(connBWB) <= Cardinality(Wanting)
    <3>1. IsFiniteSet(Wanting) /\ ToSet(connBWB) \subseteq Wanting
          /\ Cardinality(ToSet(connBWB)) = Len(connBWB)
      BY <2>1, FiniteSets DEF Sharing
    <3> QED BY <3>1, FS_Subset
  <2>6. /\ Len(connBWB) \in Nat /\ Cardinality(Wanting) \in Nat /\ Bandwidth \in Nat
        /\ bwLowSum + EqualShare * Len(connBWB) \in Int
    BY <2>1, <2>2, FiniteSets, FS_CardinalityType, NotEmpty, BandwidthAssumption, EqualShareFits
       DEF TypeOK
  <2> QED BY <2>3, <2>4, <2>5, <2>6
<1>2. IInv /\ [Next]_vars
      => [Returns /\ Short # {} => Bandwidth - Used' < Cardinality(Wanting)]_vars
  BY <1>1
<1> QED BY <1>2, InvariantHolds, PTL DEF Spec, WorkConserving

-----------------------------------------------------------------------------
(* The loops compute Shares.  The for loop walks over the list s while it removes elements *)
(* from it: m says which ones, and g[p] is what is left of the first p elements.           *)

Walks(s, m, g, share) ==
  /\ MovesUpTo(m, s, share, wished)
  /\ FiltersUpTo(g, s, ToSet(s) \ {s[j] : j \in {k \in 1 .. Len(s) : m[k]}}, Conns)

\* Element by element.
LeftOver(s, m, g) ==
  \A k \in 1 .. Len(s) : g[k] = IF m[k] THEN g[k - 1] ELSE Append(g[k - 1], s[k])

LEMMA WalkSteps ==
  ASSUME NEW s \in Seq(Conns), IsInjective(s), NEW m, NEW g, NEW share, Walks(s, m, g, share)
  PROVE  /\ m[0] = FALSE /\ g[0] = <<>> /\ \A k \in 0 .. Len(s) : g[k] \in Seq(Conns)
         /\ \A k \in 1 .. Len(s) : m[k] = (wished[s[k]] <= share /\ ~m[k - 1])
         /\ LeftOver(s, m, g)
<1> DEFINE A == ToSet(s) \ {s[j] : j \in {k \in 1 .. Len(s) : m[k]}}
<1>1. \A k \in 1 .. Len(s) : s[k] \in A <=> ~m[k]
  <2> SUFFICES ASSUME NEW k \in 1 .. Len(s) PROVE s[k] \in A <=> ~m[k]
    OBVIOUS
  <2>1. DOMAIN s = 1 .. Len(s)
    OBVIOUS
  <2>2. \A j \in 1 .. Len(s) : s[j] = s[k] => j = k
    BY <2>1 DEF IsInjective
  <2>3. s[k] \in ToSet(s)
    BY <2>1 DEF ToSet
  <2> QED BY <2>2, <2>3
<1> QED BY <1>1 DEF Walks, MovesUpTo, FiltersUpTo, LeftOver, A

\* The loop has come to element p of s, and its index into what is left is i.
Walked(s, m, g, p, list, i) ==
  /\ ~m[p] /\ Len(g[p]) = i - 1
  /\ list \in Seq(Conns) /\ Len(list) = (i - 1) + (Len(s) - p)
  /\ \A j \in 1 .. i - 1 : list[j] = g[p][j]
  /\ \A j \in 1 .. Len(s) - p : list[(i - 1) + j] = s[p + j]

LEMMA WalkBegins ==
  ASSUME NEW s \in Seq(Conns), IsInjective(s), NEW m, NEW g, NEW share, Walks(s, m, g, share)
  PROVE  Walked(s, m, g, 0, s, 1)
<1>1. ~m[0] /\ g[0] = <<>>
  BY WalkSteps
<1>2. Len(g[0]) = 0 /\ Len(s) \in Nat
  BY <1>1
<1>3. \A j \in 1 .. Len(s) : (1 - 1) + j = j /\ 0 + j = j
  BY <1>2
<1> QED BY <1>1, <1>2, <1>3 DEF Walked

\* The element after p stays in the list.
LEMMA WalkKeeps ==
  ASSUME NEW s \in Seq(Conns), IsInjective(s), NEW m, NEW g, NEW share, Walks(s, m, g, share),
         NEW p \in 0 .. Len(s), NEW list, NEW i \in Nat \ {0}, Walked(s, m, g, p, list, i),
         i <= Len(list)
  PROVE  /\ p + 1 \in 0 .. Len(s) /\ list[i] = s[p + 1]
         /\ ~m[p + 1] => Walked(s, m, g, p + 1, list, i + 1)
<1> DEFINE n == Len(s)
<1>1. n \in Nat /\ p \in Nat /\ p <= n /\ Len(list) = (i - 1) + (n - p)
  BY DEF Walked
<1>2. p + 1 \in 0 .. n /\ p + 1 \in 1 .. n /\ 1 \in 1 .. n - p
  BY <1>1
<1>3. \A j \in 1 .. n - p : list[(i - 1) + j] = s[p + j]
  BY DEF Walked
<1>4. list[i] = s[p + 1]
  <2>1. (i - 1) + 1 = i
    OBVIOUS
  <2> QED BY <1>2, <1>3, <2>1
<1>5. ASSUME ~m[p + 1]
      PROVE  Walked(s, m, g, p + 1, list, i + 1)
  <2>1. (p + 1) - 1 = p /\ p \in 0 .. n /\ s[p + 1] \in Conns
    BY <1>1, <1>2
  <2>2. g[p + 1] = Append(g[p], s[p + 1]) /\ g[p] \in Seq(Conns)
    <3>1. LeftOver(s, m, g) /\ \A k \in 0 .. n : g[k] \in Seq(Conns)
      BY WalkSteps
    <3>2. g[p + 1] = Append(g[(p + 1) - 1], s[p + 1])
      BY <3>1, <1>2, <1>5 DEF LeftOver
    <3> QED BY <3>1, <3>2, <2>1
  <2>3. Len(g[p]) = i - 1 /\ Len(g[p + 1]) = i
    BY <2>1, <2>2 DEF Walked
  <2>4. \A j \in 1 .. i - 1 : g[p + 1][j] = g[p][j]
    BY <2>1, <2>2, <2>3
  <2>5. g[p + 1][i] = s[p + 1]
    BY <2>1, <2>2, <2>3
  <2>6. \A j \in 1 .. i : list[j] = g[p + 1][j]
    <3>1. \A j \in 1 .. i : j = i \/ j \in 1 .. i - 1
      OBVIOUS
    <3>2. \A j \in 1 .. i - 1 : list[j] = g[p][j]
      BY DEF Walked
    <3> QED BY <3>1, <3>2, <2>4, <2>5, <1>4
  <2>7. ASSUME NEW j \in 1 .. n - (p + 1)
        PROVE  list[i + j] = s[(p + 1) + j]
    <3>1. j + 1 \in 1 .. n - p /\ (i - 1) + (j + 1) = i + j /\ p + (j + 1) = (p + 1) + j
      BY <1>1
    <3>2. list[(i - 1) + (j + 1)] = s[p + (j + 1)]
      BY <1>3, <3>1
    <3> QED BY <3>1, <3>2
  <2>8. (i + 1) - 1 = i /\ Len(list) = i + (n - (p + 1)) /\ list \in Seq(Conns)
    BY <1>1 DEF Walked
  <2> QED BY <1>5, <2>3, <2>6, <2>7, <2>8 DEF Walked
<1> QED BY <1>2, <1>4, <1>5

\* The element after p is removed, and the one behind it is skipped.
LEMMA WalkMoves ==
  ASSUME NEW s \in Seq(Conns), IsInjective(s), NEW m, NEW g, NEW share, Walks(s, m, g, share),
         NEW p \in 0 .. Len(s), NEW list, NEW i \in Nat \ {0}, Walked(s, m, g, p, list, i),
         i <= Len(list), IsInjective(list), m[p + 1], NEW rest, rest = RemoveFirst(list, list[i])
  PROVE  \/ p + 2 \in 0 .. Len(s) /\ Walked(s, m, g, p + 2, rest, i + 1)
         \/ i + 1 > Len(rest) /\ rest = g[Len(s)]
<1> DEFINE n == Len(s)
<1>1. n \in Nat /\ p \in Nat /\ p <= n /\ Len(list) = (i - 1) + (n - p) /\ list \in Seq(Conns)
  BY DEF Walked
<1>2. p + 1 \in 1 .. n /\ p \in 0 .. n /\ (p + 1) - 1 = p /\ i \in 1 .. Len(list)
  BY <1>1
<1>3. g[p + 1] = g[p] /\ g[p] \in Seq(Conns) /\ Len(g[p]) = i - 1
  <2>1. LeftOver(s, m, g) /\ \A k \in 0 .. n : g[k] \in Seq(Conns)
    BY WalkSteps
  <2>2. g[p + 1] = g[(p + 1) - 1]
    BY <2>1, <1>2 DEF LeftOver
  <2> QED BY <2>1, <2>2, <1>2 DEF Walked
<1>4. /\ rest \in Seq(Conns) /\ Len(rest) = Len(list) - 1
      /\ \A j \in 1 .. Len(list) - 1 : rest[j] = IF j < i THEN list[j] ELSE list[j + 1]
  <2>1. rest = SubSeq(list, 1, i - 1) \o SubSeq(list, i + 1, Len(list))
    BY <1>1, <1>2, RemoveFirstIsRemoveAt
  <2> DEFINE r == SubSeq(list, 1, i - 1) \o SubSeq(list, i + 1, Len(list))
  <2>2. /\ r \in Seq(Conns) /\ Len(r) = Len(list) - 1
        /\ \A j \in 1 .. Len(list) - 1 : r[j] = IF j < i THEN list[j] ELSE list[j + 1]
    BY <1>1, <1>2, RemoveAtProperties, Zenon
  <2> HIDE DEF r
  <2>3. rest = r
    BY <2>1 DEF r
  <2> QED BY <2>2, <2>3
<1>5. \A j \in 1 .. i - 1 : rest[j] = g[p][j]
  <2>1. \A j \in 1 .. i - 1 : j \in 1 .. Len(list) - 1 /\ j < i
    BY <1>2
  <2> QED BY <2>1, <1>4 DEF Walked
<1>6. \A j \in 1 .. n - p : list[(i - 1) + j] = s[p + j]
  BY DEF Walked
<1>7. CASE p + 1 = n
  <2>1. Len(rest) = i - 1
    <3>1. n - p = 1
      BY <1>7, <1>1
    <3>2. Len(list) = i
      BY <3>1, <1>1
    <3> QED BY <3>2, <1>4
  <2>2. \A j \in 1 .. Len(rest) : rest[j] = g[n][j]
    BY <2>1, <1>3, <1>5, <1>7
  <2>3. g[n] \in Seq(Conns) /\ Len(g[n]) = Len(rest)
    BY <2>1, <1>3, <1>7
  <2>4. rest = g[n]
    BY <2>2, <2>3, <1>4, SeqEqual, Zenon
  <2> QED BY <2>1, <2>4
<1>8. CASE p + 1 # n
  <2>1. /\ p + 2 \in 1 .. n /\ p + 2 \in 0 .. n /\ (p + 2) - 1 = p + 1
        /\ 2 \in 1 .. n - p /\ (i - 1) + 2 = i + 1
    BY <1>8, <1>1, <1>2
  <2>2. ~m[p + 2]
    BY <2>1, WalkSteps
  <2>3. g[p + 2] = Append(g[p], s[p + 2])
    <3>1. LeftOver(s, m, g)
      BY WalkSteps
    <3>2. g[p + 2] = Append(g[p + 1], s[p + 2])
      BY <3>1, <2>1, <2>2 DEF LeftOver
    <3> QED BY <3>2, <1>3
  <2>4. s[p + 2] \in Conns
    BY <2>1
  <2>5. /\ Len(g[p + 2]) = i /\ g[p + 2][i] = s[p + 2]
        /\ \A j \in 1 .. i - 1 : g[p + 2][j] = g[p][j]
    BY <2>3, <2>4, <1>3
  <2>6. rest[i] = s[p + 2]
    <3>1. i \in 1 .. Len(list) - 1 /\ ~(i < i)
      BY <1>1, <2>1
    <3> QED BY <3>1, <2>1, <1>4, <1>6
  <2>7. \A j \in 1 .. i : rest[j] = g[p + 2][j]
    <3>1. \A j \in 1 .. i : j = i \/ j \in 1 .. i - 1
      OBVIOUS
    <3> QED BY <3>1, <2>5, <2>6, <1>5
  <2>8. ASSUME NEW j \in 1 .. n - (p + 2)
        PROVE  rest[i + j] = s[(p + 2) + j]
    <3>1. /\ i + j \in 1 .. Len(list) - 1 /\ ~(i + j < i)
          /\ j + 2 \in 1 .. n - p /\ (i - 1) + (j + 2) = (i + j) + 1 /\ p + (j + 2) = (p + 2) + j
      BY <1>1
    <3>2. rest[i + j] = list[(i + j) + 1]
      BY <3>1, <1>4
    <3>3. list[(i - 1) + (j + 2)] = s[p + (j + 2)]
      BY <3>1, <1>6
    <3> QED BY <3>1, <3>2, <3>3
  <2>9. (i + 1) - 1 = i /\ Len(rest) = i + (n - (p + 2))
    BY <1>1, <1>4
  <2> QED BY <2>1, <2>2, <2>5, <2>7, <2>8, <2>9, <1>4 DEF Walked
<1> QED BY <1>7, <1>8

LEMMA WalkEnds ==
  ASSUME NEW s \in Seq(Conns), IsInjective(s), NEW m, NEW g, NEW share, Walks(s, m, g, share),
         NEW p \in 0 .. Len(s), NEW list, NEW i \in Nat \ {0}, Walked(s, m, g, p, list, i),
         i > Len(list)
  PROVE  list = g[Len(s)]
<1>1. /\ Len(s) \in Nat /\ p \in Nat /\ p <= Len(s) /\ Len(list) = (i - 1) + (Len(s) - p)
      /\ list \in Seq(Conns) /\ Len(g[p]) = i - 1 /\ \A j \in 1 .. i - 1 : list[j] = g[p][j]
  BY DEF Walked
<1>2. p = Len(s) /\ Len(list) = i - 1
  BY <1>1
<1>3. g[p] \in Seq(Conns)
  BY WalkSteps
<1> QED BY <1>1, <1>2, <1>3, SeqEqual, Zenon

\* The turns of the while loop that Shares names.
TurnsOfCall(f) ==
  /\ LoopsUpTo(f, Conns, connections, wished, Bandwidth)
  /\ Shares(connections, wished, Bandwidth)
       = [c \in Conns |-> IF c \notin ToSet(connections) THEN 0
                          ELSE IF c \in ToSet(f[Len(connections)].bwb)
                          THEN f[Len(connections)].share ELSE wished[c]]

\* The loop has come to some element of s, or to its end.
On(s, m, g, list, i) ==
  \/ \E p \in 0 .. Len(s) : Walked(s, m, g, p, list, i)
  \/ i > Len(list) /\ list = g[Len(s)]

Between(loop) == connBWB = loop.bwb /\ bwShare = loop.share
InFor(loop) ==
  /\ loop.bwb # <<>> /\ loop.share # bwShare /\ bwShare = EqualPart(loop, Bandwidth)
  /\ \E m, g :
       /\ Walks(loop.bwb, m, g, bwShare)
       /\ g[Len(loop.bwb)]
            = Filter(loop.bwb, ToSet(loop.bwb) \ Moved(loop.bwb, bwShare, wished))
       /\ On(loop.bwb, m, g, connBWB, next)

\* Where the loops of the call are is where Shares is.
Computed ==
  /\ pc = "while" => \E f : /\ TurnsOfCall(f) /\ round \in 0 .. Len(connections)
                            /\ Between(f[round])
  /\ pc = "for" => \E f : /\ TurnsOfCall(f) /\ round \in 0 .. Len(connections) - 1
                          /\ InFor(f[round])

LEMMA TurnFacts ==
  ASSUME TypeOK, NEW f, TurnsOfCall(f), NEW n \in 0 .. Len(connections)
  PROVE  /\ f[n] \in Loops(Conns) /\ f[n].bwb \in Seq(Conns) /\ IsInjective(f[n].bwb)
         /\ f[n].lowSum = Sum(wished, Wanting \ ToSet(f[n].bwb))
         /\ wished \in [Conns -> Nat] /\ Bandwidth \in Nat /\ Len(connections) \in Nat
<1>1. /\ connections \in Seq(Conns) /\ IsInjective(connections) /\ Len(connections) \in Nat
      /\ wished \in [Conns -> Nat] /\ Bandwidth \in Nat
  BY MaxDesiredAssumption, BandwidthAssumption DEF TypeOK
<1>2. Inputs(Conns, connections, wished, Bandwidth)
  BY <1>1 DEF Inputs
<1>3. LoopOk(f[n], connections, wished, Bandwidth)
  BY <1>2, LoopsOk DEF TurnsOfCall
<1>4. f[n] \in Loops(Conns)
  BY DEF TurnsOfCall, LoopsUpTo
<1>5. Wanting = Demanding(connections, wished)
  BY DEF Wanting, Demanding
<1> QED BY <1>1, <1>3, <1>4, <1>5 DEF LoopOk, Loops

\* The equal share of a turn is the one that the loops compute.
LEMMA SameEqualShare ==
  ASSUME IInv, pc = "while", NEW f, TurnsOfCall(f), round \in 0 .. Len(connections),
         Between(f[round])
  PROVE  EqualPart(f[round], Bandwidth) = EqualShare
<1>1. f[round].lowSum = Sum(wished, Wanting \ ToSet(f[round].bwb))
  BY TurnFacts DEF IInv
<1>2. bwLowSum = SumFunctionOnSet(wished, Wanting \ ToSet(connBWB))
  BY DEF IInv, Sharing, Low
<1>3. f[round].lowSum = bwLowSum
  BY <1>1, <1>2 DEF Between, Sum
<1> QED BY <1>3 DEF EqualPart, EqualShare, Between

LEMMA ComputedUpdateDesiredBw ==
  ASSUME IInv, NEW c \in Conns, NEW bw \in 0 .. MaxDesired, UpdateDesiredBw(c, bw)
  PROVE  Computed'
<1> DEFINE desired == desiredBw'
<1>1. /\ connections \in Seq(Conns) /\ IsInjective(connections) /\ connections' = connections
      /\ connBWB' = Filter(connections, {d \in Conns : desired[d] > 0})
      /\ pc' = "while" /\ bwShare' = 0 /\ round' = 0 /\ Bandwidth \in Nat
      /\ wished' = desired
  BY BandwidthAssumption DEF IInv, TypeOK, Returned, NoLocals, UpdateDesiredBw
<1>2. desired \in [Conns -> Nat]
  BY MaxDesiredAssumption DEF IInv, TypeOK, UpdateDesiredBw
<1> HIDE DEF desired
<1>3. Inputs(Conns, connections, desired, Bandwidth)
  BY <1>1, <1>2 DEF Inputs
<1>4. PICK f : /\ LoopsUpTo(f, Conns, connections, desired, Bandwidth)
               /\ Shares(connections, desired, Bandwidth)
                    = [d \in Conns |-> IF d \notin ToSet(connections) THEN 0
                                       ELSE IF d \in ToSet(f[Len(connections)].bwb)
                                       THEN f[Len(connections)].share ELSE desired[d]]
  BY <1>3, SharesUpTo
<1>5. TurnsOfCall(f)'
  BY <1>1, <1>4 DEF TurnsOfCall
<1>6. DOMAIN desired = Conns /\ f[0] = Begin(connections, desired)
  BY <1>2, <1>4 DEF LoopsUpTo
<1>7. f[0].bwb = connBWB' /\ f[0].share = 0
  BY <1>1, <1>6 DEF Begin
<1>8. Between(f[round])'
  BY <1>1, <1>7 DEF Between
<1>9. round' \in 0 .. Len(connections')
  BY <1>1
<1> QED BY <1>1, <1>5, <1>8, <1>9 DEF Computed

LEMMA ComputedBeginRound ==
  ASSUME IInv, Computed, BeginRound
  PROVE  Computed'
<1>1. /\ pc = "while" /\ ~Converged /\ pc' = "for" /\ bwShare' = EqualShare /\ next' = 1
      /\ UNCHANGED <<connections, wished, availableBw, connBWB, bwLowSum, round>>
  BY DEF BeginRound
<1>2. connBWB # <<>> /\ bwShare # EqualShare
  BY <1>1 DEF Converged
<1>3. PICK f : TurnsOfCall(f) /\ round \in 0 .. Len(connections) /\ Between(f[round])
  BY <1>1 DEF Computed
<1> DEFINE s == f[round].bwb
           moved == Moved(s, EqualShare, wished)
<1>4. EqualPart(f[round], Bandwidth) = EqualShare
  BY <1>1, <1>3, SameEqualShare
<1>5. s = connBWB /\ f[round].share = bwShare
  BY <1>3 DEF Between
<1>6. s \in Seq(Conns) /\ IsInjective(s)
  BY <1>3, TurnFacts DEF IInv
<1>7. round \in 0 .. Len(connections) - 1
  <2>1. round + Len(connBWB) <= Len(connections) /\ Len(connBWB) \in Nat \ {0} /\ round \in Nat
        /\ Len(connections) \in Nat
    BY <1>1, <1>2, NotEmpty DEF IInv, RoundsLeft, TypeOK
  <2> QED BY <2>1
<1> HIDE DEF s
<1>8. PICK m : /\ MovesUpTo(m, s, EqualShare, wished)
               /\ moved = {s[j] : j \in {k \in 1 .. Len(s) : m[k]}}
  BY <1>6, MovedUpTo
<1> HIDE DEF moved
<1>9. PICK g : FiltersUpTo(g, s, ToSet(s) \ moved, Conns) /\ Filter(s, ToSet(s) \ moved) = g[Len(s)]
  BY <1>6, FilterUpTo
<1>10. Walks(s, m, g, EqualShare)
  BY <1>8, <1>9 DEF Walks
<1>11. Walked(s, m, g, 0, s, 1) /\ 0 \in 0 .. Len(s)
  BY <1>6, <1>10, WalkBegins
<1>12. TurnsOfCall(f)'
  BY <1>1, <1>3 DEF TurnsOfCall
<1>13. InFor(f[round])'
  <2>1. f[round'] = f[round] /\ connBWB' = s /\ EqualShare # f[round].share /\ s # <<>>
    BY <1>1, <1>2, <1>5
  <2>2. /\ MovesUpTo(m, s, bwShare', wished')
        /\ FiltersUpTo(g, s, ToSet(s) \ {s[j] : j \in {k \in 1 .. Len(s) : m[k]}}, Conns)
    BY <1>1, <1>8, <1>9
  <2>3. g[Len(s)] = Filter(s, ToSet(s) \ Moved(s, bwShare', wished'))
    BY <1>1, <1>9 DEF moved
  <2>4. Walked(s, m, g, 0, connBWB', next')
    BY <1>1, <1>11, <2>1
  <2>5. On(s, m, g, connBWB', next')
    BY <1>11, <2>4 DEF On
  <2>6. bwShare' = EqualPart(f[round'], Bandwidth)
    BY <1>1, <1>4
  <2> QED BY <1>1, <2>1, <2>2, <2>3, <2>5, <2>6 DEF InFor, Walks, s
<1> QED BY <1>1, <1>7, <1>12, <1>13 DEF Computed

\* A step of the for loop that goes on with the walk over the list.
LEMMA ComputedForLoop ==
  ASSUME TypeOK, Computed, pc = "for", pc' = "for",
         UNCHANGED <<connections, wished, bwShare, round>>,
         \A s, m, g : /\ s \in Seq(Conns) /\ IsInjective(s)
                      /\ Walks(s, m, g, bwShare) /\ On(s, m, g, connBWB, next)
                      => On(s, m, g, connBWB', next')
  PROVE  Computed'
<1>1. PICK f : TurnsOfCall(f) /\ round \in 0 .. Len(connections) - 1 /\ InFor(f[round])
  BY DEF Computed
<1> DEFINE s == f[round].bwb
           moved == Moved(s, bwShare, wished)
<1>2. PICK m, g : /\ Walks(s, m, g, bwShare) /\ On(s, m, g, connBWB, next)
                  /\ g[Len(s)] = Filter(s, ToSet(s) \ moved)
  BY <1>1 DEF InFor
<1>3. round \in 0 .. Len(connections)
  BY <1>1, NotEmpty
<1>4. s \in Seq(Conns) /\ IsInjective(s)
  BY <1>1, <1>3, TurnFacts
<1>5. On(s, m, g, connBWB', next')
  BY <1>2, <1>4
<1>6. s # <<>> /\ f[round].share # bwShare /\ bwShare = EqualPart(f[round], Bandwidth)
  BY <1>1 DEF InFor
<1>7. /\ MovesUpTo(m, s, bwShare', wished')
      /\ FiltersUpTo(g, s, ToSet(s) \ {s[j] : j \in {k \in 1 .. Len(s) : m[k]}}, Conns)
  BY <1>2 DEF Walks
<1>8. g[Len(s)] = Filter(s, ToSet(s) \ Moved(s, bwShare', wished'))
  BY <1>2
<1>9. f[round'] = f[round]
  OBVIOUS
<1>10. InFor(f[round])'
  BY <1>5, <1>6, <1>7, <1>8, <1>9 DEF InFor, Walks
<1>11. TurnsOfCall(f)'
  BY <1>1 DEF TurnsOfCall
<1> QED BY <1>1, <1>10, <1>11 DEF Computed

\* The loop still reads what the next connection wanted when the call began.
LEMMA NextWish ==
  ASSUME TypeOK, Wishes, next <= Len(connBWB)
  PROVE  desiredBw[connBWB[next]] = wished[connBWB[next]]
<1>1. next \in 1 .. Len(connBWB) /\ connBWB \in Seq(Conns)
  BY DEF TypeOK
<1>2. connBWB[next] \in Conns /\ connBWB[next] \in ToSet(connBWB)
  BY <1>1, ElementsOfList
<1> QED BY <1>2 DEF Wishes

LEMMA ComputedKeep ==
  ASSUME IInv, Computed, Keep
  PROVE  Computed'
<1>1. /\ pc = "for" /\ pc' = "for" /\ next <= Len(connBWB) /\ ~(wished[connBWB[next]] <= bwShare)
      /\ next' = next + 1 /\ connBWB' = connBWB
      /\ UNCHANGED <<connections, wished, bwShare, round>>
  BY NextWish DEF IInv, Keep, Satisfied
<1>2. TypeOK /\ next \in Nat \ {0} /\ Len(connBWB) \in Nat
  BY DEF IInv, TypeOK
<1>3. ASSUME NEW s, NEW m, NEW g, s \in Seq(Conns), IsInjective(s), Walks(s, m, g, bwShare),
             On(s, m, g, connBWB, next)
      PROVE  On(s, m, g, connBWB', next')
  <2>1. PICK p \in 0 .. Len(s) : Walked(s, m, g, p, connBWB, next)
    BY <1>1, <1>2, <1>3 DEF On
  <2>2. /\ p + 1 \in 0 .. Len(s) /\ connBWB[next] = s[p + 1]
        /\ ~m[p + 1] => Walked(s, m, g, p + 1, connBWB, next + 1)
    BY <1>1, <1>2, <1>3, <2>1, WalkKeeps
  <2>3. p + 1 \in 1 .. Len(s)
    BY <2>1, <2>2
  <2>4. ~m[p + 1]
    <3>1. m[p + 1] = (wished[s[p + 1]] <= bwShare /\ ~m[(p + 1) - 1])
      BY <1>3, <2>3, WalkSteps
    <3> QED BY <1>1, <2>2, <3>1
  <2> QED BY <1>1, <2>2, <2>4 DEF On
<1> QED BY <1>1, <1>2, <1>3, ComputedForLoop

LEMMA ComputedMoveToLow ==
  ASSUME IInv, Computed, MoveToLow
  PROVE  Computed'
<1>1. /\ pc = "for" /\ pc' = "for" /\ next <= Len(connBWB) /\ wished[connBWB[next]] <= bwShare
      /\ next' = next + 1 /\ connBWB' = RemoveFirst(connBWB, connBWB[next])
      /\ UNCHANGED <<connections, wished, bwShare, round>>
  BY NextWish DEF IInv, MoveToLow, Satisfied
<1>2. TypeOK /\ next \in Nat \ {0} /\ Len(connBWB) \in Nat /\ IsInjective(connBWB)
  BY DEF IInv, TypeOK
<1>3. ASSUME NEW s, NEW m, NEW g, s \in Seq(Conns), IsInjective(s), Walks(s, m, g, bwShare),
             On(s, m, g, connBWB, next)
      PROVE  On(s, m, g, connBWB', next')
  <2>1. PICK p \in 0 .. Len(s) : Walked(s, m, g, p, connBWB, next)
    BY <1>1, <1>2, <1>3 DEF On
  <2>2. p + 1 \in 0 .. Len(s) /\ connBWB[next] = s[p + 1]
    BY <1>1, <1>2, <1>3, <2>1, WalkKeeps
  <2>3. p + 1 \in 1 .. Len(s) /\ (p + 1) - 1 = p
    BY <2>1, <2>2
  <2>4. m[p + 1]
    <3>1. m[p + 1] = (wished[s[p + 1]] <= bwShare /\ ~m[(p + 1) - 1])
      BY <1>3, <2>3, WalkSteps, ZenonT(60)
    <3>2. ~m[p]
      BY <2>1 DEF Walked
    <3> QED BY <1>1, <2>2, <2>3, <3>1, <3>2
  <2>5. \/ p + 2 \in 0 .. Len(s) /\ Walked(s, m, g, p + 2, connBWB', next + 1)
        \/ next + 1 > Len(connBWB') /\ connBWB' = g[Len(s)]
    BY <1>1, <1>2, <1>3, <2>1, <2>4, WalkMoves
  <2> QED BY <1>1, <2>5 DEF On
<1> QED BY <1>1, <1>2, <1>3, ComputedForLoop

\* At the end of the walk the next turn is made.
LEMMA ComputedEndRound ==
  ASSUME IInv, Computed, EndRound
  PROVE  Computed'
<1>1. /\ pc = "for" /\ pc' = "while" /\ next > Len(connBWB) /\ round' = round + 1
      /\ UNCHANGED <<connections, wished, bwShare, connBWB>>
  BY DEF EndRound
<1>2. TypeOK /\ next \in Nat \ {0} /\ Len(connections) \in Nat
  BY NotEmpty DEF IInv, TypeOK
<1>3. PICK f : TurnsOfCall(f) /\ round \in 0 .. Len(connections) - 1 /\ InFor(f[round])
  BY <1>1 DEF Computed
<1> DEFINE loop == f[round]
           s == loop.bwb
<1>4. /\ round \in 0 .. Len(connections) /\ round + 1 \in 1 .. Len(connections)
      /\ (round + 1) - 1 = round
  BY <1>2, <1>3
<1>5. s \in Seq(Conns) /\ IsInjective(s) /\ loop \in Loops(Conns)
      /\ wished \in [Conns -> Nat] /\ Bandwidth \in Nat
  BY <1>2, <1>3, <1>4, TurnFacts
<1>6. PICK m, g : /\ Walks(s, m, g, bwShare) /\ On(s, m, g, connBWB, next)
                  /\ g[Len(s)] = Filter(s, ToSet(s) \ Moved(s, bwShare, wished))
  BY <1>3 DEF InFor
<1>7. connBWB = g[Len(s)]
  <2>1. ASSUME NEW p \in 0 .. Len(s), Walked(s, m, g, p, connBWB, next)
        PROVE  connBWB = g[Len(s)]
    <3> HIDE DEF s
    <3> QED BY <1>1, <1>2, <1>5, <1>6, <2>1, WalkEnds
  <2> QED BY <1>6, <2>1 DEF On
<1>8. s # <<>> /\ loop.share # bwShare /\ bwShare = EqualPart(loop, Bandwidth)
  BY <1>3 DEF InFor
<1>9. f[round + 1] = LoopTurn(wished, Bandwidth)[loop]
  BY <1>3, <1>4 DEF TurnsOfCall, LoopsUpTo
<1> DEFINE then == f[round + 1]
<1>10. TurnsTo(loop, then, wished, Bandwidth)
  <2> HIDE DEF loop
  <2>1. TurnsTo(loop, LoopTurn(wished, Bandwidth)[loop], wished, Bandwidth)
    BY <1>5, TurnProperties
  <2> QED BY <1>9, <2>1
<1>11. then.bwb = connBWB /\ then.share = bwShare
  <2> HIDE DEF then, loop
  <2> QED BY <1>6, <1>7, <1>8, <1>10 DEF TurnsTo
<1>12. Between(f[round])'
  BY <1>1, <1>11 DEF Between
<1>13. TurnsOfCall(f)'
  BY <1>1, <1>3 DEF TurnsOfCall
<1>14. round' \in 0 .. Len(connections')
  BY <1>1, <1>4
<1> QED BY <1>1, <1>12, <1>13, <1>14 DEF Computed

LEMMA ComputedNext == IInv /\ Computed /\ [Next]_vars => Computed'
<1> SUFFICES ASSUME IInv, Computed, [Next]_vars PROVE Computed'
  OBVIOUS
<1>1. ASSUME NEW c \in Conns, AddConnection(c) \/ RemoveConnection(c) PROVE Computed'
  BY <1>1 DEF AddConnection, RemoveConnection, Computed
<1>2. ASSUME NEW c \in Conns, NEW bw \in 0 .. MaxDesired, UpdateDesiredBw(c, bw) PROVE Computed'
  BY <1>2, ComputedUpdateDesiredBw
<1>3. CASE ShareOut
  BY <1>3 DEF ShareOut, Computed
<1>4. CASE BeginRound \/ Keep \/ MoveToLow \/ EndRound
  BY <1>4, ComputedBeginRound, ComputedKeep, ComputedMoveToLow, ComputedEndRound
<1>5. CASE UNCHANGED vars
  <2>1. UNCHANGED <<connections, wished, pc, connBWB, bwShare, round, next>>
    BY <1>5 DEF vars, locals
  <2>2. ASSUME NEW f, TurnsOfCall(f) PROVE TurnsOfCall(f)'
    BY <2>1, <2>2 DEF TurnsOfCall
  <2>3. ASSUME NEW loop, InFor(loop) PROVE InFor(loop)'
    <3>1. PICK m, g : /\ Walks(loop.bwb, m, g, bwShare) /\ On(loop.bwb, m, g, connBWB, next)
                      /\ g[Len(loop.bwb)]
                           = Filter(loop.bwb, ToSet(loop.bwb) \ Moved(loop.bwb, bwShare, wished))
      BY <2>3 DEF InFor
    <3>2. Walks(loop.bwb, m, g, bwShare)'
      BY <2>1, <3>1 DEF Walks
    <3> QED BY <2>1, <2>3, <3>1, <3>2 DEF InFor
  <2>4. CASE pc = "while"
    <3>1. PICK f : TurnsOfCall(f) /\ round \in 0 .. Len(connections) /\ Between(f[round])
      BY <2>4 DEF Computed
    <3>2. Between(f[round])'
      BY <2>1, <3>1 DEF Between
    <3> QED BY <2>1, <2>2, <2>4, <3>1, <3>2 DEF Computed
  <2>5. CASE pc = "for"
    <3>1. PICK f : TurnsOfCall(f) /\ round \in 0 .. Len(connections) - 1 /\ InFor(f[round])
      BY <2>5 DEF Computed
    <3>2. InFor(f[round])'
      BY <2>1, <2>3, <3>1
    <3> QED BY <2>1, <2>2, <2>5, <3>1, <3>2 DEF Computed
  <2>6. CASE pc \notin {"while", "for"}
    BY <2>1, <2>6 DEF Computed
  <2> QED BY <2>4, <2>5, <2>6
<1> QED BY <1>1, <1>2, <1>3, <1>4, <1>5 DEF Next, UpdateConnectionBwShare

\* Once the equal share is what it was, or nobody waits, further turns change nothing.
LEMMA TurnsEnd ==
  ASSUME IInv, pc = "while", Converged, NEW f, TurnsOfCall(f), round \in 0 .. Len(connections),
         Between(f[round])
  PROVE  Between(f[Len(connections)])
<1> DEFINE k == Len(connections)
           T == {n \in 0 .. k : n >= round => f[n] = f[round]}
<1>1. k \in Nat /\ round \in Nat
  BY NotEmpty DEF IInv, TypeOK
<1>2. f[round].bwb = <<>> \/ f[round].share = EqualPart(f[round], Bandwidth)
  <2>1. EqualPart(f[round], Bandwidth) = EqualShare
    BY SameEqualShare
  <2> QED BY <2>1 DEF Converged, Between
<1>3. LoopTurn(wished, Bandwidth)[f[round]] = f[round]
  <2> DEFINE loop == f[round]
             then == LoopTurn(wished, Bandwidth)[loop]
  <2>1. loop \in Loops(Conns) /\ wished \in [Conns -> Nat] /\ Bandwidth \in Nat
    BY TurnFacts DEF IInv
  <2> HIDE DEF loop
  <2>2. TurnsTo(loop, then, wished, Bandwidth)
    BY <2>1, TurnProperties
  <2> HIDE DEF then
  <2>3. loop.bwb = <<>> \/ loop.share = EqualPart(loop, Bandwidth) => then = loop
    BY <2>2 DEF TurnsTo
  <2> QED BY <1>2, <2>3 DEF loop, then
<1>4. 0 \in T
  <2>1. 0 >= round => round = 0
    BY <1>1
  <2> QED BY <1>1, <2>1
<1>5. ASSUME NEW n \in 0 .. k - 1, n \in T
      PROVE  n + 1 \in T
  <2>1. n + 1 \in 0 .. k /\ n + 1 \in 1 .. k /\ (n + 1) - 1 = n
    BY <1>1
  <2>2. f[n + 1] = LoopTurn(wished, Bandwidth)[f[n]]
    BY <2>1 DEF TurnsOfCall, LoopsUpTo
  <2>3. n + 1 >= round => n + 1 = round \/ n >= round
    BY <1>1
  <2>4. n >= round => f[n + 1] = f[round]
    BY <1>3, <1>5, <2>2
  <2> QED BY <2>1, <2>3, <2>4
<1> HIDE DEF T
<1>6. k \in T
  <2>1. \A n \in 0 .. k : n \in T
    BY <1>1, <1>4, <1>5, UpTo
  <2> QED BY <1>1, <2>1
<1>7. f[k] = f[round]
  BY <1>1, <1>6 DEF T
<1> QED BY <1>7

\* The loops of the call, with the list that becomes shorter while they walk over it,
\* return what Shares says, which stands for the call in the modules of the connections.
THEOREM LoopsComputeShares == Spec => ReturnsShares
<1>1. Init => Computed
  BY DEF Init, Computed
<1>2. ASSUME IInv, Computed, [Next]_vars, Returns, NEW c \in ToSet(connections)
      PROVE  availableBw'[c] = Shares(connections, wished, Bandwidth)[c]
  <2>1. pc = "while" /\ ShareOut /\ Converged /\ Sharing /\ Wishes /\ TypeOK
        /\ IdleGetsNothing /\ c \in Conns
    BY <1>2, ShortOnesWait, FiniteSets DEF IInv, Returns
  <2>2. PICK f : TurnsOfCall(f) /\ round \in 0 .. Len(connections) /\ Between(f[round])
    BY <1>2, <2>1 DEF Computed
  <2>3. Between(f[Len(connections)])
    BY <1>2, <2>1, <2>2, TurnsEnd
  <2>4. Shares(connections, wished, Bandwidth)[c]
          = IF c \in ToSet(connBWB) THEN bwShare ELSE wished[c]
    BY <1>2, <2>1, <2>2, <2>3 DEF TurnsOfCall, Between
  <2>5. CASE c \in ToSet(connBWB)
    BY <1>2, <2>1, <2>4, <2>5, UsedAfter
  <2>6. CASE c \in Low
    <3>1. c \notin ToSet(connBWB) /\ availableBw[c] = wished[c]
      BY <2>1, <2>6 DEF Sharing, Low
    <3> QED BY <1>2, <2>1, <2>4, <3>1, UsedAfter
  <2>7. CASE c \notin Low /\ c \notin ToSet(connBWB)
    <3>1. wished[c] = 0
      BY <1>2, <2>1, <2>7 DEF Low, Wanting, TypeOK
    <3>2. availableBw'[c] = 0
      BY <1>2, <2>1, <2>7, <3>1, UsedAfter, IdleInCall
    <3> QED BY <2>4, <2>7, <3>1, <3>2
  <2> QED BY <2>5, <2>6, <2>7
<1>3. IInv /\ Computed /\ [Next]_vars
      => [Returns => \A c \in ToSet(connections) :
                       availableBw'[c] = Shares(connections, wished, Bandwidth)[c]]_vars
  BY <1>2
<1> QED BY <1>1, <1>3, ComputedNext, InvariantHolds, PTL DEF Spec, ReturnsShares

=============================================================================
