--------------------------- MODULE HarParserProofs ---------------------------
(***************************************************************************)
(* The dependencies are right for every recording.                         *)
(***************************************************************************)
EXTENDS HarParser, SequenceTheorems, TLAPS

\* The times are those the first list was sorted by.
Recording ==
  /\ \A t, u \in Transfers : t < u => harStartTime[t] <= harStartTime[u]
  /\ \A t \in Transfers : harStartTime[t] <= harFinishTime[t]

\* What is left of the second list is in order, and every transfer is left, comes
\* next, was taken last or finishes before that one.
Remaining ==
  /\ InOrder(finishingTransfers)
  /\ \A i \in DOMAIN finishingTransfers : FinishesBefore(nextDependency, finishingTransfers[i])
  /\ lastDependency # NoTransfer => FinishesBefore(lastDependency, nextDependency)
  /\ \A t \in Transfers :
       \/ t = nextDependency
       \/ \E i \in DOMAIN finishingTransfers : finishingTransfers[i] = t
       \/ lastDependency # NoTransfer /\ (t = lastDependency \/ FinishesBefore(t, lastDependency))

\* The transfer that was taken last has finished before the current one starts.
LastFinished == lastDependency # NoTransfer /\ transfer <= N => Finished(lastDependency)

Inv == TypeOK /\ Recording /\ Remaining /\ LastFinished /\ DependsOnLastFinished

\* FinishesBefore is a strict order on the transfers.
LEMMA FinishOrder ==
  ASSUME TypeOK
  PROVE  /\ \A t \in Transfers : ~FinishesBefore(t, t)
         /\ \A t, u, v \in Transfers :
              FinishesBefore(t, u) /\ FinishesBefore(u, v) => FinishesBefore(t, v)
<1>1. \A t \in Transfers : t \in Int /\ harFinishTime[t] \in Int
  BY NAssumption, MaxTimeAssumption DEF TypeOK, Transfers
<1> QED
  BY <1>1 DEF FinishesBefore

\* What has not been taken has not finished when the current transfer starts, once
\* the while loop has come to its end.
LEMMA RestNotFinished ==
  ASSUME Inv, transfer <= N, ~Finished(nextDependency), NEW t \in Transfers, Finished(t)
  PROVE  lastDependency # NoTransfer /\ (t = lastDependency \/ FinishesBefore(t, lastDependency))
<1>1. /\ harFinishTime \in [Transfers -> Int] /\ harStartTime[transfer] \in Int
      /\ nextDependency \in Transfers /\ finishingTransfers \in Seq(Transfers)
  BY NAssumption DEF Inv, TypeOK, Transfers
<1>2. ASSUME NEW u \in Transfers, FinishesBefore(nextDependency, u)
      PROVE  ~Finished(u)
  BY <1>1, <1>2 DEF Finished, FinishesBefore
<1>3. ASSUME NEW i \in DOMAIN finishingTransfers PROVE ~Finished(finishingTransfers[i])
  BY <1>1, <1>2 DEF Inv, Remaining
<1> QED
  BY <1>3 DEF Inv, Remaining

\* The transfer itself is still in the list.
LEMMA StillToFinish ==
  ASSUME Inv, transfer <= N, Finished(nextDependency)
  PROVE  finishingTransfers # <<>>
<1>1. /\ harFinishTime \in [Transfers -> Int] /\ harStartTime \in [Transfers -> Int]
      /\ transfer \in Transfers
      /\ nextDependency \in Transfers
      /\ lastDependency \in Transfers \cup {NoTransfer}
  BY NAssumption DEF Inv, TypeOK, Transfers
<1>2. ~Finished(transfer)
  BY <1>1 DEF Inv, Recording, Finished
<1>3. ASSUME lastDependency # NoTransfer,
             transfer = lastDependency \/ FinishesBefore(transfer, lastDependency)
      PROVE  FALSE
  BY <1>1, <1>2, <1>3 DEF Inv, LastFinished, Finished, FinishesBefore
<1>4. \E i \in DOMAIN finishingTransfers : finishingTransfers[i] = transfer
  BY <1>1, <1>2, <1>3 DEF Inv, Remaining
<1> QED
  BY <1>4

LEMMA InitInv == Init => Inv
<1> SUFFICES ASSUME Init PROVE Inv
  OBVIOUS
<1>1. PICK sorted \in [Transfers -> Transfers] :
        /\ ToSet(sorted) = Transfers /\ InOrder(sorted)
        /\ nextDependency = Head(sorted)
        /\ finishingTransfers = Tail(sorted)
  BY DEF Init
<1>2. /\ sorted \in Seq(Transfers) /\ Len(sorted) = N /\ N \in Nat \ {0}
      /\ DOMAIN sorted = 1 .. N /\ Head(sorted) = sorted[1]
      /\ \A i \in 1 .. N : sorted[i] \in Transfers
  BY NAssumption, SeqDef, SMTT(60) DEF Transfers
<1>3. /\ finishingTransfers \in Seq(Transfers) /\ DOMAIN finishingTransfers = 1 .. N - 1
      /\ \A i \in 1 .. N - 1 : finishingTransfers[i] = sorted[i + 1]
  BY <1>1, <1>2, HeadTailProperties
<1>4. TypeOK
  <2>1. known = 1 .. transfer - 1 /\ transfer \in 2 .. N + 1 /\ nextDependency \in Transfers
    BY <1>1, <1>2 DEF Init
  <2>2. parent \in [Transfers -> Transfers \cup {NoTransfer}]
    BY DEF Init
  <2> QED BY <1>3, <2>1, <2>2 DEF Init, TypeOK
<1>5. Recording
  BY DEF Init, Recording
<1>6. Remaining
  <2>0. \A i, j \in 1 .. N : i < j => FinishesBefore(sorted[i], sorted[j])
    BY <1>1, <1>2 DEF InOrder
  <2>1. InOrder(finishingTransfers)
    <3> SUFFICES ASSUME NEW i \in 1 .. N - 1, NEW j \in 1 .. N - 1, i < j
                 PROVE  FinishesBefore(finishingTransfers[i], finishingTransfers[j])
      BY <1>3 DEF InOrder
    <3>1. i + 1 \in 1 .. N /\ j + 1 \in 1 .. N /\ i + 1 < j + 1
      BY <1>2
    <3> QED BY <1>3, <2>0, <3>1
  <2>2. \A i \in DOMAIN finishingTransfers : FinishesBefore(nextDependency, finishingTransfers[i])
    <3> SUFFICES ASSUME NEW i \in 1 .. N - 1
                 PROVE  FinishesBefore(sorted[1], sorted[i + 1])
      BY <1>1, <1>2, <1>3
    <3>1. i + 1 \in 1 .. N /\ 1 \in 1 .. N /\ 1 < i + 1
      BY <1>2
    <3> QED BY <2>0, <3>1
  <2>3. ASSUME NEW t \in Transfers, t # nextDependency
        PROVE  \E i \in DOMAIN finishingTransfers : finishingTransfers[i] = t
    <3>1. PICK i \in 1 .. N : sorted[i] = t
      BY <1>1, <1>2 DEF ToSet
    <3>2. i # 1 /\ i - 1 \in 1 .. N - 1
      BY <1>1, <1>2, <2>3, <3>1
    <3> QED BY <1>3, <3>1, <3>2
  <2> QED BY <2>1, <2>2, <2>3 DEF Init, Remaining, NoTransfer
<1>7. LastFinished
  BY DEF Init, LastFinished
<1>8. DependsOnLastFinished
  <2>1. ASSUME NEW u \in Transfers PROVE ~(harFinishTime[u] < harStartTime[1])
    <3>1. 1 \in Transfers /\ u \in Int /\ 1 <= u
      BY <1>2 DEF Transfers
    <3>2. harStartTime[1] \in Int /\ harStartTime[u] \in Int /\ harFinishTime[u] \in Int
      BY <1>4, <3>1, MaxTimeAssumption DEF TypeOK
    <3>3. harStartTime[1] <= harStartTime[u]
      BY <1>5, <3>1, <3>2 DEF Recording
    <3> QED BY <1>5, <3>2, <3>3 DEF Recording
  <2>2. FinishedBefore(1) = {}
    BY <2>1 DEF FinishedBefore
  <2>3. known = {1} /\ parent[1] = NoTransfer
    BY <1>2 DEF Init, Transfers
  <2> QED BY <2>2, <2>3 DEF DependsOnLastFinished
<1> QED
  BY <1>4, <1>5, <1>6, <1>7, <1>8 DEF Inv

LEMMA NextFinishedInv ==
  ASSUME Inv, NextFinished
  PROVE  Inv'
<1>1. finishingTransfers # <<>> /\ finishingTransfers \in Seq(Transfers)
  BY StillToFinish DEF NextFinished, Inv, TypeOK
<1>2. /\ nextDependency' = finishingTransfers[1] /\ nextDependency' \in Transfers
      /\ 1 \in DOMAIN finishingTransfers
      /\ finishingTransfers' \in Seq(Transfers)
      /\ DOMAIN finishingTransfers' = 1 .. Len(finishingTransfers) - 1
      /\ DOMAIN finishingTransfers = 1 .. Len(finishingTransfers)
      /\ Len(finishingTransfers) \in Nat
      /\ \A i \in 1 .. Len(finishingTransfers) - 1 :
           finishingTransfers'[i] = finishingTransfers[i + 1]
  BY <1>1, HeadTailProperties DEF NextFinished
<1>3. /\ UNCHANGED <<harStartTime, harFinishTime, transfer, parent, known>>
      /\ lastDependency' = nextDependency /\ nextDependency \in Transfers
      /\ Finished(nextDependency)
  BY DEF NextFinished, Inv, TypeOK
<1>4. TypeOK'
  BY <1>2, <1>3 DEF Inv, TypeOK
<1>5. Recording'
  BY <1>3 DEF Inv, Recording
<1>7. Remaining'
  <2>0. \A i, j \in DOMAIN finishingTransfers :
          i < j => FinishesBefore(finishingTransfers[i], finishingTransfers[j])
    BY DEF Inv, Remaining, InOrder
  <2>1. InOrder(finishingTransfers)'
    <3> SUFFICES ASSUME NEW i \in DOMAIN finishingTransfers', NEW j \in DOMAIN finishingTransfers',
                        i < j
                 PROVE  FinishesBefore(finishingTransfers[i], finishingTransfers[j])'
      BY DEF InOrder
    <3>1. /\ i + 1 \in DOMAIN finishingTransfers /\ j + 1 \in DOMAIN finishingTransfers
          /\ i + 1 < j + 1
      BY <1>2
    <3>2. FinishesBefore(finishingTransfers[i + 1], finishingTransfers[j + 1])
      BY <2>0, <3>1
    <3>3. /\ finishingTransfers'[i] = finishingTransfers[i + 1]
          /\ finishingTransfers'[j] = finishingTransfers[j + 1]
      BY <1>2
    <3> QED BY <1>3, <3>2, <3>3 DEF FinishesBefore
  <2>2. ASSUME NEW i \in DOMAIN finishingTransfers'
        PROVE  FinishesBefore(nextDependency, finishingTransfers[i])'
    <3>1. i + 1 \in DOMAIN finishingTransfers /\ 1 < i + 1
      BY <1>2
    <3>2. FinishesBefore(finishingTransfers[1], finishingTransfers[i + 1])
      BY <1>2, <2>0, <3>1
    <3>3. finishingTransfers'[i] = finishingTransfers[i + 1] /\ nextDependency' = finishingTransfers[1]
      BY <1>2
    <3> QED BY <1>3, <3>2, <3>3 DEF FinishesBefore
  <2>3. FinishesBefore(lastDependency, nextDependency)'
    <3>1. FinishesBefore(nextDependency, finishingTransfers[1])
      BY <1>2 DEF Inv, Remaining
    <3> QED BY <1>2, <1>3, <3>1 DEF FinishesBefore
  <2>4. ASSUME NEW t \in Transfers
        PROVE  \/ t = nextDependency'
               \/ \E i \in DOMAIN finishingTransfers' : finishingTransfers'[i] = t
               \/ t = lastDependency' \/ FinishesBefore(t, lastDependency)'
    <3>1. CASE \E i \in DOMAIN finishingTransfers : finishingTransfers[i] = t
      <4>1. PICK i \in DOMAIN finishingTransfers : finishingTransfers[i] = t
        BY <3>1
      <4>2. CASE i = 1
        BY <1>2, <4>1, <4>2
      <4>3. CASE i # 1
        <5>1. i - 1 \in DOMAIN finishingTransfers' /\ finishingTransfers'[i - 1] = t
          BY <1>2, <4>1, <4>3
        <5> QED BY <5>1
      <4> QED BY <4>2, <4>3
    <3>2. CASE lastDependency # NoTransfer /\ (t = lastDependency \/ FinishesBefore(t, lastDependency))
      <4>1. lastDependency \in Transfers /\ FinishesBefore(lastDependency, nextDependency)
        BY <3>2 DEF Inv, TypeOK, Remaining
      <4>2. FinishesBefore(t, nextDependency)
        BY <1>3, <3>2, <4>1, FinishOrder DEF Inv
      <4> QED BY <1>3, <4>2 DEF FinishesBefore
    <3>3. CASE t = nextDependency
      BY <1>3, <3>3
    <3> QED BY <3>1, <3>2, <3>3 DEF Inv, Remaining
  <2>5. lastDependency' # NoTransfer
    BY <1>3, NAssumption DEF NoTransfer, Transfers
  <2> QED BY <2>1, <2>2, <2>3, <2>4, <2>5 DEF Remaining
<1>8. LastFinished'
  BY <1>3 DEF LastFinished, Finished
<1>9. DependsOnLastFinished'
  BY <1>3 DEF Inv, DependsOnLastFinished, FinishedBefore, FinishesBefore
<1> QED
  BY <1>4, <1>5, <1>7, <1>8, <1>9 DEF Inv

LEMMA AddTransferInv ==
  ASSUME Inv, AddTransfer
  PROVE  Inv'
<1>1. /\ UNCHANGED <<harStartTime, harFinishTime, finishingTransfers, nextDependency,
                     lastDependency>>
      /\ transfer' = transfer + 1 /\ transfer <= N
      /\ ~Finished(nextDependency)
      /\ known' = known \cup {transfer}
      /\ parent' = [parent EXCEPT ![transfer] = lastDependency]
  BY DEF AddTransfer
<1>2. /\ transfer \in Transfers /\ transfer \in 2 .. N + 1 /\ N \in Nat
      /\ known = 1 .. transfer - 1
      /\ lastDependency \in Transfers \cup {NoTransfer}
      /\ parent \in [Transfers -> Transfers \cup {NoTransfer}]
      /\ \A t \in Transfers : harStartTime[t] \in Int /\ harFinishTime[t] \in Int
  <2>1. /\ transfer \in 2 .. N + 1 /\ known = 1 .. transfer - 1
        /\ lastDependency \in Transfers \cup {NoTransfer}
        /\ parent \in [Transfers -> Transfers \cup {NoTransfer}]
    BY DEF Inv, TypeOK
  <2>2. harStartTime \in [Transfers -> 0 .. MaxTime] /\ harFinishTime \in [Transfers -> 0 .. MaxTime]
    BY DEF Inv, TypeOK
  <2>3. \A t \in Transfers : harStartTime[t] \in Int /\ harFinishTime[t] \in Int
    BY <2>2, MaxTimeAssumption
  <2>4. N \in Nat /\ transfer \in Transfers
    BY <1>1, <2>1, NAssumption DEF Transfers
  <2> QED BY <2>1, <2>3, <2>4
<1>3. TypeOK'
  <2>1. known' = 1 .. transfer' - 1 /\ transfer' \in 2 .. N + 1
    BY <1>1, <1>2
  <2>2. parent' \in [Transfers -> Transfers \cup {NoTransfer}]
    BY <1>1, <1>2
  <2> QED BY <1>1, <2>1, <2>2 DEF Inv, TypeOK
<1>4. Recording'
  BY <1>1 DEF Inv, Recording
<1>5. Remaining'
  BY <1>1 DEF Inv, Remaining, InOrder, FinishesBefore
<1>6. LastFinished'
  <2> SUFFICES ASSUME lastDependency # NoTransfer, transfer + 1 <= N
               PROVE  harFinishTime[lastDependency] < harStartTime[transfer + 1]
    BY <1>1 DEF LastFinished, Finished
  <2>1. harFinishTime[lastDependency] < harStartTime[transfer]
    BY <1>1 DEF Inv, LastFinished, Finished
  <2>2. transfer + 1 \in Transfers /\ harStartTime[transfer] <= harStartTime[transfer + 1]
    BY <1>2 DEF Inv, Recording, Transfers
  <2> QED BY <1>2, <2>1, <2>2
<1>7. DependsOnLastFinished'
  <2> SUFFICES ASSUME NEW t \in known \cup {transfer}
               PROVE  IF FinishedBefore(t) = {} THEN parent'[t] = NoTransfer
                      ELSE /\ parent'[t] \in FinishedBefore(t)
                           /\ \A u \in FinishedBefore(t) \ {parent'[t]} : FinishesBefore(u, parent'[t])
    BY <1>1 DEF DependsOnLastFinished, FinishedBefore, FinishesBefore
  <2>1. CASE t = transfer
    <3>1. parent'[t] = lastDependency
      BY <1>1, <1>2, <2>1
    <3>2. \A u \in FinishedBefore(t) : u \in Transfers /\ Finished(u)
      BY <2>1 DEF FinishedBefore, Finished
    <3>3. \A u \in FinishedBefore(t) :
            lastDependency # NoTransfer /\ (u = lastDependency \/ FinishesBefore(u, lastDependency))
      BY <1>1, <3>2, RestNotFinished
    <3>4. lastDependency # NoTransfer => lastDependency \in FinishedBefore(t)
      BY <1>1, <1>2, <2>1 DEF Inv, LastFinished, Finished, FinishedBefore
    <3> QED BY <3>1, <3>3, <3>4
  <2>2. CASE t # transfer
    <3>1. t \in known /\ t \in Transfers /\ parent'[t] = parent[t]
      BY <1>1, <1>2, <2>2 DEF Transfers
    <3> QED BY <3>1 DEF Inv, DependsOnLastFinished
  <2> QED BY <2>1, <2>2
<1> QED
  BY <1>3, <1>4, <1>5, <1>6, <1>7 DEF Inv

LEMMA Invariance == Spec => []Inv
<1>1. Inv /\ [Next]_vars => Inv'
  <2> SUFFICES ASSUME Inv, [Next]_vars PROVE Inv'
    OBVIOUS
  <2>1. CASE Done \/ UNCHANGED vars
    <3>1. UNCHANGED vars
      BY <2>1 DEF Done
    <3>2. TypeOK' /\ Recording' /\ LastFinished'
      BY <3>1 DEF vars, Inv, TypeOK, Recording, LastFinished, Finished
    <3>3. Remaining'
      BY <3>1 DEF vars, Inv, Remaining, InOrder, FinishesBefore
    <3>4. DependsOnLastFinished'
      BY <3>1 DEF vars, Inv, DependsOnLastFinished, FinishedBefore, FinishesBefore
    <3> QED BY <3>2, <3>3, <3>4 DEF Inv
  <2> QED
    BY <2>1, NextFinishedInv, AddTransferInv DEF Next
<1> QED
  BY <1>1, InitInv, PTL DEF Spec

\* pop(0) never finds the list empty, whatever the recording is.
THEOREM PopIsSafe == Spec => []NeverPopsEmpty
<1>1. Inv => NeverPopsEmpty
  BY StillToFinish DEF NeverPopsEmpty
<1> QED
  BY <1>1, Invariance, PTL

\* Every transfer is made the child of the one that finished last before it starts.
THEOREM Dependencies == Spec => []DependsOnLastFinished
  BY Invariance, PTL DEF Inv

\* The dependencies of every page form a forest; TransferManager assumes so of its
\* pages.
THEOREM DependenciesFormForest == Spec => []ParentsComeFirst
<1>1. Inv => ParentsComeFirst
  <2> SUFFICES ASSUME Inv, NEW t \in known PROVE parent[t] < t
    BY DEF ParentsComeFirst
  <2>1. /\ t \in Transfers /\ t \in Nat \ {0}
        /\ \A u \in Transfers : u \in Int /\ harStartTime[u] \in Int /\ harFinishTime[u] \in Int
    BY NAssumption, MaxTimeAssumption DEF Inv, TypeOK, Transfers
  <2>2. CASE FinishedBefore(t) = {}
    BY <2>1, <2>2 DEF Inv, DependsOnLastFinished, NoTransfer
  <2>3. CASE FinishedBefore(t) # {}
    <3>1. parent[t] \in FinishedBefore(t)
      BY <2>3 DEF Inv, DependsOnLastFinished
    <3>2. parent[t] \in Transfers /\ harFinishTime[parent[t]] < harStartTime[t]
      BY <3>1 DEF FinishedBefore
    <3>3. harStartTime[parent[t]] <= harFinishTime[parent[t]]
      BY <3>2 DEF Inv, Recording
    <3>4. t < parent[t] => harStartTime[t] <= harStartTime[parent[t]]
      BY <2>1, <3>2 DEF Inv, Recording
    <3>5. /\ parent[t] \in Int /\ harStartTime[parent[t]] \in Int
          /\ harFinishTime[parent[t]] \in Int /\ harStartTime[t] \in Int
      BY <2>1, <3>2
    <3>6. t # parent[t]
      BY <3>2, <3>3, <3>5
    <3> QED BY <2>1, <3>2, <3>3, <3>4, <3>5, <3>6
  <2> QED BY <2>2, <2>3
<1> QED
  BY <1>1, Invariance, PTL

=============================================================================
