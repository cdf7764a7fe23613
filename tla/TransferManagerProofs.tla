------------------------ MODULE TransferManagerProofs ------------------------
(***************************************************************************)
(* Safety of the real run, for every page, number of transfers and limits: *)
(* its invariants, what a step of the manager may never do, and the safety *)
(* part of the refinement of PageLoad.                                     *)
(***************************************************************************)
EXTENDS TransferManager, DataLemmas, FiniteSetTheorems, WellFoundedInduction

\* The connection a transfer would open does not exist before it is scheduled.
Fresh == \A t \in Transfers : tState[t] \in {"NEW", "ENABLED"} => cState[t] = "NONE"

\* A transfer that is still new waits for a parent that is not finished, or is
\* one of the children the current handler has still to enable.
Dependency ==
  \A t \in Transfers :
    LET parent == page.parent[t]
    IN  /\ tState[t] # "NEW" /\ parent # NoTransfer => tState[parent] = "FINISHED"
        /\ tState[t] = "NEW" => /\ parent # NoTransfer
                                /\ tState[parent] = "FINISHED" <=> t \in toEnable

\* The children of a transfer are enabled after its finish() was called.
StackShape == finishing # NoTransfer => toEnable = {}

Inv == /\ TypeOK
       /\ BookkeepingConsistent
       /\ PipelinesConsistent
       /\ AssertionsHold
       /\ Fresh
       /\ Dependency
       /\ StackShape

\* notify is called whenever a limit may have ceased to hold or a transfer is
\* enabled, and its loop has not yet come to the transfers in pending.
Deferred ==
  \A t \in InState("ENABLED") :
    \/ t \in ToSet(pending)
    \/ Cardinality(busyConnections) >= GLOBAL_LIMIT
    \/ HostLimitReached(t)

\* The load time is recorded when the last transfer finishes.
LoadTime == finishTime <=> finishedTransfers = Transfers

-----------------------------------------------------------------------------
(* Facts about a state that satisfies the invariant *)

\* The transfer the loop of notify comes to next.
LEMMA PendingHead ==
  ASSUME Inv, pending # <<>>
  PROVE  /\ Head(pending) \in Transfers
         /\ tState[Head(pending)] = "ENABLED"
         /\ Head(pending) \in ToSet(enabledTransfers)
         /\ cState[Head(pending)] = "NONE"
         /\ Tail(pending) \in Seq(Transfers)
         /\ IsInjective(Tail(pending))
         /\ ToSet(Tail(pending)) = ToSet(pending) \ {Head(pending)}
         /\ \A i \in DOMAIN Tail(pending) :
              tState[Tail(pending)[i]] = "ENABLED" /\ Tail(pending)[i] # Head(pending)
<1>1. /\ pending \in Seq(Transfers) /\ IsInjective(pending)
      /\ \A i \in DOMAIN pending : tState[pending[i]] = "ENABLED"
  BY DEF Inv, TypeOK, AssertionsHold
<1>2. /\ Tail(pending) \in Seq(Transfers) /\ Head(pending) \in Transfers
      /\ Len(Tail(pending)) = Len(pending) - 1
      /\ \A i \in 1 .. Len(Tail(pending)) : Tail(pending)[i] = pending[i + 1]
      /\ IsInjective(Tail(pending))
      /\ ToSet(Tail(pending)) = ToSet(pending) \ {Head(pending)}
      /\ Head(pending) \in ToSet(pending)
  BY <1>1, TailOfInjective
<1>3. \A x \in ToSet(pending) : tState[x] = "ENABLED"
  BY <1>1 DEF ToSet
<1>4. tState[Head(pending)] = "ENABLED"
  BY <1>2, <1>3
<1>5. Head(pending) \in ToSet(enabledTransfers) /\ cState[Head(pending)] = "NONE"
  BY <1>2, <1>4 DEF Inv, BookkeepingConsistent, InState, Fresh
<1>6. \A i \in DOMAIN Tail(pending) : Tail(pending)[i] \in ToSet(Tail(pending))
  BY DEF ToSet
<1> QED
  BY <1>2, <1>3, <1>4, <1>5, <1>6

\* Nobody but a scheduled transfer is in a pipeline.
LEMMA InPipeline ==
  ASSUME Inv, NEW c \in Conns, NEW i \in DOMAIN cTransfers[c]
  PROVE  /\ cTransfers[c][i] \in Transfers
         /\ tState[cTransfers[c][i]] \in {"ACTIVE", "ENQUEUED"}
         /\ tConn[cTransfers[c][i]] = c
         /\ cTransfers[c][i] # finishing
<1>1. cTransfers[c] \in Seq(Transfers)
  BY DEF Inv, TypeOK
<1>2. cTransfers[c][i] \in Transfers
  BY <1>1
<1>3. /\ tConn[cTransfers[c][i]] = c
      /\ tState[cTransfers[c][i]] = IF i = 1 THEN "ACTIVE" ELSE "ENQUEUED"
  BY DEF Inv, PipelinesConsistent, PipelineOf
<1>4. tState[cTransfers[c][i]] \in {"ACTIVE", "ENQUEUED"}
  BY <1>3
<1>5. cTransfers[c][i] \in ToSet(cTransfers[tConn[cTransfers[c][i]]])
  BY <1>3 DEF ToSet
<1> QED
  BY <1>2, <1>3, <1>4, <1>5 DEF Inv, PipelinesConsistent, Reachable

\* Nothing is in the pipeline of a connection that is not busy.
LEMMA EmptyPipeline ==
  ASSUME Inv, NEW c \in Conns, cState[c] # "BUSY"
  PROVE  cTransfers[c] = <<>>
BY DEF Inv, PipelinesConsistent, PipelineOf

\* What _executePrediction closes is idle and is not the connection it uses.
LEMMA VictimsAreIdle ==
  ASSUME NEW c, NEW victims \in Victims(c)
  PROVE  victims \subseteq idleConnections \ {c}
BY DEF Victims

-----------------------------------------------------------------------------
(* Each step preserves the invariant *)

LEMMA StartOnInv ==
  ASSUME Inv, pending # <<>>, NEW t, t = Head(pending), NEW c \in Conns,
         c = t \/ c \in idleConnections,
         page.origin[c] = page.origin[t] /\ page.ssl[c] = page.ssl[t],
         NEW victims, victims \subseteq idleConnections \ {c}, StartOn(t, c, victims)
  PROVE  Inv'
<1> USE DEF StartOn, BusiedConnection
<1>1. /\ t \in Transfers /\ tState[t] = "ENABLED" /\ t \in ToSet(enabledTransfers)
      /\ cState[t] = "NONE"
      /\ pending' \in Seq(Transfers) /\ IsInjective(pending')
      /\ \A i \in DOMAIN pending' : tState[pending'[i]] = "ENABLED" /\ pending'[i] # t
  BY PendingHead
<1>2. cState[c] \in {"NONE", "IDLE"} /\ \A d \in victims : cState[d] = "IDLE"
  BY <1>1 DEF Inv, BookkeepingConsistent, ConnsIn
<1>3. cTransfers[c] = <<>>
  BY <1>2, EmptyPipeline
<1>4. /\ RemoveFirst(enabledTransfers, t) \in Seq(Transfers)
      /\ IsInjective(RemoveFirst(enabledTransfers, t))
      /\ ToSet(RemoveFirst(enabledTransfers, t)) = ToSet(enabledTransfers) \ {t}
  BY <1>1, RemoveFirstProperties DEF Inv, TypeOK, BookkeepingConsistent
<1>5. cTransfers'[c] = <<t>>
  BY <1>3 DEF Inv, TypeOK
<1>6. \A d \in Conns : d # c => cTransfers'[d] = cTransfers[d]
  BY DEF Inv, TypeOK
<1>7. TypeOK'
  <2>1. cTransfers' \in [Conns -> Seq(Transfers)]
    BY <1>1, <1>3 DEF Inv, TypeOK
  <2>2. connectionOrigin' \in [Origins -> SUBSET Conns]
    BY DEF Inv, TypeOK
  <2>3. /\ tState' \in [Transfers -> TransferState] /\ tConn' \in [Transfers -> Conns \cup {NoConn}]
        /\ cState' \in [Conns -> ConnState]
    BY <1>1 DEF Inv, TypeOK, TransferState, ConnState
  <2> QED
    BY <1>1, <1>4, <2>1, <2>2, <2>3 DEF Inv, TypeOK, Conns
<1>8. BookkeepingConsistent'
  <2>1. /\ newTransfers' = InState("NEW")' /\ enqueuedTransfers' = InState("ENQUEUED")'
        /\ activeTransfers' = InState("ACTIVE")' /\ finishedTransfers' = InState("FINISHED")'
        /\ ToSet(enabledTransfers') = InState("ENABLED")' /\ IsInjective(enabledTransfers')
    BY <1>1, <1>4 DEF Inv, TypeOK, BookkeepingConsistent, InState
  <2>2. /\ busyConnections' = ConnsIn("BUSY")' /\ idleConnections' = ConnsIn("IDLE")'
        /\ closedConnections' = ConnsIn("CLOSED")'
    BY <1>2 DEF Inv, TypeOK, BookkeepingConsistent, ConnsIn
  <2>3. ASSUME NEW o \in Origins
        PROVE  connectionOrigin'[o] = {d \in busyConnections' : page'.origin[d] = o}
    BY DEF Inv, TypeOK, BookkeepingConsistent
  <2> QED
    BY <2>1, <2>2, <2>3 DEF BookkeepingConsistent
<1>9. PipelinesConsistent'
  <2>1. ASSUME NEW d \in Conns
        PROVE  PipelineOf(d)'
    <3>1. CASE d = c
      <4>1. DOMAIN cTransfers'[c] = {1} /\ cTransfers'[c][1] = t /\ cTransfers'[c] # <<>>
        <5> HIDE DEF StartOn, BusiedConnection
        <5> QED BY <1>5
      <4> QED
        BY <3>1, <4>1, <1>1 DEF Inv, TypeOK, PipelineOf, IsInjective
    <3>2. CASE d # c
      <4>1. cTransfers'[d] = cTransfers[d] /\ (cState'[d] = "BUSY" <=> cState[d] = "BUSY")
        BY <1>2, <1>6, <3>2 DEF Inv, TypeOK
      <4>2. ASSUME NEW i \in DOMAIN cTransfers[d]
            PROVE  /\ cTransfers[d][i] \in Transfers \ {t}
                   /\ tConn'[cTransfers[d][i]] = tConn[cTransfers[d][i]]
                   /\ tState'[cTransfers[d][i]] = tState[cTransfers[d][i]]
        <5>1. /\ cTransfers[d][i] \in Transfers
              /\ tState[cTransfers[d][i]] \in {"ACTIVE", "ENQUEUED"}
          BY InPipeline
        <5> QED BY <1>1, <5>1 DEF Inv, TypeOK
      <4>3. PipelineOf(d) /\ page' = page
        BY DEF Inv, PipelinesConsistent
      <4> HIDE DEF StartOn
      <4> QED
        BY <4>1, <4>2, <4>3 DEF PipelineOf
    <3> QED BY <3>1, <3>2
  <2>2. ASSUME NEW x \in Transfers
        PROVE  Reachable(x)'
    <3>1. CASE x = t
      <4>1. tConn'[t] = c /\ t \in ToSet(<<t>>)
        BY <1>1 DEF Inv, TypeOK, ToSet
      <4>2. finishing' # t
        BY <1>1 DEF Inv, AssertionsHold, NoTransfer, Transfers
      <4> QED
        BY <1>5, <3>1, <4>1, <4>2 DEF Reachable
    <3>2. CASE x # t
      <4>1. tState'[x] = tState[x] /\ tConn'[x] = tConn[x] /\ finishing' = finishing
        BY <3>2 DEF Inv, TypeOK
      <4>2. tConn[x] = c => x \notin ToSet(cTransfers[tConn[x]]) /\ x \notin ToSet(cTransfers'[tConn[x]])
        BY <1>3, <1>5, <3>2 DEF ToSet
      <4> QED
        BY <1>6, <4>1, <4>2 DEF Inv, PipelinesConsistent, Reachable
    <3> QED BY <3>1, <3>2
  <2> QED
    BY <2>1, <2>2 DEF PipelinesConsistent
<1>10. AssertionsHold'
  <2>1. \A i \in DOMAIN pending' : tState'[pending'[i]] = "ENABLED"
    BY <1>1 DEF Inv, TypeOK
  <2>2. finishing' # NoTransfer => tState'[finishing'] = "ACTIVE"
    BY <1>1 DEF Inv, TypeOK, AssertionsHold
  <2>3. \A x \in toEnable' : tState'[x] = "NEW"
    BY <1>1 DEF Inv, TypeOK, AssertionsHold
  <2>4. ASSUME NEW d \in idleConnections' \cup closedConnections'
        PROVE  cTransfers'[d] = <<>>
    <3>1. d \in Conns /\ d # c /\ cState[d] # "BUSY"
      BY <1>2 DEF Inv, TypeOK, BookkeepingConsistent, ConnsIn
    <3> QED BY <3>1, <1>6, EmptyPipeline
  <2> QED
    BY <1>1, <2>1, <2>2, <2>3, <2>4 DEF AssertionsHold
<1>11. Fresh'
  <2> SUFFICES ASSUME NEW x \in Transfers, tState'[x] \in {"NEW", "ENABLED"}
               PROVE  cState'[x] = "NONE"
    BY DEF Fresh
  <2>1. x # t /\ tState[x] \in {"NEW", "ENABLED"}
    BY <1>1 DEF Inv, TypeOK
  <2>2. cState[x] = "NONE"
    BY <2>1 DEF Inv, Fresh
  <2>3. x # c /\ x \notin victims
    BY <1>2, <2>1, <2>2 DEF Inv, BookkeepingConsistent, ConnsIn
  <2> QED
    BY <2>2, <2>3 DEF Conns
<1>12. Dependency'
  BY <1>1 DEF Inv, TypeOK, Dependency
<1>13. StackShape'
  BY DEF Inv, StackShape
<1> QED
  BY <1>7, <1>8, <1>9, <1>10, <1>11, <1>12, <1>13 DEF Inv

LEMMA EnqueueOnInv ==
  ASSUME Inv, pending # <<>>, NEW t, t = Head(pending), NEW c \in busyConnections,
         page.origin[c] = page.origin[t] /\ page.ssl[c] = page.ssl[t],
         NEW victims, victims \subseteq idleConnections \ {c}, EnqueueOn(t, c, victims)
  PROVE  Inv'
<1> USE DEF EnqueueOn
<1>1. /\ t \in Transfers /\ tState[t] = "ENABLED" /\ t \in ToSet(enabledTransfers)
      /\ cState[t] = "NONE"
      /\ pending' \in Seq(Transfers) /\ IsInjective(pending')
      /\ \A i \in DOMAIN pending' : tState[pending'[i]] = "ENABLED" /\ pending'[i] # t
  BY PendingHead
<1>2. c \in Conns /\ cState[c] = "BUSY" /\ \A d \in victims : cState[d] = "IDLE"
  BY <1>1 DEF Inv, BookkeepingConsistent, ConnsIn
<1>3. /\ cTransfers[c] \in Seq(Transfers) /\ IsInjective(cTransfers[c]) /\ cTransfers[c] # <<>>
      /\ t \notin ToSet(cTransfers[c])
  <2>1. \A i \in DOMAIN cTransfers[c] : cTransfers[c][i] # t
    BY <1>1, <1>2, InPipeline, ZenonT(60)
  <2> QED
    BY <1>2, <2>1 DEF Inv, TypeOK, PipelinesConsistent, PipelineOf, ToSet
<1>4. /\ RemoveFirst(enabledTransfers, t) \in Seq(Transfers)
      /\ IsInjective(RemoveFirst(enabledTransfers, t))
      /\ ToSet(RemoveFirst(enabledTransfers, t)) = ToSet(enabledTransfers) \ {t}
  BY <1>1, RemoveFirstProperties DEF Inv, TypeOK, BookkeepingConsistent
<1>5. cTransfers'[c] = Append(cTransfers[c], t)
  BY <1>2 DEF Inv, TypeOK
<1>5a. /\ cTransfers'[c] \in Seq(Transfers) /\ cTransfers'[c] # <<>>
       /\ Len(cTransfers'[c]) = Len(cTransfers[c]) + 1
       /\ \A i \in 1 .. Len(cTransfers[c]) : cTransfers'[c][i] = cTransfers[c][i]
       /\ cTransfers'[c][Len(cTransfers[c]) + 1] = t
       /\ IsInjective(cTransfers'[c])
       /\ ToSet(cTransfers'[c]) = ToSet(cTransfers[c]) \cup {t}
  BY <1>1, <1>3, <1>5, AppendToInjective
<1>6. \A d \in Conns : d # c => cTransfers'[d] = cTransfers[d]
  BY DEF Inv, TypeOK
<1>7. TypeOK'
  <2>1. cTransfers' \in [Conns -> Seq(Transfers)]
    BY <1>1, <1>3, <1>5a DEF Inv, TypeOK
  <2>2. /\ tState' \in [Transfers -> TransferState] /\ tConn' \in [Transfers -> Conns \cup {NoConn}]
        /\ cState' \in [Conns -> ConnState]
    BY <1>1, <1>2 DEF Inv, TypeOK, TransferState, ConnState
  <2> QED
    BY <1>1, <1>4, <2>1, <2>2 DEF Inv, TypeOK, Conns
<1>8. BookkeepingConsistent'
  <2>1. /\ newTransfers' = InState("NEW")' /\ enqueuedTransfers' = InState("ENQUEUED")'
        /\ activeTransfers' = InState("ACTIVE")' /\ finishedTransfers' = InState("FINISHED")'
        /\ ToSet(enabledTransfers') = InState("ENABLED")' /\ IsInjective(enabledTransfers')
    BY <1>1, <1>4 DEF Inv, TypeOK, BookkeepingConsistent, InState
  <2>2. /\ busyConnections' = ConnsIn("BUSY")' /\ idleConnections' = ConnsIn("IDLE")'
        /\ closedConnections' = ConnsIn("CLOSED")'
    BY <1>2 DEF Inv, TypeOK, BookkeepingConsistent, ConnsIn
  <2>3. ASSUME NEW o \in Origins
        PROVE  connectionOrigin'[o] = {d \in busyConnections' : page'.origin[d] = o}
    BY DEF Inv, TypeOK, BookkeepingConsistent
  <2> QED
    BY <2>1, <2>2, <2>3 DEF BookkeepingConsistent
<1>9. PipelinesConsistent'
  <2>0. \A x \in Transfers : x # t => tState'[x] = tState[x] /\ tConn'[x] = tConn[x]
    BY DEF Inv, TypeOK
  <2>1. ASSUME NEW d \in Conns
        PROVE  PipelineOf(d)'
    <3>0. /\ PipelineOf(d) /\ page' = page
          /\ cState'[d] = "BUSY" <=> cState[d] = "BUSY"
      BY <1>2 DEF Inv, PipelinesConsistent, TypeOK
    <3>1. ASSUME NEW i \in DOMAIN cTransfers[d]
          PROVE  /\ cTransfers[d][i] \in Transfers \ {t}
                 /\ tConn'[cTransfers[d][i]] = tConn[cTransfers[d][i]]
                 /\ tState'[cTransfers[d][i]] = tState[cTransfers[d][i]]
      <4>1. /\ cTransfers[d][i] \in Transfers
            /\ tState[cTransfers[d][i]] \in {"ACTIVE", "ENQUEUED"}
        BY InPipeline
      <4> QED BY <1>1, <2>0, <4>1
    <3>2. CASE d = c
      <4>1. tConn'[t] = c /\ tState'[t] = "ENQUEUED"
        BY <1>1 DEF Inv, TypeOK
      <4>2. /\ DOMAIN cTransfers[c] = 1 .. Len(cTransfers[c]) /\ Len(cTransfers[c]) \in Nat \ {0}
            /\ DOMAIN cTransfers'[c] = 1 .. (Len(cTransfers[c]) + 1)
        BY <1>3, <1>5a
      <4>3. ASSUME NEW i \in DOMAIN cTransfers'[c]
            PROVE  LET x == cTransfers'[c][i]
                   IN  /\ tConn'[x] = c
                       /\ tState'[x] = IF i = 1 THEN "ACTIVE" ELSE "ENQUEUED"
                       /\ page'.origin[x] = page'.origin[c] /\ page'.ssl[x] = page'.ssl[c]
        <5>1. CASE i = Len(cTransfers[c]) + 1
          BY <5>1, <3>0, <4>1, <4>2, <1>5a
        <5>2. CASE i \in DOMAIN cTransfers[c]
          BY <5>2, <3>0, <3>1, <3>2, <4>2, <1>5a DEF PipelineOf
        <5> QED BY <4>2, <5>1, <5>2
      <4> QED
        BY <3>0, <3>2, <4>3, <1>2, <1>5a DEF PipelineOf
    <3>3. CASE d # c
      BY <1>6, <3>0, <3>1, <3>3 DEF PipelineOf
    <3> QED BY <3>2, <3>3
  <2>2. ASSUME NEW x \in Transfers
        PROVE  Reachable(x)'
    <3>1. CASE x = t
      <4>1. tConn'[t] = c
        BY <1>1 DEF Inv, TypeOK
      <4>2. finishing' # t
        BY <1>1 DEF Inv, AssertionsHold, NoTransfer, Transfers
      <4> QED
        BY <1>2, <1>5a, <3>1, <4>1, <4>2 DEF Reachable
    <3>2. CASE x # t
      <4>1. tState'[x] = tState[x] /\ tConn'[x] = tConn[x] /\ finishing' = finishing
        BY <2>0, <3>2
      <4>2. tConn[x] \in Conns =>
              (x \in ToSet(cTransfers[tConn[x]]) <=> x \in ToSet(cTransfers'[tConn[x]]))
        BY <1>5a, <1>6, <3>2
      <4>3. Reachable(x)
        BY DEF Inv, PipelinesConsistent
      <4> QED
        BY <4>1, <4>2, <4>3 DEF Reachable
    <3> QED BY <3>1, <3>2
  <2> QED
    BY <2>1, <2>2 DEF PipelinesConsistent
<1>10. AssertionsHold'
  <2>1. \A i \in DOMAIN pending' : tState'[pending'[i]] = "ENABLED"
    BY <1>1 DEF Inv, TypeOK
  <2>2. finishing' # NoTransfer => tState'[finishing'] = "ACTIVE"
    BY <1>1 DEF Inv, TypeOK, AssertionsHold
  <2>3. \A x \in toEnable' : tState'[x] = "NEW"
    BY <1>1 DEF Inv, TypeOK, AssertionsHold
  <2>4. ASSUME NEW d \in idleConnections' \cup closedConnections'
        PROVE  cTransfers'[d] = <<>>
    <3>1. d \in Conns /\ d # c /\ cState[d] # "BUSY"
      BY <1>2 DEF Inv, TypeOK, BookkeepingConsistent, ConnsIn
    <3> QED BY <3>1, <1>6, EmptyPipeline
  <2> QED
    BY <1>1, <2>1, <2>2, <2>3, <2>4 DEF AssertionsHold
<1>11. Fresh'
  <2> SUFFICES ASSUME NEW x \in Transfers, tState'[x] \in {"NEW", "ENABLED"}
               PROVE  cState'[x] = "NONE"
    BY DEF Fresh
  <2>1. x # t /\ tState[x] \in {"NEW", "ENABLED"}
    BY <1>1 DEF Inv, TypeOK
  <2>2. cState[x] = "NONE"
    BY <2>1 DEF Inv, Fresh
  <2>3. x \notin victims
    BY <1>2, <2>2
  <2> QED
    BY <2>2, <2>3 DEF Conns
<1>12. Dependency'
  BY <1>1 DEF Inv, TypeOK, Dependency
<1>13. StackShape'
  BY DEF Inv, StackShape
<1> QED
  BY <1>7, <1>8, <1>9, <1>10, <1>11, <1>12, <1>13 DEF Inv

LEMMA FinishTransferInv ==
  ASSUME Inv, FinishTransfer
  PROVE  Inv'
<1> USE DEF FinishTransfer
<1>1. /\ finishing \in Transfers /\ tState[finishing] = "ACTIVE"
      /\ \A x \in Transfers : x # finishing => tState'[x] = tState[x]
      /\ tState'[finishing] = "FINISHED"
  BY DEF Inv, TypeOK, AssertionsHold
<1>2. TypeOK'
  BY <1>1 DEF Inv, TypeOK, Children, TransferState, NoTransfer
<1>3. BookkeepingConsistent'
  <2>1. /\ newTransfers' = InState("NEW")' /\ enqueuedTransfers' = InState("ENQUEUED")'
        /\ activeTransfers' = InState("ACTIVE")' /\ finishedTransfers' = InState("FINISHED")'
        /\ ToSet(enabledTransfers') = InState("ENABLED")'
    BY <1>1 DEF Inv, BookkeepingConsistent, InState
  <2> QED
    BY <2>1 DEF Inv, BookkeepingConsistent, ConnsIn
<1>4. PipelinesConsistent'
  <2>1. ASSUME NEW d \in Conns
        PROVE  PipelineOf(d)'
    <3>1. ASSUME NEW i \in DOMAIN cTransfers[d]
          PROVE  cTransfers[d][i] \in Transfers /\ tState'[cTransfers[d][i]] = tState[cTransfers[d][i]]
      BY <1>1, InPipeline
    <3>2. PipelineOf(d) /\ UNCHANGED <<page, tConn, cState, cTransfers>>
      BY DEF Inv, PipelinesConsistent
    <3> QED BY <3>1, <3>2 DEF PipelineOf
  <2>2. ASSUME NEW x \in Transfers
        PROVE  Reachable(x)'
    <3>1. Reachable(x)
      BY DEF Inv, PipelinesConsistent
    <3>2. finishing' # x
      BY DEF NoTransfer, Transfers
    <3> QED
      BY <1>1, <3>1, <3>2 DEF Reachable
  <2> QED BY <2>1, <2>2 DEF PipelinesConsistent
<1>5. AssertionsHold'
  <2>1. ASSUME NEW x \in Children(finishing)
        PROVE  tState'[x] = "NEW"
    <3>1. x \in Transfers /\ page.parent[x] = finishing
      BY DEF Children
    <3>2. tState[x] = "NEW"
      BY <1>1, <3>1 DEF Inv, Dependency, NoTransfer, Transfers
    <3> QED BY <1>1, <3>1, <3>2
  <2>2. pending' = <<>> /\ IsInjective(pending)
    BY DEF Inv, AssertionsHold
  <2>3. \A d \in idleConnections' \cup closedConnections' : cTransfers'[d] = <<>>
    BY DEF Inv, AssertionsHold
  <2> QED BY <2>1, <2>2, <2>3 DEF AssertionsHold
<1>6. Fresh'
  BY <1>1 DEF Inv, Fresh
<1>7. Dependency'
  <2> SUFFICES ASSUME NEW x \in Transfers
               PROVE  /\ tState'[x] # "NEW" /\ page.parent[x] # NoTransfer =>
                           tState'[page.parent[x]] = "FINISHED"
                      /\ tState'[x] = "NEW" =>
                           /\ page.parent[x] # NoTransfer
                           /\ tState'[page.parent[x]] = "FINISHED" <=> x \in Children(finishing)
    BY DEF Dependency
  <2>0. page.parent[x] \in Transfers \cup {NoTransfer}
    BY PagesAssumption DEF Inv, TypeOK, Page
  <2>1. toEnable = {}
    BY DEF Inv, StackShape
  <2>2. /\ tState[x] # "NEW" /\ page.parent[x] # NoTransfer => tState[page.parent[x]] = "FINISHED"
        /\ tState[x] = "NEW" => page.parent[x] # NoTransfer /\ tState[page.parent[x]] # "FINISHED"
    BY <2>1 DEF Inv, Dependency
  <2>3. CASE page.parent[x] = finishing
    BY <1>1, <2>2, <2>3 DEF Children
  <2>4. CASE page.parent[x] # finishing
    BY <1>1, <2>0, <2>2, <2>4 DEF Children
  <2> QED
    BY <2>3, <2>4
<1>8. StackShape'
  BY DEF StackShape
<1> QED
  BY <1>2, <1>3, <1>4, <1>5, <1>6, <1>7, <1>8 DEF Inv

LEMMA EnableChildInv ==
  ASSUME Inv, EnableChild
  PROVE  Inv'
<1>1. PICK t \in toEnable :
         /\ tState' = [tState EXCEPT ![t] = "ENABLED"]
         /\ newTransfers' = newTransfers \ {t}
         /\ enabledTransfers' = Append(enabledTransfers, t)
         /\ toEnable' = toEnable \ {t}
         /\ pending' = NotifyPass(enabledTransfers', busyConnections)
  BY DEF EnableChild
<1>2. /\ pending = <<>> /\ finishing = NoTransfer
      /\ UNCHANGED <<page, tConn, enqueuedTransfers, activeTransfers, finishedTransfers,
                     finishTime, cState, cTransfers, busyConnections, idleConnections,
                     closedConnections, connectionOrigin, finishing>>
  BY DEF EnableChild
<1>3. /\ t \in Transfers /\ tState[t] = "NEW"
      /\ tState'[t] = "ENABLED"
      /\ \A x \in Transfers : x # t => tState'[x] = tState[x]
  BY <1>1 DEF Inv, TypeOK, AssertionsHold
<1>4. t \notin ToSet(enabledTransfers)
  BY <1>3 DEF Inv, BookkeepingConsistent, InState
<1>5. /\ enabledTransfers' \in Seq(Transfers) /\ IsInjective(enabledTransfers')
      /\ ToSet(enabledTransfers') = ToSet(enabledTransfers) \cup {t}
  BY <1>1, <1>3, <1>4, AppendToInjective DEF Inv, TypeOK, BookkeepingConsistent
<1>6. pending' \in {<<>>, enabledTransfers'}
  BY <1>1 DEF NotifyPass
<1>7. TypeOK'
  <2>1. pending' \in Seq(Transfers)
    <3>1. <<>> \in Seq(Transfers)
      OBVIOUS
    <3> QED BY <1>5, <1>6, <3>1
  <2>2. tState' \in [Transfers -> TransferState]
    BY <1>1, <1>3 DEF Inv, TypeOK, TransferState
  <2> QED BY <1>1, <1>2, <1>5, <2>1, <2>2 DEF Inv, TypeOK
<1>8. BookkeepingConsistent'
  <2>1. /\ newTransfers' = InState("NEW")' /\ enqueuedTransfers' = InState("ENQUEUED")'
        /\ activeTransfers' = InState("ACTIVE")' /\ finishedTransfers' = InState("FINISHED")'
        /\ ToSet(enabledTransfers') = InState("ENABLED")'
    BY <1>1, <1>2, <1>3, <1>5 DEF Inv, BookkeepingConsistent, InState
  <2> QED
    BY <1>2, <1>5, <2>1 DEF Inv, BookkeepingConsistent, ConnsIn
<1>9. PipelinesConsistent'
  <2>1. ASSUME NEW d \in Conns
        PROVE  PipelineOf(d)'
    <3>1. ASSUME NEW i \in DOMAIN cTransfers[d]
          PROVE  tState'[cTransfers[d][i]] = tState[cTransfers[d][i]]
      BY <1>3, InPipeline
    <3>2. PipelineOf(d)
      BY DEF Inv, PipelinesConsistent
    <3> QED BY <1>2, <3>1, <3>2 DEF PipelineOf
  <2>2. ASSUME NEW x \in Transfers
        PROVE  Reachable(x)'
    <3>1. Reachable(x)
      BY DEF Inv, PipelinesConsistent
    <3> QED
      BY <1>2, <1>3, <3>1 DEF Reachable
  <2> QED BY <2>1, <2>2 DEF PipelinesConsistent
<1>10. AssertionsHold'
  <2>1. \A x \in ToSet(enabledTransfers') : tState'[x] = "ENABLED"
    BY <1>8 DEF BookkeepingConsistent, InState
  <2>2. /\ \A i \in DOMAIN pending' : tState'[pending'[i]] = "ENABLED"
        /\ IsInjective(pending')
    BY <1>5, <1>6, <2>1 DEF ToSet, IsInjective
  <2>3. \A x \in toEnable' : tState'[x] = "NEW"
    BY <1>1, <1>3 DEF Inv, TypeOK, AssertionsHold
  <2> QED
    BY <1>2, <2>2, <2>3 DEF Inv, AssertionsHold
<1>11. Fresh'
  BY <1>2, <1>3 DEF Inv, Fresh
<1>12. Dependency'
  <2> SUFFICES ASSUME NEW x \in Transfers
               PROVE  /\ tState'[x] # "NEW" /\ page.parent[x] # NoTransfer =>
                           tState'[page.parent[x]] = "FINISHED"
                      /\ tState'[x] = "NEW" =>
                           /\ page.parent[x] # NoTransfer
                           /\ tState'[page.parent[x]] = "FINISHED" <=> x \in toEnable'
    BY <1>2 DEF Dependency
  <2>0. page.parent[x] \in Transfers \cup {NoTransfer}
    BY PagesAssumption DEF Inv, TypeOK, Page
  <2>1. page.parent[x] \in Transfers =>
          (tState'[page.parent[x]] = "FINISHED" <=> tState[page.parent[x]] = "FINISHED")
    BY <1>3
  <2>2. /\ tState[x] # "NEW" /\ page.parent[x] # NoTransfer => tState[page.parent[x]] = "FINISHED"
        /\ tState[x] = "NEW" => /\ page.parent[x] # NoTransfer
                                /\ tState[page.parent[x]] = "FINISHED" <=> x \in toEnable
    BY DEF Inv, Dependency
  <2>3. CASE x = t
    BY <1>1, <1>3, <2>0, <2>1, <2>2, <2>3
  <2>4. CASE x # t
    BY <1>1, <1>3, <2>0, <2>1, <2>2, <2>4
  <2> QED
    BY <2>3, <2>4
<1>13. StackShape'
  BY <1>2 DEF StackShape
<1> QED
  BY <1>7, <1>8, <1>9, <1>10, <1>11, <1>12, <1>13 DEF Inv

\* A connection goes idle: the pipeline holds just the transfer that is done.
LEMMA GoIdleInv ==
  ASSUME Inv, NEW c \in Conns, GoIdle(c)
  PROVE  Inv'
<1> USE DEF GoIdle, IdledConnection
<1>1. /\ cTransfers[c] \in Seq(Transfers) /\ Len(cTransfers[c]) = 1 /\ cState[c] = "BUSY"
      /\ pending = <<>> /\ finishing = NoTransfer /\ toEnable = {}
  BY DEF Inv, TypeOK, CallStackEmpty
<1>2. /\ finishing' = cTransfers[c][1] /\ cTransfers'[c] = <<>>
      /\ 1 \in DOMAIN cTransfers[c] /\ \A i \in DOMAIN cTransfers[c] : i = 1
  BY <1>1 DEF Inv, TypeOK
<1>3. \A d \in Conns : d # c => cTransfers'[d] = cTransfers[d] /\ cState'[d] = cState[d]
  BY DEF Inv, TypeOK
<1>4. /\ finishing' \in Transfers /\ tState[finishing'] = "ACTIVE" /\ tConn[finishing'] = c
  BY <1>2, InPipeline DEF Inv, PipelinesConsistent, PipelineOf
<1>5. pending' \in {<<>>, enabledTransfers}
  BY DEF NotifyPass
<1>6. cState'[c] = "IDLE"
  BY DEF Inv, TypeOK
<1>7. TypeOK'
  <2>0. <<>> \in Seq(Transfers)
    OBVIOUS
  <2>1. pending' \in Seq(Transfers)
    BY <1>5, <2>0 DEF Inv, TypeOK
  <2>2a. cTransfers' \in [Conns -> Seq(Transfers)]
    <3>1. Tail(cTransfers[c]) \in Seq(Transfers)
      BY <1>1
    <3>2. cTransfers' = [cTransfers EXCEPT ![c] = Tail(cTransfers[c])]
      OBVIOUS
    <3> HIDE DEF GoIdle, IdledConnection
    <3> QED BY <3>1, <3>2 DEF Inv, TypeOK
  <2>2. cState' \in [Conns -> ConnState]
    BY DEF Inv, TypeOK, ConnState
  <2>3. connectionOrigin' \in [Origins -> SUBSET Conns]
    BY DEF Inv, TypeOK
  <2> QED BY <1>4, <2>1, <2>2a, <2>2, <2>3 DEF Inv, TypeOK
<1>8. BookkeepingConsistent'
  <2>1. /\ newTransfers' = InState("NEW")' /\ enqueuedTransfers' = InState("ENQUEUED")'
        /\ activeTransfers' = InState("ACTIVE")' /\ finishedTransfers' = InState("FINISHED")'
        /\ ToSet(enabledTransfers') = InState("ENABLED")' /\ IsInjective(enabledTransfers')
    BY DEF Inv, BookkeepingConsistent, InState
  <2>2. /\ busyConnections' = ConnsIn("BUSY")' /\ idleConnections' = ConnsIn("IDLE")'
        /\ closedConnections' = ConnsIn("CLOSED")'
    BY <1>1, <1>3, <1>6 DEF Inv, BookkeepingConsistent, ConnsIn
  <2>3. ASSUME NEW o \in Origins
        PROVE  connectionOrigin'[o] = {d \in busyConnections' : page'.origin[d] = o}
    BY DEF Inv, TypeOK, BookkeepingConsistent
  <2> QED
    BY <2>1, <2>2, <2>3 DEF BookkeepingConsistent
<1>9. PipelinesConsistent'
  <2>1. ASSUME NEW d \in Conns
        PROVE  PipelineOf(d)'
    <3>1. CASE d = c
      BY <1>2, <1>6, <3>1 DEF PipelineOf, IsInjective
    <3>2. CASE d # c
      <4>1. PipelineOf(d) /\ UNCHANGED <<page, tState, tConn>>
        BY DEF Inv, PipelinesConsistent
      <4> QED BY <1>3, <3>2, <4>1 DEF PipelineOf
    <3> QED BY <3>1, <3>2
  <2>2. ASSUME NEW x \in Transfers
        PROVE  Reachable(x)'
    <3>1. Reachable(x) /\ finishing # x /\ UNCHANGED <<tState, tConn>>
      BY <1>1 DEF Inv, PipelinesConsistent, NoTransfer, Transfers
    <3>2. tConn[x] = c => (x \in ToSet(cTransfers[c]) <=> x = finishing') /\ x \notin ToSet(cTransfers'[c])
      BY <1>2 DEF ToSet
    <3>3. tConn[x] \in Conns /\ tConn[x] # c => cTransfers'[tConn[x]] = cTransfers[tConn[x]] /\ x # finishing'
      BY <1>3, <1>4
    <3> QED
      BY <3>1, <3>2, <3>3 DEF Reachable
  <2> QED BY <2>1, <2>2 DEF PipelinesConsistent
<1>10. AssertionsHold'
  <2>1. \A x \in ToSet(enabledTransfers) : tState'[x] = "ENABLED"
    BY DEF Inv, BookkeepingConsistent, InState
  <2>2. /\ \A i \in DOMAIN pending' : tState'[pending'[i]] = "ENABLED"
        /\ IsInjective(pending')
    <3>1. CASE pending' = <<>>
      <4>1. DOMAIN pending' = {}
        BY <3>1
      <4> HIDE DEF GoIdle, IdledConnection
      <4> QED BY <4>1 DEF IsInjective
    <3>2. CASE pending' = enabledTransfers
      <4>1. IsInjective(enabledTransfers) /\ \A i \in DOMAIN enabledTransfers :
              enabledTransfers[i] \in ToSet(enabledTransfers)
        BY DEF ToSet, Inv, BookkeepingConsistent
      <4> HIDE DEF GoIdle, IdledConnection
      <4> QED BY <3>2, <2>1, <4>1
    <3> QED BY <1>5, <3>1, <3>2
  <2>3. ASSUME NEW d \in idleConnections' \cup closedConnections'
        PROVE  cTransfers'[d] = <<>>
    BY <1>2, <1>3 DEF Inv, TypeOK, AssertionsHold
  <2> QED
    BY <1>1, <1>4, <2>2, <2>3 DEF AssertionsHold
<1>11. Fresh'
  BY <1>1, <1>3, <1>6 DEF Inv, Fresh, Conns
<1>12. Dependency'
  BY DEF Inv, Dependency
<1>13. StackShape'
  BY <1>1 DEF StackShape
<1> QED
  BY <1>7, <1>8, <1>9, <1>10, <1>11, <1>12, <1>13 DEF Inv

LEMMA StartNextInv ==
  ASSUME Inv, NEW c \in Conns, StartNext(c)
  PROVE  Inv'
<1> DEFINE s == cTransfers[c]
           t == s[2]
<1>1. /\ s \in Seq(Transfers) /\ IsInjective(s) /\ Len(s) > 1 /\ cState[c] = "BUSY"
      /\ pending = <<>> /\ finishing = NoTransfer /\ toEnable = {}
  BY DEF Inv, TypeOK, PipelinesConsistent, PipelineOf, StartNext, CallStackEmpty
<1>2. /\ Tail(s) \in Seq(Transfers) /\ Len(Tail(s)) = Len(s) - 1
      /\ \A i \in 1 .. Len(Tail(s)) : Tail(s)[i] = s[i + 1]
      /\ IsInjective(Tail(s))
      /\ ToSet(Tail(s)) = ToSet(s) \ {Head(s)}
      /\ Head(s) = s[1] /\ DOMAIN s = 1 .. Len(s) /\ Len(s) \in Nat
      /\ DOMAIN Tail(s) = 1 .. (Len(s) - 1) /\ Tail(s) # <<>>
  <2> HIDE DEF s
  <2>1. s # <<>> /\ Head(s) = s[1] /\ DOMAIN s = 1 .. Len(s) /\ Len(s) \in Nat
    BY <1>1
  <2>2. /\ Tail(s) \in Seq(Transfers) /\ Len(Tail(s)) = Len(s) - 1
        /\ \A i \in 1 .. Len(Tail(s)) : Tail(s)[i] = s[i + 1]
        /\ IsInjective(Tail(s))
        /\ ToSet(Tail(s)) = ToSet(s) \ {Head(s)}
    BY <1>1, <2>1, TailOfInjective
  <2>3. DOMAIN Tail(s) = 1 .. (Len(s) - 1) /\ Tail(s) # <<>>
    <3> DEFINE r == Tail(s)
    <3>1. r \in Seq(Transfers) /\ Len(r) = Len(s) - 1
      BY <2>2
    <3> HIDE DEF r
    <3>2. DOMAIN r = 1 .. Len(r) /\ r # <<>>
      BY <1>1, <2>1, <3>1
    <3> QED BY <3>1, <3>2 DEF r
  <2> QED BY <2>1, <2>2, <2>3
<1>3. /\ t \in Transfers /\ tState[t] = "ENQUEUED" /\ tConn[t] = c
      /\ s[1] \in Transfers /\ tState[s[1]] = "ACTIVE" /\ tConn[s[1]] = c /\ s[1] # t
  <2>1. 1 \in DOMAIN s /\ 2 \in DOMAIN s
    BY <1>1, <1>2
  <2> QED
    BY <2>1, InPipeline DEF Inv, PipelinesConsistent, PipelineOf
<1>4. /\ tState' = [tState EXCEPT ![t] = "ACTIVE"]
      /\ tConn' = [tConn EXCEPT ![t] = c]
      /\ activeTransfers' = activeTransfers \cup {t}
      /\ enqueuedTransfers' = enqueuedTransfers \ {t}
      /\ cTransfers' = [cTransfers EXCEPT ![c] = Tail(s)]
      /\ finishing' = s[1]
      /\ UNCHANGED <<page, newTransfers, enabledTransfers, finishedTransfers, finishTime, cState,
                     busyConnections, idleConnections, closedConnections, connectionOrigin,
                     pending, toEnable>>
  BY <1>2 DEF StartNext
<1>5. /\ tState'[t] = "ACTIVE" /\ tConn' = tConn
      /\ \A x \in Transfers : x # t => tState'[x] = tState[x]
      /\ cTransfers'[c] = Tail(s)
      /\ \A d \in Conns : d # c => cTransfers'[d] = cTransfers[d]
  BY <1>3, <1>4 DEF Inv, TypeOK
<1> HIDE DEF s, t
<1>6. TypeOK'
  <2>1. tState' \in [Transfers -> TransferState] /\ cTransfers' \in [Conns -> Seq(Transfers)]
    BY <1>2, <1>3, <1>4 DEF Inv, TypeOK, TransferState
  <2> QED BY <2>1, <1>3, <1>4, <1>5 DEF Inv, TypeOK
<1>7. BookkeepingConsistent'
  <2>1. /\ newTransfers' = InState("NEW")' /\ enqueuedTransfers' = InState("ENQUEUED")'
        /\ activeTransfers' = InState("ACTIVE")' /\ finishedTransfers' = InState("FINISHED")'
        /\ ToSet(enabledTransfers') = InState("ENABLED")'
    BY <1>3, <1>4, <1>5 DEF Inv, BookkeepingConsistent, InState
  <2> QED
    BY <1>4, <2>1 DEF Inv, BookkeepingConsistent, ConnsIn
<1>8. PipelinesConsistent'
  <2>1. ASSUME NEW d \in Conns
        PROVE  PipelineOf(d)'
    <3>0. PipelineOf(d) /\ PipelineOf(c)
      BY DEF Inv, PipelinesConsistent
    <3>1. CASE d = c
      <4>1. ASSUME NEW i \in 1 .. (Len(s) - 1)
            PROVE  LET x == cTransfers'[c][i]
                   IN  /\ tConn'[x] = c
                       /\ tState'[x] = IF i = 1 THEN "ACTIVE" ELSE "ENQUEUED"
                       /\ page'.origin[x] = page'.origin[c] /\ page'.ssl[x] = page'.ssl[c]
        <5>1. cTransfers'[c][i] = s[i + 1] /\ i + 1 \in DOMAIN s /\ i + 1 # 1
          BY <1>2, <1>5
        <5>2. /\ s[i + 1] \in Transfers /\ tConn[s[i + 1]] = c
              /\ tState[s[i + 1]] = "ENQUEUED"
              /\ page.origin[s[i + 1]] = page.origin[c] /\ page.ssl[s[i + 1]] = page.ssl[c]
          BY <1>1, <3>0, <5>1, InPipeline DEF s, PipelineOf
        <5>3. i = 1 => s[i + 1] = t
          BY DEF t
        <5>4. i # 1 => s[i + 1] # t
          <6>1. i # 1 => i + 1 # 2 /\ 2 \in DOMAIN s
            BY <1>1, <1>2
          <6> QED BY <1>1, <5>1, <6>1 DEF t, IsInjective
        <5> QED BY <1>4, <1>5, <5>1, <5>2, <5>3, <5>4
      <4> QED
        <5>1. /\ IsInjective(cTransfers'[c]) /\ cTransfers'[c] # <<>> /\ cState'[c] = "BUSY"
              /\ DOMAIN cTransfers'[c] = 1 .. (Len(s) - 1)
          BY <1>1, <1>2, <1>4, <1>5
        <5> QED BY <3>1, <4>1, <5>1 DEF PipelineOf
    <3>2. CASE d # c
      <4>1. ASSUME NEW i \in DOMAIN cTransfers[d]
            PROVE  tState'[cTransfers[d][i]] = tState[cTransfers[d][i]]
        BY <1>3, <1>5, <3>2, InPipeline
      <4> QED
        BY <3>0, <3>2, <4>1, <1>4, <1>5 DEF PipelineOf
    <3> QED BY <3>1, <3>2
  <2>2. ASSUME NEW x \in Transfers
        PROVE  Reachable(x)'
    <3>1. Reachable(x) /\ finishing # x
      BY <1>1 DEF Inv, PipelinesConsistent, NoTransfer, Transfers
    <3>2. tState'[x] \in {"ACTIVE", "ENQUEUED"} <=> tState[x] \in {"ACTIVE", "ENQUEUED"}
      BY <1>3, <1>5
    <3>3. CASE tConn[x] = c
      BY <1>2, <1>3, <1>4, <1>5, <3>1, <3>2, <3>3 DEF Reachable, s
    <3>4. CASE tConn[x] # c
      <4>1. x # s[1]
        BY <1>3, <3>4
      <4> QED
        BY <1>4, <1>5, <3>1, <3>2, <3>4, <4>1 DEF Reachable
    <3> QED BY <3>3, <3>4
  <2> QED BY <2>1, <2>2 DEF PipelinesConsistent
<1>9. AssertionsHold'
  <2>1. \A d \in idleConnections' \cup closedConnections' : cTransfers'[d] = <<>>
    BY <1>1, <1>4, <1>5 DEF Inv, TypeOK, AssertionsHold, BookkeepingConsistent, ConnsIn
  <2>2. \A i \in DOMAIN pending' : tState'[pending'[i]] = "ENABLED"
    BY <1>1, <1>4
  <2> QED
    BY <1>1, <1>3, <1>4, <1>5, <2>1, <2>2 DEF Inv, AssertionsHold
<1>10. Fresh'
  BY <1>4, <1>5 DEF Inv, Fresh
<1>11. Dependency'
  <2> SUFFICES ASSUME NEW x \in Transfers
               PROVE  /\ tState'[x] # "NEW" /\ page.parent[x] # NoTransfer =>
                           tState'[page.parent[x]] = "FINISHED"
                      /\ tState'[x] = "NEW" =>
                           /\ page.parent[x] # NoTransfer
                           /\ tState'[page.parent[x]] = "FINISHED" <=> x \in toEnable
    BY <1>4 DEF Dependency
  <2>0. page.parent[x] \in Transfers \cup {NoTransfer}
    BY PagesAssumption DEF Inv, TypeOK, Page
  <2>1. /\ tState'[x] = "NEW" <=> tState[x] = "NEW"
        /\ page.parent[x] \in Transfers =>
             (tState'[page.parent[x]] = "FINISHED" <=> tState[page.parent[x]] = "FINISHED")
    BY <1>3, <1>5
  <2> QED
    BY <2>0, <2>1 DEF Inv, Dependency
<1>12. StackShape'
  BY <1>1, <1>4 DEF StackShape
<1> QED
  BY <1>6, <1>7, <1>8, <1>9, <1>10, <1>11, <1>12 DEF Inv

LEMMA IdleTimeoutInv ==
  ASSUME Inv, NEW c \in Conns, IdleTimeout(c)
  PROVE  Inv'
<1> USE DEF IdleTimeout, ClosedConnection
<1>1. /\ cState[c] = "IDLE" /\ cState'[c] = "CLOSED"
      /\ \A d \in Conns : d # c => cState'[d] = cState[d]
  BY DEF Inv, TypeOK
<1>2. TypeOK'
  BY DEF Inv, TypeOK, ConnState
<1>3. BookkeepingConsistent'
  <2>1. /\ busyConnections' = ConnsIn("BUSY")' /\ idleConnections' = ConnsIn("IDLE")'
        /\ closedConnections' = ConnsIn("CLOSED")'
    BY <1>1 DEF Inv, BookkeepingConsistent, ConnsIn
  <2> QED BY <2>1 DEF Inv, BookkeepingConsistent, InState
<1>4. PipelinesConsistent'
  <2>1. ASSUME NEW d \in Conns
        PROVE  PipelineOf(d)'
    BY <1>1 DEF Inv, PipelinesConsistent, PipelineOf
  <2> QED BY <2>1 DEF Inv, PipelinesConsistent, Reachable
<1>5. AssertionsHold'
  BY <1>1, EmptyPipeline DEF Inv, AssertionsHold
<1>6. Fresh'
  BY <1>1 DEF Inv, Fresh, Conns
<1>7. Dependency' /\ StackShape'
  BY DEF Inv, Dependency, StackShape
<1> QED
  BY <1>2, <1>3, <1>4, <1>5, <1>6, <1>7 DEF Inv

LEMMA SkipHostLimitedInv ==
  ASSUME Inv, SkipHostLimited
  PROVE  Inv'
<1> USE DEF SkipHostLimited
<1>1. /\ pending' \in Seq(Transfers) /\ IsInjective(pending')
      /\ \A i \in DOMAIN pending' : tState[pending'[i]] = "ENABLED"
  BY PendingHead
<1>2. TypeOK' /\ AssertionsHold'
  BY <1>1 DEF Inv, TypeOK, AssertionsHold
<1>3. BookkeepingConsistent' /\ Fresh' /\ Dependency' /\ StackShape'
  BY DEF Inv, BookkeepingConsistent, InState, ConnsIn, Fresh, Dependency, StackShape
<1>4. PipelinesConsistent'
  BY DEF Inv, PipelinesConsistent, PipelineOf, Reachable
<1> QED
  BY <1>2, <1>3, <1>4 DEF Inv

LEMMA StutterInv ==
  ASSUME Inv, UNCHANGED vars
  PROVE  Inv'
<1> USE DEF vars
<1>1. TypeOK' /\ AssertionsHold' /\ Fresh' /\ Dependency' /\ StackShape'
  BY DEF Inv, TypeOK, AssertionsHold, Fresh, Dependency, StackShape
<1>2. BookkeepingConsistent'
  BY DEF Inv, BookkeepingConsistent, InState, ConnsIn
<1>3. PipelinesConsistent'
  BY DEF Inv, PipelinesConsistent, PipelineOf, Reachable
<1> QED
  BY <1>1, <1>2, <1>3 DEF Inv

LEMMA InitInv == Init => Inv
<1> SUFFICES ASSUME Init PROVE Inv
  OBVIOUS
<1> USE DEF Init
<1> DEFINE roots == {t \in Transfers : page.parent[t] = NoTransfer}
<1>1. /\ enabledTransfers \in [1 .. Cardinality(roots) -> roots]
      /\ Ascending(enabledTransfers) /\ ToSet(enabledTransfers) = roots
  BY DEF RootLists
<1>2. Cardinality(roots) \in Nat
  <2>1. IsFiniteSet(1 .. N)
    BY NAssumption, FS_Interval
  <2> QED BY <2>1, FS_Subset, FS_CardinalityType DEF Transfers
<1> HIDE DEF Init
<1>3. enabledTransfers \in Seq(Transfers)
  <2>1. enabledTransfers \in [1 .. Cardinality(roots) -> Transfers]
    BY <1>1
  <2> HIDE DEF roots
  <2> QED BY <1>2, <2>1, SeqDef
<1>4. IsInjective(enabledTransfers)
  <2> SUFFICES ASSUME NEW i \in DOMAIN enabledTransfers, NEW j \in DOMAIN enabledTransfers,
                      i # j
               PROVE  enabledTransfers[i] # enabledTransfers[j]
    BY DEF IsInjective
  <2>1. i \in Nat /\ j \in Nat /\ enabledTransfers[i] \in Nat /\ enabledTransfers[j] \in Nat
    BY <1>1, <1>2 DEF Transfers
  <2>2. i < j \/ j < i
    BY <2>1
  <2> QED BY <1>1, <2>1, <2>2 DEF Ascending
<1>5. \A t \in Transfers : /\ tState[t] = IF page.parent[t] = NoTransfer THEN "ENABLED" ELSE "NEW"
                           /\ tConn[t] = NoConn
                           /\ cState[t] = "NONE" /\ cTransfers[t] = <<>>
  BY <1>1 DEF Init, Conns
<1>6. newTransfers = Transfers \ roots
  BY <1>1 DEF Init
<1>7. pending = <<>> \/ pending = enabledTransfers
  BY DEF Init, NotifyPass
<1>8. TypeOK
  <2>0. <<>> \in Seq(Transfers)
    OBVIOUS
  <2>1. pending \in Seq(Transfers)
    BY <2>0, <1>3, <1>7
  <2>2. cTransfers \in [Conns -> Seq(Transfers)]
    BY <2>0 DEF Init
  <2> QED
    BY <1>3, <1>6, <2>1, <2>2 DEF Init, TypeOK, TransferState, ConnState
<1>9. BookkeepingConsistent
  <2>1. /\ newTransfers = InState("NEW") /\ ToSet(enabledTransfers) = InState("ENABLED")
        /\ InState("ENQUEUED") = {} /\ InState("ACTIVE") = {} /\ InState("FINISHED") = {}
    BY <1>1, <1>5, <1>6 DEF InState
  <2>2. ConnsIn("BUSY") = {} /\ ConnsIn("IDLE") = {} /\ ConnsIn("CLOSED") = {}
    BY <1>5 DEF ConnsIn, Conns
  <2> QED
    BY <1>4, <2>1, <2>2 DEF Init, BookkeepingConsistent
<1>10. PipelinesConsistent
  BY <1>5 DEF PipelinesConsistent, PipelineOf, Reachable, Conns, IsInjective
<1>11. AssertionsHold
  <2>1. /\ \A i \in DOMAIN enabledTransfers : tState[enabledTransfers[i]] = "ENABLED"
    BY <1>1, <1>5
  <2>2. /\ \A i \in DOMAIN pending : tState[pending[i]] = "ENABLED"
        /\ IsInjective(pending)
    <3>1. CASE pending = <<>>
      <4>1. DOMAIN pending = {}
        BY <3>1
      <4> QED BY <4>1 DEF IsInjective
    <3>2. CASE pending = enabledTransfers
      BY <3>2, <2>1, <1>4
    <3> QED BY <1>7, <3>1, <3>2
  <2> QED
    BY <2>2 DEF Init, AssertionsHold
<1>12. Fresh
  BY <1>5 DEF Fresh
<1>13. Dependency
  <2> SUFFICES ASSUME NEW t \in Transfers
               PROVE  /\ tState[t] # "NEW" /\ page.parent[t] # NoTransfer =>
                           tState[page.parent[t]] = "FINISHED"
                      /\ tState[t] = "NEW" =>
                           /\ page.parent[t] # NoTransfer
                           /\ tState[page.parent[t]] = "FINISHED" <=> t \in toEnable
    BY DEF Dependency
  <2>1. page.parent[t] \in Transfers \cup {NoTransfer} /\ toEnable = {}
    BY PagesAssumption DEF Init, Page
  <2> QED
    BY <1>5, <2>1
<1>14. StackShape
  BY DEF Init, StackShape
<1> QED
  BY <1>8, <1>9, <1>10, <1>11, <1>12, <1>13, <1>14 DEF Inv

LEMMA NextInv == Inv /\ [Next]_vars => Inv'
<1> SUFFICES ASSUME Inv, [Next]_vars PROVE Inv'
  OBVIOUS
<1>1. CASE SkipHostLimited
  BY <1>1, SkipHostLimitedInv
<1>2. CASE ScheduleOnNew
  <2>1. PICK victims \in Victims(NoConn) : StartOn(Head(pending), Head(pending), victims)
    BY <1>2 DEF ScheduleOnNew
  <2>2. pending # <<>> /\ Head(pending) \in Conns /\ cState[Head(pending)] = "NONE"
    BY <1>2, PendingHead DEF ScheduleOnNew, Conns
  <2>3. victims \subseteq idleConnections \ {Head(pending)}
    BY <2>2, VictimsAreIdle DEF Inv, BookkeepingConsistent, ConnsIn
  <2> QED
    BY <2>1, <2>2, <2>3, StartOnInv
<1>3. CASE ScheduleOnIdle
  <2>1. PICK c \in Candidates(Head(pending)) \cap idleConnections :
          \E victims \in Victims(c) : StartOn(Head(pending), c, victims)
    BY <1>3 DEF ScheduleOnIdle
  <2>2. PICK victims \in Victims(c) : StartOn(Head(pending), c, victims)
    BY <2>1
  <2>3. /\ pending # <<>> /\ c \in Conns
        /\ page.origin[c] = page.origin[Head(pending)] /\ page.ssl[c] = page.ssl[Head(pending)]
    BY <1>3 DEF ScheduleOnIdle, Candidates, Inv, TypeOK
  <2> QED
    BY <2>1, <2>2, <2>3, VictimsAreIdle, StartOnInv
<1>4. CASE ScheduleOnBusy
  <2>1. PICK c \in Candidates(Head(pending)) \cap busyConnections :
          \E victims \in Victims(c) : EnqueueOn(Head(pending), c, victims)
    BY <1>4 DEF ScheduleOnBusy
  <2>2. PICK victims \in Victims(c) : EnqueueOn(Head(pending), c, victims)
    BY <2>1
  <2>3. /\ pending # <<>>
        /\ page.origin[c] = page.origin[Head(pending)] /\ page.ssl[c] = page.ssl[Head(pending)]
    BY <1>4 DEF ScheduleOnBusy, Candidates
  <2> QED
    BY <2>1, <2>2, <2>3, VictimsAreIdle, EnqueueOnInv
<1>5. CASE FinishTransfer
  BY <1>5, FinishTransferInv
<1>6. CASE EnableChild
  BY <1>6, EnableChildInv
<1>7. CASE \E c \in Conns : GoIdle(c) \/ StartNext(c) \/ IdleTimeout(c)
  BY <1>7, GoIdleInv, StartNextInv, IdleTimeoutInv
<1>8. CASE RunEnded \/ UNCHANGED vars
  BY <1>8, StutterInv DEF RunEnded
<1> QED
  BY <1>1, <1>2, <1>3, <1>4, <1>5, <1>6, <1>7, <1>8 DEF Next

-----------------------------------------------------------------------------
(* Theorems *)

\* The inductive invariant holds in every state of every run.
THEOREM Invariance == Spec => []Inv
BY InitInv, NextInv, PTL DEF Spec

\* Every variable keeps its type.
THEOREM TypeCorrect == Spec => []TypeOK
BY Invariance, PTL DEF Inv

\* The manager's lists and sets agree with the states of the transfers and connections.
THEOREM Bookkeeping == Spec => []BookkeepingConsistent
BY Invariance, PTL DEF Inv

\* No scheduled transfer is lost, carried twice or carried for another host.
THEOREM Pipelines == Spec => []PipelinesConsistent
BY Invariance, PTL DEF Inv

\* None of the assertions AssertionsHold names can fail.
THEOREM Assertions == Spec => []AssertionsHold
BY Invariance, PTL DEF Inv

\* A transfer is enabled when the transfer it depends on is finished, not earlier,
\* and at the end of the handler at the latest.
THEOREM Dependencies == Spec => []DependencyRespected
<1>1. Inv => DependencyRespected
  BY DEF Inv, Dependency, DependencyRespected, CallStackEmpty
<1> QED
  BY <1>1, Invariance, PTL

\* The number of busy connections to a host never exceeds the host limit.
THEOREM HostLimitHolds == Spec => []HostLimit
<1> DEFINE BusyFor(o) == {c \in ConnsIn("BUSY") : page.origin[c] = o}
<1>1. Init => HostLimit
  <2> SUFFICES ASSUME Init PROVE HostLimit
    OBVIOUS
  <2>1. \A o \in Origins : BusyFor(o) = {}
    BY DEF Init, ConnsIn
  <2> QED
    BY <2>1, FS_EmptySet, LimitAssumption DEF HostLimit
<1>2. Inv => \A o \in Origins : /\ connectionOrigin[o] = BusyFor(o)
                                /\ IsFiniteSet(BusyFor(o)) /\ Cardinality(BusyFor(o)) \in Nat
  <2>1. IsFiniteSet(Conns)
    BY NAssumption, FS_Interval DEF Conns, Transfers
  <2>2. \A o : BusyFor(o) \subseteq Conns
    BY DEF ConnsIn
  <2> QED
    BY <2>1, <2>2, FS_Subset, FS_CardinalityType DEF Inv, BookkeepingConsistent
<1>3. HostLimit /\ Inv /\ Inv' /\ [Next]_vars => HostLimit'
  <2> SUFFICES ASSUME HostLimit, Inv, Inv', [Next]_vars, NEW o \in Origins
               PROVE  Cardinality(connectionOrigin'[o]) <= HOST_LIMIT
    BY <1>2 DEF HostLimit, Inv, BookkeepingConsistent
  <2>0. /\ Cardinality(connectionOrigin[o]) <= HOST_LIMIT
        /\ IsFiniteSet(connectionOrigin[o]) /\ Cardinality(connectionOrigin[o]) \in Nat
        /\ connectionOrigin \in [Origins -> SUBSET Conns]
    BY <1>2 DEF HostLimit, Inv, TypeOK
  <2>1. ASSUME pending # <<>>, ~HostLimitReached(Head(pending)), NEW c,
               page.origin[c] = page.origin[Head(pending)], NEW victims,
               StartOn(Head(pending), c, victims)
        PROVE  Cardinality(connectionOrigin'[o]) <= HOST_LIMIT
    <3>1. CASE o = page.origin[c]
      <4>1. connectionOrigin'[o] = connectionOrigin[o] \cup {c}
        BY <2>0, <2>1, <3>1 DEF StartOn, BusiedConnection
      <4>2. Cardinality(connectionOrigin[o]) + 1 <= HOST_LIMIT
        BY <2>0, <2>1, <3>1, LimitAssumption DEF HostLimitReached
      <4>3. Cardinality(connectionOrigin[o] \cup {c}) <= Cardinality(connectionOrigin[o]) + 1
        BY <2>0, FS_AddElement
      <4>4. Cardinality(connectionOrigin[o] \cup {c}) \in Nat
        <5>1. IsFiniteSet(connectionOrigin[o] \cup {c})
          BY <2>0, FS_AddElement
        <5> QED BY <5>1, FS_CardinalityType
      <4> QED
        BY <2>0, <4>1, <4>2, <4>3, <4>4, LimitAssumption
    <3>2. CASE o # page.origin[c]
      <4>1. connectionOrigin'[o] = connectionOrigin[o]
        BY <2>0, <2>1, <3>2 DEF StartOn, BusiedConnection
      <4> QED BY <2>0, <4>1
    <3> QED BY <3>1, <3>2
  <2>2. CASE ScheduleOnNew \/ ScheduleOnIdle
    BY <2>1, <2>2 DEF ScheduleOnNew, ScheduleOnIdle, Candidates
  <2>3. ASSUME NEW c \in Conns, GoIdle(c)
        PROVE  Cardinality(connectionOrigin'[o]) <= HOST_LIMIT
    <3>1. connectionOrigin'[o] \subseteq connectionOrigin[o]
      BY <2>0, <2>3 DEF GoIdle, IdledConnection
    <3>2. Cardinality(connectionOrigin'[o]) <= Cardinality(connectionOrigin[o])
      BY <2>0, <3>1, FS_Subset
    <3>3. Cardinality(connectionOrigin'[o]) \in Nat
      BY <2>0, <3>1, FS_Subset, FS_CardinalityType
    <3> QED BY <2>0, <3>2, <3>3, LimitAssumption
  <2>4. CASE UNCHANGED connectionOrigin
    BY <2>0, <2>4
  <2> QED
    BY <2>2, <2>3, <2>4 DEF Next, SkipHostLimited, ScheduleOnBusy, EnqueueOn, FinishTransfer,
                            EnableChild, StartNext, IdleTimeout, ClosedConnection, RunEnded, vars
<1> QED
  BY <1>1, <1>3, Invariance, PTL DEF Spec

\* Sets of connections are finite, and connectionOrigin is defined for every transfer.
LEMMA FiniteConnections ==
  ASSUME Inv
  PROVE  /\ \A S \in SUBSET Conns : IsFiniteSet(S) /\ Cardinality(S) \in Nat
         /\ \A t \in Transfers : page.origin[t] \in Origins
<1>1. IsFiniteSet(Conns)
  BY NAssumption, FS_Interval DEF Conns, Transfers
<1>2. \A S \in SUBSET Conns : IsFiniteSet(S) /\ Cardinality(S) \in Nat
  BY <1>1, FS_Subset, FS_CardinalityType
<1>3. page \in Page
  BY PagesAssumption DEF Inv, TypeOK
<1> QED
  BY <1>2, <1>3 DEF Page

\* A limit that is reached stays reached while the sets it counts only grow.
LEMMA LimitsMonotonic ==
  ASSUME Inv, Inv', page' = page,
         busyConnections \subseteq busyConnections',
         \A o \in Origins : connectionOrigin[o] \subseteq connectionOrigin'[o],
         NEW t \in Transfers
  PROVE  /\ Cardinality(busyConnections) >= GLOBAL_LIMIT =>
              Cardinality(busyConnections') >= GLOBAL_LIMIT
         /\ HostLimitReached(t) => HostLimitReached(t)'
<1>1. busyConnections' \in SUBSET Conns /\ busyConnections \in SUBSET Conns
  BY DEF Inv, TypeOK
<1>2. /\ IsFiniteSet(busyConnections') /\ Cardinality(busyConnections') \in Nat
      /\ Cardinality(busyConnections) \in Nat
  BY <1>1, FiniteConnections
<1>3. Cardinality(busyConnections) <= Cardinality(busyConnections')
  BY <1>2, FS_Subset
<1> DEFINE o == page.origin[t]
<1>4. o \in Origins
  BY FiniteConnections
<1>5. connectionOrigin[o] \in SUBSET Conns /\ connectionOrigin'[o] \in SUBSET Conns
  BY <1>4 DEF Inv, TypeOK
<1>6. /\ IsFiniteSet(connectionOrigin'[o]) /\ Cardinality(connectionOrigin'[o]) \in Nat
      /\ Cardinality(connectionOrigin[o]) \in Nat
  BY <1>5, FiniteConnections
<1>7. Cardinality(connectionOrigin[o]) <= Cardinality(connectionOrigin'[o])
  BY <1>4, <1>6, FS_Subset
<1> QED
  BY <1>2, <1>3, <1>6, <1>7, LimitAssumption DEF HostLimitReached

\* Scheduling a transfer only adds busy connections.
LEMMA StartOnDeferred ==
  ASSUME Inv, Inv', Deferred, pending # <<>>, NEW c, NEW victims,
         StartOn(Head(pending), c, victims)
  PROVE  Deferred'
<1>1. /\ page' = page /\ busyConnections \subseteq busyConnections'
      /\ \A o \in Origins : connectionOrigin[o] \subseteq connectionOrigin'[o]
  BY DEF StartOn, BusiedConnection, Inv, TypeOK
<1> SUFFICES ASSUME NEW t \in Transfers, tState'[t] = "ENABLED"
             PROVE  \/ t \in ToSet(pending')
                    \/ Cardinality(busyConnections') >= GLOBAL_LIMIT
                    \/ HostLimitReached(t)'
  BY DEF Deferred, InState
<1>2. t # Head(pending) /\ tState[t] = "ENABLED"
  BY PendingHead DEF StartOn, BusiedConnection, Inv, TypeOK
<1>3. t \in ToSet(pending) => t \in ToSet(pending')
  BY <1>2, PendingHead DEF StartOn, BusiedConnection
<1> QED
  BY <1>1, <1>2, <1>3, LimitsMonotonic DEF Deferred, InState

LEMMA EnqueueOnDeferred ==
  ASSUME Inv, Inv', Deferred, pending # <<>>, NEW c, NEW victims,
         EnqueueOn(Head(pending), c, victims)
  PROVE  Deferred'
<1> SUFFICES ASSUME NEW t \in Transfers, tState'[t] = "ENABLED"
             PROVE  \/ t \in ToSet(pending')
                    \/ Cardinality(busyConnections') >= GLOBAL_LIMIT
                    \/ HostLimitReached(t)'
  BY DEF Deferred, InState
<1>1. t # Head(pending) /\ tState[t] = "ENABLED"
  BY PendingHead DEF EnqueueOn, Inv, TypeOK
<1>2. t \in ToSet(pending) => t \in ToSet(pending')
  BY <1>1, PendingHead DEF EnqueueOn
<1>3. UNCHANGED <<page, busyConnections, connectionOrigin>>
  BY DEF EnqueueOn
<1> QED
  BY <1>1, <1>2, <1>3 DEF Deferred, InState, HostLimitReached

\* After a call of notify, every enabled transfer is looked at or the global
\* limit is reached.
LEMMA NotifyCoversAll ==
  ASSUME Inv', pending' = NotifyPass(enabledTransfers', busyConnections')
  PROVE  Deferred'
<1>1. Cardinality(busyConnections') \in Nat
  <2>1. busyConnections' \subseteq 1 .. N
    BY DEF Inv, TypeOK, Conns, Transfers
  <2>2. IsFiniteSet(1 .. N)
    BY NAssumption, FS_Interval
  <2> QED BY <2>1, <2>2, FS_Subset, FS_CardinalityType
<1>2. ToSet(enabledTransfers') = InState("ENABLED")'
  BY DEF Inv, BookkeepingConsistent
<1> QED
  BY <1>1, <1>2 DEF NotifyPass, Deferred

LEMMA NextDeferred == Deferred /\ Inv /\ Inv' /\ [Next]_vars => Deferred'
<1> SUFFICES ASSUME Deferred, Inv, Inv', [Next]_vars PROVE Deferred'
  OBVIOUS
<1>1. CASE SkipHostLimited
  <2>1. ToSet(pending') = ToSet(pending) \ {Head(pending)}
    BY <1>1, PendingHead DEF SkipHostLimited
  <2> QED
    BY <1>1, <2>1 DEF SkipHostLimited, Deferred, InState, HostLimitReached
<1>2. CASE ScheduleOnNew \/ ScheduleOnIdle
  BY <1>2, StartOnDeferred DEF ScheduleOnNew, ScheduleOnIdle
<1>3. CASE ScheduleOnBusy
  BY <1>3, EnqueueOnDeferred DEF ScheduleOnBusy
<1>4. CASE EnableChild
  <2>1. pending' = NotifyPass(enabledTransfers', busyConnections')
    BY <1>4 DEF EnableChild
  <2> QED BY <2>1, NotifyCoversAll
<1>5. ASSUME NEW c \in Conns, GoIdle(c)
      PROVE  Deferred'
  <2>1. pending' = NotifyPass(enabledTransfers', busyConnections')
    BY <1>5 DEF GoIdle, IdledConnection
  <2> QED BY <2>1, NotifyCoversAll
<1>6. CASE FinishTransfer
  BY <1>6 DEF FinishTransfer, Deferred, InState, HostLimitReached, Inv, TypeOK
<1>7. ASSUME NEW c \in Conns, StartNext(c)
      PROVE  Deferred'
  BY <1>7 DEF StartNext, Deferred, InState, HostLimitReached, Inv, TypeOK
<1>8. ASSUME NEW c \in Conns, IdleTimeout(c)
      PROVE  Deferred'
  BY <1>8 DEF IdleTimeout, ClosedConnection, Deferred, InState, HostLimitReached
<1>9. CASE RunEnded \/ UNCHANGED vars
  BY <1>9 DEF RunEnded, vars, Deferred, InState, HostLimitReached
<1> QED
  BY <1>1, <1>2, <1>3, <1>4, <1>5, <1>6, <1>7, <1>8, <1>9 DEF Next

\* Between two handlers no enabled transfer waits unless a limit holds it back:
\* no notification is missed.
THEOREM NoWakeupIsLost == Spec => []NoLostWakeup
<1>1. Init => Deferred
  <2> SUFFICES ASSUME Init, Inv PROVE Deferred
    BY InitInv
  <2>1. ToSet(enabledTransfers) = InState("ENABLED") /\ Cardinality(busyConnections) = 0
    BY FS_EmptySet DEF Init, Inv, BookkeepingConsistent
  <2>2. pending = enabledTransfers
    BY <2>1, LimitAssumption DEF Init, NotifyPass
  <2> QED BY <2>1, <2>2 DEF Deferred
<1>2. Deferred => NoLostWakeup
  <2> SUFFICES ASSUME Deferred, pending = <<>> PROVE \A t \in InState("ENABLED") :
        Cardinality(busyConnections) >= GLOBAL_LIMIT \/ HostLimitReached(t)
    BY DEF NoLostWakeup, CallStackEmpty
  <2>1. ToSet(pending) = {}
    BY DEF ToSet
  <2> QED BY <2>1 DEF Deferred
<1> QED
  BY <1>1, <1>2, NextDeferred, Invariance, PTL DEF Spec

-----------------------------------------------------------------------------
(* The end of the run *)

LEMMA NextLoadTime == LoadTime /\ Inv /\ [Next]_vars => LoadTime'
<1> SUFFICES ASSUME LoadTime, Inv, [Next]_vars PROVE LoadTime'
  OBVIOUS
<1>1. CASE FinishTransfer
  <2>1. finishing \in Transfers /\ finishTime \in BOOLEAN /\ finishedTransfers \subseteq Transfers
    BY <1>1 DEF FinishTransfer, Inv, TypeOK
  <2>2. /\ finishedTransfers' = finishedTransfers \cup {finishing}
        /\ finishTime' = (finishTime \/ finishedTransfers' = Transfers)
    BY <1>1 DEF FinishTransfer
  <2> QED BY <2>1, <2>2 DEF LoadTime
<1>2. ASSUME UNCHANGED <<finishTime, finishedTransfers>>
      PROVE  LoadTime'
  BY <1>2 DEF LoadTime
<1>3. CASE SkipHostLimited \/ ScheduleOnNew \/ ScheduleOnIdle \/ ScheduleOnBusy \/ EnableChild
  BY <1>2, <1>3 DEF SkipHostLimited, ScheduleOnNew, ScheduleOnIdle, ScheduleOnBusy, EnableChild,
                    StartOn, BusiedConnection, EnqueueOn
<1>4. ASSUME NEW c \in Conns, GoIdle(c) \/ StartNext(c) \/ IdleTimeout(c)
      PROVE  LoadTime'
  BY <1>2, <1>4 DEF GoIdle, StartNext, IdleTimeout, ClosedConnection
<1>5. CASE RunEnded \/ UNCHANGED vars
  BY <1>2, <1>5 DEF RunEnded, vars
<1> QED
  BY <1>1, <1>3, <1>4, <1>5 DEF Next

\* A nonempty set of natural numbers has a least element.
LEMMA LeastElement ==
  ASSUME NEW S \in SUBSET Nat, S # {}
  PROVE  \E n \in S : \A m \in S : n <= m
<1> DEFINE R == OpToRel(<, Nat)
<1>1. \A m, n \in Nat : m < n => <<m, n>> \in R
  BY DEF OpToRel
<1>2. IsWellFoundedOn(R, Nat)
  BY NatLessThanWellFounded
<1> HIDE DEF R
<1>3. \E n \in S : \A m \in S : <<m, n>> \notin R
  BY <1>2, WFMin
<1>4. PICK n \in S : \A m \in S : <<m, n>> \notin R
  BY <1>3
<1>5. ASSUME NEW m \in S PROVE n <= m
  <2>1. m \in Nat /\ n \in Nat /\ ~(m < n)
    BY <1>1, <1>4
  <2> QED BY <2>1
<1> QED
  BY <1>5

\* When nothing is left to do, nothing is left undone: no transfer is in a
\* pipeline because no connection is busy, none is deferred because no limit
\* holds, and then the smallest transfer that is still new would have a parent
\* that is finished.
LEMMA NothingLeftUndone ==
  ASSUME Inv, NoLostWakeup, CallStackEmpty, EventQueueEmpty
  PROVE  \A t \in Transfers : tState[t] = "FINISHED"
<1>1. /\ pending = <<>> /\ finishing = NoTransfer /\ toEnable = {}
      /\ \A c \in Conns : cState[c] # "BUSY"
  BY DEF CallStackEmpty, EventQueueEmpty
<1>2. ASSUME NEW t \in Transfers PROVE tState[t] \notin {"ACTIVE", "ENQUEUED"}
  <2> SUFFICES ASSUME tState[t] \in {"ACTIVE", "ENQUEUED"} PROVE FALSE
    OBVIOUS
  <2>1. tConn[t] \in Conns /\ (finishing = t <=> t \notin ToSet(cTransfers[tConn[t]]))
    BY DEF Inv, PipelinesConsistent, Reachable
  <2>2. t \in ToSet(cTransfers[tConn[t]])
    BY <1>1, <2>1 DEF NoTransfer, Transfers
  <2>3. cTransfers[tConn[t]] = <<>>
    BY <1>1, <2>1 DEF Inv, PipelinesConsistent, PipelineOf
  <2> QED BY <2>2, <2>3 DEF ToSet
<1>3. ASSUME NEW t \in Transfers PROVE tState[t] # "ENABLED"
  <2> SUFFICES ASSUME tState[t] = "ENABLED" PROVE FALSE
    OBVIOUS
  <2>1. busyConnections = {}
    BY <1>1 DEF Inv, BookkeepingConsistent, ConnsIn
  <2>2. page.origin[t] \in Origins
    BY FiniteConnections
  <2>3. connectionOrigin[page.origin[t]] = {}
    BY <2>1, <2>2 DEF Inv, BookkeepingConsistent
  <2>4. Cardinality(busyConnections) >= GLOBAL_LIMIT \/ HostLimitReached(t)
    BY DEF NoLostWakeup, InState
  <2> QED
    BY <2>1, <2>3, <2>4, FS_EmptySet, LimitAssumption DEF HostLimitReached
<1>4. ASSUME NEW t \in Transfers, tState[t] = "NEW"
      PROVE  \E u \in Transfers : tState[u] = "NEW" /\ u < t
  <2>1. page \in Page /\ page.parent[t] < t
    BY PagesAssumption DEF Inv, TypeOK
  <2>2. page.parent[t] # NoTransfer /\ tState[page.parent[t]] # "FINISHED"
    BY <1>1, <1>4 DEF Inv, Dependency
  <2>3. page.parent[t] \in Transfers
    BY <2>1, <2>2 DEF Page
  <2>4. tState[page.parent[t]] = "NEW"
    BY <1>2, <1>3, <2>2, <2>3 DEF Inv, TypeOK, TransferState
  <2> QED BY <2>1, <2>3, <2>4
<1>5. InState("NEW") = {}
  <2> SUFFICES ASSUME NEW t \in InState("NEW") PROVE FALSE
    OBVIOUS
  <2>1. InState("NEW") \in SUBSET Nat
    BY NAssumption DEF InState, Transfers
  <2>2. \E n \in InState("NEW") : \A m \in InState("NEW") : n <= m
    BY <2>1, LeastElement
  <2>3. PICK n \in InState("NEW") : \A m \in InState("NEW") : n <= m
    BY <2>2
  <2>4. PICK u \in Transfers : tState[u] = "NEW" /\ u < n
    BY <1>4 DEF InState
  <2> QED BY <2>1, <2>3, <2>4 DEF InState
<1> QED
  BY <1>2, <1>3, <1>5 DEF InState, Inv, TypeOK, TransferState

\* A run that has come to its end has loaded the whole page and recorded the
\* load time, for every page and all limits.
THEOREM RunEndsLoaded == Spec => []AllFinishedAtEnd
<1>1. Init => LoadTime
  <2>1. ASSUME Init, N \in Nat \ {0} PROVE LoadTime
    BY <2>1, SMTT(60) DEF Init, LoadTime, Transfers
  <2> QED BY <2>1, NAssumption
<1>2. Inv /\ NoLostWakeup /\ LoadTime => AllFinishedAtEnd
  <2> SUFFICES ASSUME Inv, NoLostWakeup, LoadTime, CallStackEmpty, EventQueueEmpty
               PROVE  finishedTransfers = Transfers /\ finishTime
    BY DEF AllFinishedAtEnd
  <2>1. finishedTransfers = InState("FINISHED")
    BY DEF Inv, BookkeepingConsistent
  <2> QED BY <2>1, NothingLeftUndone DEF InState, LoadTime
<1> QED
  BY <1>1, <1>2, NextLoadTime, Invariance, NoWakeupIsLost, PTL DEF Spec

-----------------------------------------------------------------------------
(* What a step may never do *)

\* The loop of notify comes to the transfers of a host in the order in which they
\* were enabled, unless the limit of the host holds the earlier one back.
PendingInOrder ==
  \A a, b \in Transfers :
    /\ Before(a, b, enabledTransfers) /\ page.origin[a] = page.origin[b]
    /\ b \in ToSet(pending)
    => HostLimitReached(a) \/ Before(a, b, pending)

-----------------------------------------------------------------------------
(* Order in lists *)

LEMMA OrderInTail ==
  ASSUME NEW S, NEW s \in Seq(S), s # <<>>, NEW a, NEW b, Before(a, b, s), a # Head(s)
  PROVE  Before(a, b, Tail(s))
<1>1. PICK i, j \in 1 .. Len(s) : i < j /\ s[i] = a /\ s[j] = b
  BY DEF Before
<1>2. i # 1
  BY <1>1
<1>3. /\ i - 1 \in 1 .. Len(Tail(s)) /\ j - 1 \in 1 .. Len(Tail(s)) /\ i - 1 < j - 1
      /\ Tail(s)[i - 1] = a /\ Tail(s)[j - 1] = b
  BY <1>1, <1>2
<1>4. DOMAIN Tail(s) = 1 .. Len(Tail(s))
  OBVIOUS
<1> QED
  BY <1>3, <1>4 DEF Before

LEMMA OrderBeforeRemoval ==
  ASSUME NEW S, NEW s \in Seq(S), IsInjective(s), NEW e \in ToSet(s),
         NEW a, NEW b, Before(a, b, RemoveFirst(s, e))
  PROVE  Before(a, b, s) /\ a # e /\ b # e
<1>1. PICK k \in 1 .. Len(s) : s[k] = e
  BY DEF ToSet
<1>2. PICK r : r = RemoveFirst(s, e)
  OBVIOUS
<1>3. /\ r \in Seq(S) /\ Len(r) = Len(s) - 1
      /\ \A i \in 1 .. Len(s) - 1 : r[i] = IF i < k THEN s[i] ELSE s[i + 1]
  <2>1. r = SubSeq(s, 1, k - 1) \o SubSeq(s, k + 1, Len(s))
    BY <1>1, <1>2, RemoveFirstIsRemoveAt
  <2> QED
    BY <2>1, RemoveAtProperties, Zenon
<1>4. PICK i, j \in 1 .. Len(r) : i < j /\ r[i] = a /\ r[j] = b
  BY <1>2, <1>3 DEF Before
<1>5. PICK x, y : x = (IF i < k THEN i ELSE i + 1) /\ y = IF j < k THEN j ELSE j + 1
  OBVIOUS
<1>6. x \in 1 .. Len(s) /\ y \in 1 .. Len(s) /\ x < y /\ s[x] = a /\ s[y] = b /\ x # k /\ y # k
  BY <1>3, <1>4, <1>5
<1> QED
  BY <1>1, <1>6 DEF Before, IsInjective

-----------------------------------------------------------------------------
(* The order in which notify works *)

\* Scheduling the head of the list of notify, on any connection.
LEMMA ScheduleInOrder ==
  ASSUME Inv, Inv', PendingInOrder, pending # <<>>, page' = page,
         enabledTransfers' = RemoveFirst(enabledTransfers, Head(pending)),
         pending' = Tail(pending), busyConnections \subseteq busyConnections',
         \A o \in Origins : connectionOrigin[o] \subseteq connectionOrigin'[o]
  PROVE  PendingInOrder'
<1>1. /\ pending \in Seq(Transfers) /\ enabledTransfers \in Seq(Transfers)
      /\ IsInjective(enabledTransfers)
      /\ Head(pending) \in ToSet(enabledTransfers)
      /\ ToSet(pending') \subseteq ToSet(pending)
  BY PendingHead DEF Inv, TypeOK, BookkeepingConsistent
<1> SUFFICES ASSUME NEW a \in Transfers, NEW b \in Transfers,
                    Before(a, b, enabledTransfers'), page.origin[a] = page.origin[b],
                    b \in ToSet(pending')
             PROVE  HostLimitReached(a)' \/ Before(a, b, pending')
  BY DEF PendingInOrder
<1>2. Before(a, b, enabledTransfers) /\ a # Head(pending)
  BY <1>1, OrderBeforeRemoval
<1>3. HostLimitReached(a) \/ Before(a, b, pending)
  BY <1>1, <1>2 DEF PendingInOrder
<1>4. Before(a, b, pending) => Before(a, b, pending')
  BY <1>1, <1>2, OrderInTail
<1>5. HostLimitReached(a) => HostLimitReached(a)'
  BY LimitsMonotonic
<1> QED
  BY <1>3, <1>4, <1>5

LEMMA InitInOrder == Init => PendingInOrder
<1> SUFFICES ASSUME Init, NEW a \in Transfers, NEW b \in Transfers,
                    Before(a, b, enabledTransfers), b \in ToSet(pending)
             PROVE  Before(a, b, pending)
  BY DEF PendingInOrder
<1>1. pending # <<>>
  BY DEF ToSet
<1> QED
  BY <1>1 DEF Init, NotifyPass

LEMMA NextInOrder == PendingInOrder /\ Inv /\ Inv' /\ [Next]_vars => PendingInOrder'
<1> SUFFICES ASSUME PendingInOrder, Inv, Inv', [Next]_vars
             PROVE  PendingInOrder'
  OBVIOUS
<1>1. CASE SkipHostLimited
  <2> SUFFICES ASSUME NEW a \in Transfers, NEW b \in Transfers,
                      Before(a, b, enabledTransfers), page.origin[a] = page.origin[b],
                      b \in ToSet(pending'), ~HostLimitReached(a)
               PROVE  Before(a, b, pending')
    BY <1>1 DEF SkipHostLimited, PendingInOrder, HostLimitReached
  <2>1. pending \in Seq(Transfers) /\ ToSet(pending') \subseteq ToSet(pending) /\ a # Head(pending)
    BY <1>1, PendingHead DEF SkipHostLimited, Inv, TypeOK
  <2>2. Before(a, b, pending)
    BY <2>1 DEF PendingInOrder
  <2> QED
    BY <1>1, <2>1, <2>2, OrderInTail DEF SkipHostLimited
<1>2. ASSUME NEW c, NEW victims, pending # <<>>, StartOn(Head(pending), c, victims)
      PROVE  PendingInOrder'
  BY <1>2, ScheduleInOrder DEF StartOn, BusiedConnection, Inv, TypeOK
<1>3. ASSUME NEW c, NEW victims, pending # <<>>, EnqueueOn(Head(pending), c, victims)
      PROVE  PendingInOrder'
  BY <1>3, ScheduleInOrder DEF EnqueueOn
<1>4. ASSUME pending' = <<>> \/ pending' = enabledTransfers'
      PROVE  PendingInOrder'
  <2>1. pending' = <<>> => ToSet(pending') = {}
    BY DEF ToSet
  <2> QED
    BY <1>4, <2>1 DEF PendingInOrder
<1>5. CASE EnableChild
  BY <1>4, <1>5 DEF EnableChild, NotifyPass
<1>6. ASSUME NEW c \in Conns, GoIdle(c)
      PROVE  PendingInOrder'
  BY <1>4, <1>6 DEF GoIdle, IdledConnection, NotifyPass
<1>7. ASSUME NEW c \in Conns, StartNext(c) \/ IdleTimeout(c)
      PROVE  PendingInOrder'
  BY <1>4, <1>7 DEF StartNext, IdleTimeout, CallStackEmpty
<1>8. CASE FinishTransfer
  BY <1>4, <1>8 DEF FinishTransfer
<1>9. CASE RunEnded \/ UNCHANGED vars
  BY <1>9 DEF RunEnded, vars, PendingInOrder, HostLimitReached
<1> QED
  BY <1>1, <1>2, <1>3, <1>5, <1>6, <1>7, <1>8, <1>9 DEF Next, ScheduleOnNew, ScheduleOnIdle, ScheduleOnBusy

\* A deferred transfer is not overtaken by one to the same host that was enabled later.
THEOREM NobodyOvertakes == Spec => NoOvertaking
<1>1. ASSUME PendingInOrder, Inv, [Next]_vars,
             NEW a \in Transfers, NEW b \in Transfers,
             Before(a, b, enabledTransfers), page.origin[a] = page.origin[b],
             b \notin ToSet(enabledTransfers')
      PROVE  a \notin ToSet(enabledTransfers')
  <2>1. b \in ToSet(enabledTransfers)
    BY <1>1 DEF Before, ToSet
  <2>2. ASSUME pending # <<>>, ~HostLimitReached(Head(pending)),
               enabledTransfers' = RemoveFirst(enabledTransfers, Head(pending))
        PROVE  FALSE
    <3>1. /\ enabledTransfers \in Seq(Transfers) /\ IsInjective(enabledTransfers)
          /\ Head(pending) \in ToSet(enabledTransfers)
          /\ pending \in Seq(Transfers) /\ IsInjective(pending)
      BY <1>1, <2>2, PendingHead DEF Inv, TypeOK, BookkeepingConsistent, AssertionsHold
    <3>2. ToSet(enabledTransfers') = ToSet(enabledTransfers) \ {Head(pending)}
      BY <2>2, <3>1, RemoveFirstProperties
    <3>3. b = Head(pending) /\ b \in ToSet(pending)
      BY <1>1, <2>1, <2>2, <3>1, <3>2, TailOfInjective
    <3>4. Before(a, b, pending)
      BY <1>1, <2>2, <3>3 DEF PendingInOrder, HostLimitReached
    <3> QED
      BY <2>2, <3>1, <3>3, <3>4 DEF Before, IsInjective
  <2>3. ASSUME ToSet(enabledTransfers) \subseteq ToSet(enabledTransfers')
        PROVE  FALSE
    BY <1>1, <2>1, <2>3
  <2>4. CASE ScheduleOnNew \/ ScheduleOnIdle \/ ScheduleOnBusy
    BY <2>2, <2>4 DEF ScheduleOnNew, ScheduleOnIdle, ScheduleOnBusy, StartOn, EnqueueOn
  <2>5. CASE EnableChild
    <3>1. PICK t \in toEnable : enabledTransfers' = Append(enabledTransfers, t)
      BY <2>5 DEF EnableChild
    <3>2. enabledTransfers \in Seq(Transfers) /\ t \in Transfers
      BY <1>1, <3>1 DEF Inv, TypeOK
    <3>3. ToSet(enabledTransfers) \subseteq ToSet(enabledTransfers')
      BY <3>1, <3>2 DEF ToSet
    <3> QED
      BY <2>3, <3>3
  <2>6. CASE UNCHANGED enabledTransfers
    BY <2>3, <2>6
  <2> QED
    BY <1>1, <2>4, <2>5, <2>6 DEF Next, SkipHostLimited, FinishTransfer, GoIdle, StartNext, IdleTimeout, RunEnded, vars
<1>2. PendingInOrder /\ Inv /\ [Next]_vars =>
        [\A a, b \in Transfers :
           /\ Before(a, b, enabledTransfers) /\ page.origin[a] = page.origin[b]
           /\ b \notin ToSet(enabledTransfers')
           => a \notin ToSet(enabledTransfers')]_vars
  BY <1>1
<1> QED
  BY <1>2, InitInOrder, NextInOrder, Invariance, PTL DEF Spec, NoOvertaking

-----------------------------------------------------------------------------
(* The limit on open connections *)

LEMMA OpenIsFinite ==
  ASSUME Inv
  PROVE  /\ Open \subseteq Conns
         /\ \A S \in SUBSET Open : Cardinality(S) \in Nat /\ Cardinality(S) <= Cardinality(Open)
         /\ Cardinality(Open) <= Cardinality(busyConnections) + Cardinality(idleConnections)
<1>1. /\ Open \subseteq Conns /\ busyConnections \subseteq Conns /\ idleConnections \subseteq Conns
  BY DEF Open, Inv, TypeOK
<1>2. /\ IsFiniteSet(Open) /\ IsFiniteSet(busyConnections) /\ IsFiniteSet(idleConnections)
      /\ \A S \in SUBSET Open : Cardinality(S) \in Nat
  BY <1>1, FiniteConnections
<1>3. \A S \in SUBSET Open : Cardinality(S) <= Cardinality(Open)
  BY <1>2, FS_Subset
<1>4. /\ Cardinality(busyConnections) \in Nat /\ Cardinality(idleConnections) \in Nat
      /\ Cardinality(busyConnections \cap idleConnections) \in Nat
  BY <1>1, FiniteConnections
<1>5. Cardinality(Open) = Cardinality(busyConnections) + Cardinality(idleConnections)
                            - Cardinality(busyConnections \cap idleConnections)
  BY <1>2, FS_Union DEF Open
<1> QED
  BY <1>1, <1>2, <1>3, <1>4, <1>5

\* One more connection.
LEMMA OpenedOne ==
  ASSUME Inv, NEW S \in SUBSET Open, NEW c
  PROVE  /\ Cardinality(S \cup {c}) \in Nat
         /\ Cardinality(S \cup {c}) <= Cardinality(S) + 1
<1>1. IsFiniteSet(S) /\ Cardinality(S) \in Nat
  BY OpenIsFinite, FiniteConnections
<1>2. Cardinality(S \cup {c}) = IF c \in S THEN Cardinality(S) ELSE Cardinality(S) + 1
  BY <1>1, FS_AddElement, Zenon
<1> QED
  BY <1>1, <1>2

\* A new connection is opened beyond the limit only if none is idle.
LEMMA OpeningEvicts ==
  ASSUME Inv, NEW c, NEW victims \in Victims(NoConn), idleConnections # {},
         BusiedConnection(c, victims), Cardinality(Open') > Cardinality(Open)
  PROVE  Cardinality(Open') <= GLOBAL_LIMIT
<1>1. PICK before, kept, after : /\ before = Open /\ after = Open'
                                 /\ kept = busyConnections \cup (idleConnections \ victims)
  OBVIOUS
<1>2. kept \in SUBSET Open /\ (after = kept \/ after = kept \cup {c})
  BY <1>1 DEF BusiedConnection, Open
<1>3. /\ Cardinality(before) \in Nat /\ Cardinality(kept) \in Nat
      /\ Cardinality(kept) <= Cardinality(before)
      /\ Cardinality(before) <= Cardinality(busyConnections) + Cardinality(idleConnections)
      /\ Cardinality(busyConnections) \in Nat /\ Cardinality(idleConnections) \in Nat
  <2>1. Open \in SUBSET Open /\ busyConnections \in SUBSET Open /\ idleConnections \in SUBSET Open
    BY DEF Open
  <2> QED
    BY <1>1, <1>2, <2>1, OpenIsFinite
<1>4. Cardinality(after) \in Nat /\ Cardinality(after) <= Cardinality(kept) + 1
  <2>1. PICK more : more = kept \cup {c}
    OBVIOUS
  <2>2. Cardinality(more) \in Nat /\ Cardinality(more) <= Cardinality(kept) + 1
    BY <1>2, <2>1, OpenedOne, Zenon
  <2> QED
    BY <1>2, <1>3, <2>1, <2>2
<1>5. CASE Cardinality(busyConnections) + Cardinality(idleConnections) >= GLOBAL_LIMIT
  <2>1. PICK v \in idleConnections : victims = {v} \ {NoConn}
    BY <1>5 DEF Victims
  <2>2. v \in Conns /\ v \notin busyConnections /\ victims = {v}
    BY <2>1 DEF Inv, TypeOK, BookkeepingConsistent, ConnsIn, Conns, Transfers, NoConn
  <2>3. kept = before \ {v} /\ v \in before
    BY <1>1, <2>2 DEF Open
  <2>4. IsFiniteSet(before)
    BY <1>1, OpenIsFinite, FiniteConnections
  <2>5. Cardinality(kept) = Cardinality(before) - 1
    BY <2>3, <2>4, FS_RemoveElement
  <2> QED
    BY <1>1, <1>3, <1>4, <2>5
<1>6. CASE ~(Cardinality(busyConnections) + Cardinality(idleConnections) >= GLOBAL_LIMIT)
  BY <1>1, <1>3, <1>4, <1>6, LimitAssumption
<1> QED
  BY <1>5, <1>6

\* The connections in use grow beyond the global limit only while all are busy.
THEOREM EvictionComesFirst == Spec => EvictBeforeOpening
<1>1. ASSUME Inv, [Next]_vars, Cardinality(Open') > Cardinality(Open), idleConnections # {}
      PROVE  Cardinality(Open') <= GLOBAL_LIMIT
  <2>1. CASE ScheduleOnNew
    BY <1>1, <2>1, OpeningEvicts DEF ScheduleOnNew, StartOn
  <2>2. ASSUME Open' \subseteq Open
        PROVE  FALSE
    <3>1. PICK before, after : before = Open /\ after = Open'
      OBVIOUS
    <3>2. Cardinality(after) <= Cardinality(before) /\ Cardinality(after) \in Nat
      BY <1>1, <2>2, <3>1, OpenIsFinite
    <3>3. Cardinality(before) \in Nat
      BY <1>1, <3>1, OpenIsFinite
    <3> QED
      BY <1>1, <3>1, <3>2, <3>3
  <2>3. CASE ScheduleOnIdle
    <3>1. Open' \subseteq Open
      BY <2>3 DEF ScheduleOnIdle, StartOn, BusiedConnection, Open
    <3> QED
      BY <2>2, <3>1
  <2>4. CASE ScheduleOnBusy
    <3>1. Open' \subseteq Open
      BY <2>4 DEF ScheduleOnBusy, EnqueueOn, Open
    <3> QED
      BY <2>2, <3>1
  <2>5. ASSUME NEW c \in Conns, GoIdle(c) \/ StartNext(c) \/ IdleTimeout(c)
        PROVE  FALSE
    <3>1. GoIdle(c) => c \in busyConnections
      BY <1>1 DEF GoIdle, Inv, BookkeepingConsistent, ConnsIn
    <3>2. Open' \subseteq Open
      BY <2>5, <3>1 DEF GoIdle, IdledConnection, StartNext, IdleTimeout, ClosedConnection, Open
    <3> QED
      BY <2>2, <3>2
  <2>6. CASE SkipHostLimited \/ FinishTransfer \/ EnableChild \/ RunEnded \/ UNCHANGED vars
    <3>1. Open' \subseteq Open
      BY <2>6 DEF SkipHostLimited, FinishTransfer, EnableChild, RunEnded, vars, Open
    <3> QED
      BY <2>2, <3>1
  <2> QED
    BY <1>1, <2>1, <2>3, <2>4, <2>5, <2>6 DEF Next
<1>2. Inv /\ [Next]_vars =>
        [Cardinality(Open') > Cardinality(Open) =>
           Cardinality(Open') <= GLOBAL_LIMIT \/ idleConnections = {}]_vars
  BY <1>1
<1> QED
  BY <1>2, Invariance, PTL DEF Spec, EvictBeforeOpening

-----------------------------------------------------------------------------
(* The manager implements PageLoad *)

\* The transfers PageLoad calls requested.
Requested == InState("ENQUEUED") \cup InState("ACTIVE") \cup InState("FINISHED")

\* Handing the head of the list of notify to a connection requests it.
LEMMA ScheduleRequests ==
  ASSUME Inv, pending # <<>>, page' = page, NEW st \in {"ACTIVE", "ENQUEUED"},
         tState' = [tState EXCEPT ![Head(pending)] = st]
  PROVE  Load!Next
<1>1. PICK t \in Transfers : t = Head(pending) /\ tState[t] = "ENABLED"
  BY PendingHead
<1>2. t \notin Requested
  BY <1>1 DEF Requested, InState
<1>3. page.parent[t] \in InState("FINISHED") \cup {Load!NoTransfer}
  <2>1. page.parent[t] \in Transfers \cup {NoTransfer}
    BY PagesAssumption DEF Inv, TypeOK, Page
  <2>2. page.parent[t] # NoTransfer => tState[page.parent[t]] = "FINISHED"
    BY <1>1 DEF Inv, Dependency
  <2> QED
    BY <2>1, <2>2 DEF InState, NoTransfer, Load!NoTransfer
<1>4. tState \in [Transfers -> TransferState]
  BY DEF Inv, TypeOK
<1>5. Requested' = Requested \cup {t} /\ InState("FINISHED")' = InState("FINISHED")
  BY <1>1, <1>4 DEF Requested, InState
<1>6. Load!Request(t)
  BY <1>2, <1>3, <1>5 DEF Load!Request, Requested
<1>7. t \in Load!Transfers
  BY DEF Load!Transfers, Transfers
<1> QED
  BY <1>6, <1>7 DEF Load!Next

\* Telling a transfer that it is finished loads it.
LEMMA FinishLoads ==
  ASSUME Inv, FinishTransfer
  PROVE  Load!Next
<1>1. PICK t \in Transfers : t = finishing /\ tState[t] = "ACTIVE"
  BY DEF FinishTransfer, Inv, TypeOK, AssertionsHold
<1>2. tState \in [Transfers -> TransferState] /\ page' = page
  BY DEF FinishTransfer, Inv, TypeOK
<1>3. t \in Requested \ InState("FINISHED")
  BY <1>1 DEF Requested, InState
<1>4. Requested' = Requested /\ InState("FINISHED")' = InState("FINISHED") \cup {t}
  BY <1>1, <1>2 DEF FinishTransfer, Requested, InState
<1>5. Load!Load(t)
  BY <1>2, <1>3, <1>4 DEF Load!Load, Requested
<1>6. t \in Load!Transfers
  BY DEF Load!Transfers, Transfers
<1> QED
  BY <1>5, <1>6 DEF Load!Next

\* Every other step is not seen by PageLoad.
LEMMA OthersStutter ==
  ASSUME page' = page, Requested' = Requested, InState("FINISHED")' = InState("FINISHED")
  PROVE  UNCHANGED Load!vars
BY DEF Load!vars, Requested

\* A transfer is requested once, after the one it depends on is loaded, and
\* stays loaded: every step of the manager is a step of PageLoad or none.
THEOREM SafePageLoad == Spec => Load!Init /\ [][Load!Next]_(Load!vars)
<1>1. Init => Load!Init
  BY DEF Init, Load!Init, InState
<1>2. ASSUME Inv, [Next]_vars
      PROVE  [Load!Next]_(Load!vars)
  <2>1. tState \in [Transfers -> TransferState]
    BY <1>2 DEF Inv, TypeOK
  <2>2. CASE ScheduleOnNew \/ ScheduleOnIdle \/ ScheduleOnBusy
    BY <1>2, <2>2, ScheduleRequests DEF ScheduleOnNew, ScheduleOnIdle, ScheduleOnBusy, StartOn, EnqueueOn
  <2>3. CASE FinishTransfer
    BY <1>2, <2>3, FinishLoads
  <2>4. CASE EnableChild
    <3>1. PICK t \in toEnable : tState' = [tState EXCEPT ![t] = "ENABLED"]
      BY <2>4 DEF EnableChild
    <3>2. tState[t] = "NEW" /\ t \in Transfers
      BY <1>2, <3>1 DEF Inv, TypeOK, AssertionsHold
    <3> QED
      BY <2>1, <2>4, <3>1, <3>2, OthersStutter DEF EnableChild, Requested, InState
  <2>5. ASSUME NEW c \in Conns, StartNext(c)
        PROVE  UNCHANGED Load!vars
    <3>1. PICK t : t = cTransfers[c][2] /\ tState' = [tState EXCEPT ![t] = "ACTIVE"]
      BY <2>5 DEF StartNext
    <3>2. cTransfers[c] \in Seq(Transfers) /\ Len(cTransfers[c]) > 1
      BY <1>2, <2>5 DEF Inv, TypeOK, StartNext
    <3>3. 2 \in DOMAIN cTransfers[c]
      BY <3>2
    <3>4. tState[t] \in {"ACTIVE", "ENQUEUED"} /\ t \in Transfers
      BY <1>2, <3>1, <3>3, InPipeline
    <3>5. page' = page
      BY <2>5 DEF StartNext
    <3> QED
      BY <2>1, <3>1, <3>4, <3>5, OthersStutter DEF Requested, InState
  <2>6. ASSUME tState' = tState, page' = page
        PROVE  UNCHANGED Load!vars
    BY <2>6, OthersStutter DEF Requested, InState
  <2>7. ASSUME NEW c \in Conns, GoIdle(c) \/ IdleTimeout(c)
        PROVE  UNCHANGED Load!vars
    BY <2>6, <2>7 DEF GoIdle, IdleTimeout
  <2>8. CASE SkipHostLimited \/ RunEnded \/ UNCHANGED vars
    BY <2>6, <2>8 DEF SkipHostLimited, RunEnded, vars
  <2> QED
    BY <1>2, <2>2, <2>3, <2>4, <2>5, <2>7, <2>8 DEF Next
<1> QED
  BY <1>1, <1>2, Invariance, PTL DEF Spec

=============================================================================
