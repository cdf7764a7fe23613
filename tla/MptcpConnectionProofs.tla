------------------------ MODULE MptcpConnectionProofs ------------------------
(***************************************************************************)
(* Safety of MPTCP connections and their subflows, for any number of       *)
(* connections, interfaces and transfers, any sizes, times and bandwidths. *)
(* Every handler is proved in three layers: what a new share does to the   *)
(* subflows of one interface and to their masters, what a connection does  *)
(* when it tells its subflows one after the other, and what the handler    *)
(* does around that.                                                       *)
(***************************************************************************)
EXTENDS MptcpConnection, DataLemmas

\* The interfaces list the open connections that have a subflow there.
Listed ==
  \A i \in Interfaces : /\ IsInjective(connections[i])
                        /\ ToSet(connections[i]) = {c \in Open : i \in Flows(c)}

\* The pipelines hold the transfers that were sent and are not finished.
PipelinesOk ==
  /\ \A t \in Transfers : tState[t] = "ENABLED" <=> tConn[t] = None
  /\ \A c \in Conns :
       /\ IsInjective(master[c].transfers)
       /\ master[c].state = "BUSY" <=> master[c].transfers # <<>>
       /\ master[c].state = "NONE" => \A t \in Transfers : tConn[t] # c
       /\ \A t \in Transfers : t \in ToSet(master[c].transfers)
                                <=> tConn[t] = c /\ tState[t] \in {"ENQUEUED", "ACTIVE"}
       /\ \A t \in Transfers : tConn[t] = c /\ tState[t] = "ACTIVE"
                               <=> master[c].transfers # <<>> /\ t = Head(master[c].transfers)

\* No byte of a transfer is transferred before it has a connection.
BytesOk == \A t \in Transfers : tState[t] = "ENABLED" => outstandingBytes[t] = size[t]

\* The subflow on the first interface is connected with the connection, the others when its
\* handshake is done, and a connection goes idle only after that; where there is no subflow
\* its storage is new.
ShapeOk(m, fs) ==
  /\ IF m.state = "NONE" THEN m.subflows = <<>>
     ELSE /\ m.interfaces \in Paths
          /\ m.subflows = IF fs[Head(m.interfaces)].ssState = "NEW" THEN <<Head(m.interfaces)>>
                          ELSE m.interfaces
          /\ m.state = "IDLE" => fs[Head(m.interfaces)].ssState # "NEW"
  /\ \A i \in Interfaces : i \notin ToSet(m.subflows) => fs[i] = NewFlow

\* Windows do not shrink in slow start.
WindowOk(f) == f.ssState # "CA" => f.cwnd >= InitialCwnd

\* A subflow of a connection in that state wants a share if and only if it transfers bytes,
\* and it has one if and only if it wants one.
Progresses(state, f) == state = "BUSY" /\ f.ssState # "NEW"
WishOk(state, f) == /\ f.desiredBw > 0 <=> Progresses(state, f)
                    /\ f.availableBw > 0 <=> Progresses(state, f)
\* It has the state of the connection, but for a subflow in its handshake, which takes it
\* over later.
StateOk(state, f) == Progresses(state, f) \/ state # "BUSY" => f.state = state
\* No event of it lies in the past, none is superfluous, and a handshake has one.
Rounds(state, f) == f.ssState = "NEW" \/ (f.ssState = "SS" /\ state = "BUSY")
RoundOk(state, f) ==
  /\ f.nextEvent # None => f.nextEvent >= now /\ state \in {"IDLE", "BUSY"} /\ Rounds(state, f)
  /\ f.ssState = "NEW" /\ state \in {"IDLE", "BUSY"} => f.nextEvent # None
FlowOk(state, f) == WishOk(state, f) /\ StateOk(state, f) /\ RoundOk(state, f)

\* The bandwidth of the subflows of a connection together, and of those on an interface.
FlowSum(m, fs) == Sum([i \in Interfaces |-> fs[i].availableBw], ToSet(m.subflows))
ColumnSum(fl, i) == Sum([c \in Conns |-> fl[c][i].availableBw], Conns)

\* Since its bandwidth was set a busy connection has transferred no more than that allows,
\* and at its deadline it will have transferred just as much: nothing is left.
Left(m) == outstandingBytes[Head(m.transfers)]
Since(m) == m.transferredBytesSum - m.lastBwUpdateTransferredBytesSum
CapacityOk(m) == /\ m.lastBwUpdate <= now
                 /\ Since(m) * Second <= m.availableBw * (now - m.lastBwUpdate)
DeadlineOk(m) ==
  IF m.availableBw = 0 THEN m.nextEvent = None /\ m.currTransferFinishTime = None /\ Left(m) > 0
  ELSE /\ m.nextEvent = m.currTransferFinishTime /\ m.nextEvent \in Nat /\ m.nextEvent >= now
       /\ (Since(m) + Left(m)) * Second = m.availableBw * (m.nextEvent - m.lastBwUpdate)
       /\ m.nextEvent = now => Left(m) = 0
\* The event of a connection whose event is not being handled, and of one whose is.
MasterOk(m) ==
  /\ m.state = "BUSY" => CapacityOk(m) /\ DeadlineOk(m)
  /\ m.state = "IDLE" => m.nextEvent = m.idleTimestamp + IdleTimeout /\ m.nextEvent >= now
  /\ m.state \notin {"IDLE", "BUSY"} => m.nextEvent = None
DoneOk(m) == /\ m.availableBw > 0 /\ Left(m) = 0 /\ m.lastBwUpdate <= now
             /\ Since(m) * Second = m.availableBw * (now - m.lastBwUpdate)
HandledOk(m) == m.state \in {"IDLE", "BUSY"} /\ m.nextEvent = None /\ (m.state = "BUSY" => DoneOk(m))

\* What a connection and its subflows agree on, be an event of them handled or not.
Agree(m, fs) ==
  /\ ShapeOk(m, fs) /\ ~m.bwUpdateInProgress
  /\ m.desiredBw > 0 <=> m.state = "BUSY"
  /\ m.availableBw = FlowSum(m, fs)
  /\ \A i \in Interfaces : WindowOk(fs[i])
  /\ \A i \in ToSet(m.subflows) : WishOk(m.state, fs[i]) /\ StateOk(m.state, fs[i])

\* A connection, none of whose events is being handled.
Whole(m, fs) ==
  Agree(m, fs) /\ MasterOk(m) /\ \A i \in ToSet(m.subflows) : RoundOk(m.state, fs[i])

\* Any connection.
HandledRound(state, f) == f.nextEvent = None /\ state \in {"IDLE", "BUSY"} /\ Rounds(state, f)
ConnOk(c) ==
  /\ Agree(master[c], flow[c])
  /\ IF event = <<c, None>> THEN HandledOk(master[c]) ELSE MasterOk(master[c])
  /\ \A i \in Flows(c) : IF event = <<c, i>> THEN HandledRound(master[c].state, flow[c][i])
                         ELSE RoundOk(master[c].state, flow[c][i])
EventOk ==
  event # NoEvent => /\ event[1] \in Open
                     /\ event[2] # None => event[2] \in Flows(event[1])

SharesFit(fl) == \A i \in Interfaces : ColumnSum(fl, i) <= Bandwidth[i]

IInv ==
  /\ TypeOK /\ Listed /\ PipelinesOk /\ BytesOk /\ BytesConserved
  /\ SharesFit(flow) /\ EventOk /\ \A c \in Conns : ConnOk(c)

-----------------------------------------------------------------------------
(* Constants and arithmetic *)

LEMMA Constants ==
  /\ IsFiniteSet(Conns) /\ IsFiniteSet(Interfaces) /\ IsFiniteSet(Transfers)
  /\ None \notin Conns /\ None \notin Interfaces /\ None = -1
  /\ Second \in Nat \ {0} /\ InitialCwnd \in Nat /\ IdleTimeout \in Nat \ {0}
  /\ \A i \in Interfaces : /\ Bandwidth[i] \in Nat /\ Bandwidth[i] >= Cardinality(Conns)
                           /\ RTT[i] \in Nat \ {0} /\ InitialCwnd * Second >= RTT[i]
  /\ \A n \in Sizes : n \in Nat \ {0}
  /\ \A round \in Handshakes : round \in Nat \ {0}
BY PathsAssumption, BandwidthAssumption, SecondAssumption, TimesAssumption, SizesAssumption
   DEF None

\* A path is a list of at least two interfaces, each of them once.
LEMMA PathProperties ==
  ASSUME NEW p \in Paths
  PROVE  /\ p \in Seq(Interfaces) /\ Len(p) > 1 /\ IsInjective(p) /\ p # <<>>
         /\ Head(p) \in Interfaces /\ Head(p) \in ToSet(p) /\ ToSet(p) \subseteq Interfaces
         /\ ToSet(Tail(p)) = ToSet(p) \ {Head(p)}
<1>1. p \in SeqOf(Interfaces, Cardinality(Interfaces)) /\ Len(p) > 1 /\ IsInjective(p)
  BY PathsAssumption
<1>2. Cardinality(Interfaces) \in Nat
  BY Constants, FS_CardinalityType
<1>3. p \in Seq(Interfaces)
  BY <1>1, <1>2 DEF SeqOf
<1>4. p # <<>>
  BY <1>1, <1>3
<1>5. ToSet(p) \subseteq Interfaces
  BY <1>3, ElementsOfList
<1> QED BY <1>1, <1>3, <1>4, <1>5, TailOfInjective

LEMMA PerRttType ==
  ASSUME NEW bytes \in Nat, NEW i \in Interfaces
  PROVE  PerRtt(bytes, i) \in Nat
<1>1. bytes * Second \in Nat /\ RTT[i] \in Nat \ {0}
  BY Constants
<1> QED BY <1>1, Division DEF PerRtt

LEMMA PerRttOfWindow ==
  ASSUME NEW bytes \in Nat, bytes >= InitialCwnd, NEW i \in Interfaces
  PROVE  PerRtt(bytes, i) > 0
<1> DEFINE a == bytes * Second
           b == InitialCwnd * Second
           r == RTT[i]
<1>1. a \in Nat /\ b \in Nat /\ b <= a /\ b >= r /\ r \in Nat \ {0}
  BY Constants
<1> HIDE DEF a, b, r
<1>2. 1 * r <= a
  BY <1>1
<1>3. 1 <= a \div r
  BY <1>1, <1>2, DivisionIsGreatest
<1>4. a \div r \in Nat
  BY <1>1, Division
<1> QED BY <1>3, <1>4 DEF PerRtt, a, r

\* Every bandwidth that a connection may have divides a second.
LEMMA ExactShare ==
  ASSUME NEW bw \in 1 .. Sum(Bandwidth, Interfaces), NEW out \in Nat
  PROVE  /\ ((out * Second) \div bw) \in Nat
         /\ bw * ((out * Second) \div bw) = out * Second
         /\ ((out * Second) \div bw) = 0 => out = 0
<1>1. Sum(Bandwidth, Interfaces) \in Int
  BY Constants, SumType DEF Sum
<1>2. bw \in Nat \ {0} /\ Second \in Nat \ {0} /\ Second % bw = 0
  BY <1>1, SecondAssumption
<1> QED BY <1>2, ExactDivision

-----------------------------------------------------------------------------
(* The bandwidth of a master *)

\* What neither a new bandwidth nor a new deadline touches.
Untouched(m, r) ==
  /\ r.state = m.state /\ r.interfaces = m.interfaces /\ r.subflows = m.subflows
  /\ r.transfers = m.transfers /\ r.outstandingTransferBytesSum = m.outstandingTransferBytesSum
  /\ r.transferredBytesSum = m.transferredBytesSum /\ r.desiredBw = m.desiredBw
  /\ r.bwUpdateInProgress = m.bwUpdateInProgress /\ r.idleTimestamp = m.idleTimestamp

\* The event of r has just been calculated.
Fresh(r) ==
  /\ r.state = "IDLE" => r.nextEvent = r.idleTimestamp + IdleTimeout
  /\ r.state = "BUSY" => CapacityOk(r) /\ DeadlineOk(r)

Typed(m) == /\ m \in MasterStorage /\ now \in Nat
            /\ m.state = "BUSY" => Left(m) \in Nat

LEMMA ScheduleProperties ==
  ASSUME NEW m, Typed(m), m.state \in {"IDLE", "BUSY"},
         m.state = "BUSY" => /\ m.availableBw > 0 /\ m.lastBwUpdate <= now
                             /\ Since(m) * Second = m.availableBw * (now - m.lastBwUpdate)
  PROVE  LET r == ScheduleNextEvent(m)
         IN  /\ r \in MasterStorage /\ Untouched(m, r) /\ Fresh(r)
             /\ r.availableBw = m.availableBw /\ r.lastBwUpdate = m.lastBwUpdate
             /\ r.lastBwUpdateTransferredBytesSum = m.lastBwUpdateTransferredBytesSum
<1> DEFINE r == ScheduleNextEvent(m)
           out == Left(m)
           q == (out * Second) \div m.availableBw
           idle == m.idleTimestamp + IdleTimeout
           finish == now + q
<1>1. m \in MasterStorage /\ now \in Nat
  BY DEF Typed
<1>2. CASE m.state = "IDLE"
  <2>1. r = [m EXCEPT !.nextEvent = idle]
    BY <1>2 DEF ScheduleNextEvent
  <2>2. idle \in Nat
    BY <1>1, Constants DEF MasterStorage
  <2> HIDE DEF r
  <2>3. idle = m.idleTimestamp + IdleTimeout
    OBVIOUS
  <2> HIDE DEF idle
  <2>4. /\ r \in MasterStorage /\ Untouched(m, r) /\ r.nextEvent = idle
        /\ r.availableBw = m.availableBw /\ r.lastBwUpdate = m.lastBwUpdate
        /\ r.lastBwUpdateTransferredBytesSum = m.lastBwUpdateTransferredBytesSum
    BY <1>1, <2>1, <2>2 DEF MasterStorage, Untouched
  <2>5. Fresh(r)
    BY <1>2, <2>3, <2>4 DEF Fresh, Untouched
  <2> QED BY <2>4, <2>5 DEF r
<1>3. CASE m.state = "BUSY"
  <2> DEFINE bw == m.availableBw
             since == Since(m)
             ago == now - m.lastBwUpdate
  <2>1. out \in Nat /\ bw > 0 /\ m.lastBwUpdate <= now /\ since * Second = bw * ago
    BY <1>3 DEF Typed
  <2>2. bw \in 1 .. Sum(Bandwidth, Interfaces) /\ bw \in Nat \ {0}
    <3>1. Sum(Bandwidth, Interfaces) \in Int
      BY Constants, SumType DEF Sum
    <3>2. bw \in 0 .. Sum(Bandwidth, Interfaces)
      BY <1>1 DEF MasterStorage
    <3> HIDE DEF bw
    <3> QED BY <2>1, <3>1, <3>2
  <2>3. m.lastBwUpdate \in Nat /\ since \in Int
    BY <1>1 DEF MasterStorage, Since
  <2>4. q \in Nat /\ bw * q = out * Second /\ (q = 0 => out = 0)
    <3> HIDE DEF bw, out
    <3>1. /\ (out * Second) \div bw \in Nat
          /\ bw * ((out * Second) \div bw) = out * Second
          /\ (out * Second) \div bw = 0 => out = 0
      BY <2>1, <2>2, ExactShare
    <3>2. q = (out * Second) \div bw
      BY DEF q, bw
    <3> HIDE DEF q
    <3> QED BY <3>1, <3>2
  <2>5. r = [m EXCEPT !.nextEvent = finish, !.currTransferFinishTime = finish]
    BY <1>3, <2>2 DEF ScheduleNextEvent, Left
  <2> HIDE DEF r, q, out, bw, since
  <2>6. finish \in Nat /\ finish >= now /\ (finish = now => out = 0)
    BY <1>1, <2>4
  <2>7. (since + out) * Second = bw * (finish - m.lastBwUpdate)
    <3>1. finish - m.lastBwUpdate = ago + q /\ ago \in Int
      BY <1>1, <2>3, <2>4
    <3> HIDE DEF finish, ago
    <3>2. (since + out) * Second = since * Second + out * Second
      BY <2>1, <2>3, Constants
    <3>3. bw * (ago + q) = bw * ago + bw * q
      BY <2>2, <2>4, <3>1
    <3> QED BY <2>1, <2>4, <3>1, <3>2, <3>3
  <2> DEFINE f == finish
  <2> HIDE DEF f
  <2>8. /\ r \in MasterStorage /\ Untouched(m, r) /\ r.nextEvent = f /\ r.currTransferFinishTime = f
        /\ r.availableBw = m.availableBw /\ r.lastBwUpdate = m.lastBwUpdate
        /\ r.lastBwUpdateTransferredBytesSum = m.lastBwUpdateTransferredBytesSum
    <3>1. f \in Nat /\ r = [m EXCEPT !.nextEvent = f, !.currTransferFinishTime = f]
      BY <2>5, <2>6 DEF f
    <3> QED BY <1>1, <3>1 DEF MasterStorage, Untouched
  <2>9. Since(r) = since /\ Left(r) = out
    BY <2>8 DEF Untouched, Since, Left, since, out
  <2>10. CapacityOk(r)
    BY <1>1, <2>1, <2>2, <2>3, <2>8, <2>9, Constants DEF CapacityOk, bw
  <2>11. DeadlineOk(r)
    BY <2>2, <2>6, <2>7, <2>8, <2>9 DEF DeadlineOk, f, bw
  <2>12. Fresh(r)
    BY <1>3, <2>8, <2>10, <2>11 DEF Fresh, Untouched
  <2> QED BY <2>8, <2>12 DEF r
<1> QED BY <1>2, <1>3

\* A master with a new bandwidth, or with the one it has.
Renewed(m, fs, r) ==
  /\ r \in MasterStorage /\ Untouched(m, r) /\ r.availableBw = FlowSum(m, fs)
  /\ IF FlowSum(m, fs) = m.availableBw THEN r = m
     ELSE Fresh(r) /\ (r.state = "BUSY" => Since(r) = 0 /\ r.lastBwUpdate = now)

LEMMA RenewProperties ==
  ASSUME NEW m, NEW fs, Typed(m), ~m.bwUpdateInProgress,
         FlowSum(m, fs) \in 0 .. Sum(Bandwidth, Interfaces),
         FlowSum(m, fs) # m.availableBw =>
           m.state \in {"IDLE", "BUSY"} /\ (m.state = "BUSY" => FlowSum(m, fs) > 0)
  PROVE  Renewed(m, fs, UpdateAvailableBw(m, fs))
<1> DEFINE sum == FlowSum(m, fs)
           x == [m EXCEPT !.availableBw = sum, !.lastBwUpdate = now,
                          !.lastBwUpdateTransferredBytesSum = m.transferredBytesSum]
           r == UpdateAvailableBw(m, fs)
<1>1. m \in MasterStorage /\ now \in Nat
  BY DEF Typed
<1>2. CASE sum = m.availableBw
  <2>1. r = m
    BY <1>2 DEF UpdateAvailableBw, FlowSum, Sum
  <2> QED BY <1>1, <1>2, <2>1 DEF Renewed, Untouched
<1>3. CASE sum # m.availableBw
  <2>1. r = ScheduleNextEvent(x)
    BY <1>3 DEF UpdateAvailableBw, FlowSum, Sum
  <2>2. m.transferredBytesSum \in Nat /\ sum \in 0 .. Sum(Bandwidth, Interfaces)
    BY <1>1 DEF MasterStorage
  <2>3. m.state \in {"IDLE", "BUSY"} /\ (m.state = "BUSY" => sum > 0)
    BY <1>3
  <2>a. FlowSum(m, fs) = sum
    OBVIOUS
  <2> HIDE DEF sum
  <2>4. /\ x \in MasterStorage /\ Untouched(m, x) /\ x.availableBw = sum /\ x.lastBwUpdate = now
        /\ x.lastBwUpdateTransferredBytesSum = m.transferredBytesSum
    BY <1>1, <2>2 DEF MasterStorage, Untouched
  <2> HIDE DEF x, r
  <2>5. Since(x) = 0
    BY <2>2, <2>4 DEF Since, Untouched
  <2>6. Typed(x) /\ x.state \in {"IDLE", "BUSY"}
    BY <1>1, <2>3, <2>4 DEF Typed, Untouched, Left
  <2>7. x.state = "BUSY" => /\ x.availableBw > 0 /\ x.lastBwUpdate <= now
                            /\ Since(x) * Second = x.availableBw * (now - x.lastBwUpdate)
    <3> SUFFICES ASSUME x.state = "BUSY"
                 PROVE  /\ x.availableBw > 0 /\ x.lastBwUpdate <= now
                        /\ Since(x) * Second = x.availableBw * (now - x.lastBwUpdate)
      OBVIOUS
    <3>1. x.availableBw > 0
      BY <2>3, <2>4 DEF Untouched
    <3>2. sum \in Int
      <4>1. Sum(Bandwidth, Interfaces) \in Int
        BY Constants, SumType DEF Sum
      <4> QED BY <2>2, <4>1
    <3>3. sum * (now - now) = 0 /\ 0 * Second = 0 /\ now <= now
      BY <1>1, <3>2, Constants
    <3> QED BY <2>4, <2>5, <3>1, <3>3
  <2>8. /\ r \in MasterStorage /\ Untouched(x, r) /\ Fresh(r)
        /\ r.availableBw = x.availableBw /\ r.lastBwUpdate = x.lastBwUpdate
        /\ r.lastBwUpdateTransferredBytesSum = x.lastBwUpdateTransferredBytesSum
    BY <2>1, <2>6, <2>7, ScheduleProperties
  <2>9. Since(r) = Since(x) /\ Untouched(m, r)
    BY <2>4, <2>8 DEF Since, Untouched
  <2> QED BY <1>3, <2>a, <2>4, <2>5, <2>8, <2>9 DEF Renewed, r
<1> QED BY <1>2, <1>3

LEMMA SumOfBandwidths == Sum(Bandwidth, Interfaces) \in Nat
<1>1. \A i \in Interfaces : Bandwidth[i] \in Nat
  BY Constants
<1> QED BY <1>1, Constants, SumOfNaturals DEF Sum

LEMMA SubflowsOf ==
  ASSUME NEW m \in MasterStorage, NEW fs, ShapeOk(m, fs)
  PROVE  /\ ToSet(m.subflows) \subseteq Interfaces /\ IsFiniteSet(ToSet(m.subflows))
         /\ m.subflows \in Seq(Interfaces) /\ IsInjective(m.subflows)
         /\ m.state # "NONE" => /\ m.interfaces \in Paths
                                /\ Head(m.interfaces) \in ToSet(m.subflows)
                                /\ Head(m.interfaces) = Head(m.subflows)
                                /\ m.subflows # <<>>
         /\ m.state # "NONE" /\ fs[Head(m.interfaces)].ssState = "NEW" =>
              ToSet(m.subflows) = {Head(m.interfaces)}
         /\ m.state = "NONE" => ToSet(m.subflows) = {}
<1>1. m.subflows \in Seq(Interfaces)
  BY DEF MasterStorage
<1>2. ToSet(m.subflows) \subseteq Interfaces /\ IsFiniteSet(ToSet(m.subflows))
  BY <1>1, ElementsOfList, ElementsFinite
<1>3. CASE m.state = "NONE"
  <2>1. m.subflows = <<>>
    BY <1>3 DEF ShapeOk
  <2>2. ToSet(m.subflows) = {} /\ IsInjective(m.subflows)
    BY <2>1 DEF ToSet, IsInjective
  <2> QED BY <1>1, <1>2, <1>3, <2>2
<1>4. CASE m.state # "NONE"
  <2> DEFINE p == m.interfaces
  <2>1. p \in Paths /\ m.subflows = IF fs[Head(p)].ssState = "NEW" THEN <<Head(p)>> ELSE p
    BY <1>4 DEF ShapeOk
  <2>2. p \in Seq(Interfaces) /\ IsInjective(p) /\ p # <<>> /\ Head(p) \in Interfaces
        /\ Head(p) \in ToSet(p)
    BY <2>1, PathProperties
  <2> HIDE DEF p
  <2>3. /\ ToSet(<<Head(p)>>) = {Head(p)} /\ IsInjective(<<Head(p)>>) /\ Head(<<Head(p)>>) = Head(p)
        /\ <<Head(p)>> # <<>>
    BY DEF ToSet, IsInjective
  <2>4. CASE fs[Head(p)].ssState = "NEW"
    BY <1>1, <1>2, <1>4, <2>1, <2>3, <2>4 DEF p
  <2>5. CASE fs[Head(p)].ssState # "NEW"
    BY <1>1, <1>2, <1>4, <2>1, <2>2, <2>5 DEF p
  <2> QED BY <2>4, <2>5
<1> QED BY <1>3, <1>4

\* A connection has bandwidth if and only if it is busy and its first handshake is done.
SumOk(m, fs) ==
  /\ FlowSum(m, fs) \in 0 .. Sum(Bandwidth, Interfaces)
  /\ m.state # "BUSY" => FlowSum(m, fs) = 0
  /\ m.state = "BUSY" => (FlowSum(m, fs) > 0 <=> fs[Head(m.interfaces)].ssState # "NEW")

LEMMA SumOfFlows ==
  ASSUME NEW m \in MasterStorage, NEW fs \in [Interfaces -> FlowStorage], ShapeOk(m, fs),
         \A i \in Interfaces : fs[i].availableBw <= Bandwidth[i],
         \A i \in ToSet(m.subflows) : fs[i].availableBw > 0 <=> Progresses(m.state, fs[i])
  PROVE  SumOk(m, fs)
<1> DEFINE avail == [i \in Interfaces |-> fs[i].availableBw]
           used == ToSet(m.subflows)
           sum == Sum(avail, used)
           first == Head(m.interfaces)
<1>1. used \subseteq Interfaces /\ IsFiniteSet(used)
  BY SubflowsOf
<1>2. \A i \in Interfaces : avail[i] \in Nat /\ avail[i] = fs[i].availableBw
  <2>1. ASSUME NEW i \in Interfaces PROVE fs[i].availableBw \in Nat
    <3>1. fs[i] \in FlowStorage
      OBVIOUS
    <3> QED BY <3>1 DEF FlowStorage
  <2> QED BY <2>1
<1>3. FlowSum(m, fs) = sum
  BY DEF FlowSum
<1>4. \A i \in used : fs[i].availableBw > 0 <=> Progresses(m.state, fs[i])
  OBVIOUS
<1> HIDE DEF avail, used
<1>5. sum \in Nat
  BY <1>1, <1>2, SumOfNaturals DEF Sum
<1>6. sum <= Sum(Bandwidth, Interfaces)
  <2> DEFINE rest == Interfaces \ used
  <2>1. IsFiniteSet(rest) /\ used \cup rest = Interfaces /\ used \cap rest = {}
    BY <1>1, Constants, FS_Difference
  <2>2. \A i \in used \cup rest : Bandwidth[i] \in Nat /\ avail[i] <= Bandwidth[i]
    BY <1>1, <1>2, Constants
  <2> HIDE DEF rest
  <2>3. Sum(Bandwidth, used \cup rest) = Sum(Bandwidth, used) + Sum(Bandwidth, rest)
    BY <1>1, <2>1, <2>2, SumOfUnion DEF Sum
  <2>4. Sum(Bandwidth, rest) \in Nat /\ Sum(Bandwidth, used) \in Nat
    BY <1>1, <2>1, <2>2, SumOfNaturals DEF Sum
  <2>5. sum <= Sum(Bandwidth, used)
    <3>1. \A i \in used : avail[i] \in Int /\ Bandwidth[i] \in Int /\ avail[i] <= Bandwidth[i]
      BY <1>1, <1>2, <2>2
    <3> QED BY <1>1, <3>1, SumMonotone DEF Sum
  <2>6. Sum(Bandwidth, Interfaces) = Sum(Bandwidth, used) + Sum(Bandwidth, rest)
    BY <2>1, <2>3
  <2> HIDE DEF sum
  <2> QED BY <1>5, <2>4, <2>5, <2>6
<1>7. ASSUME \A i \in used : ~Progresses(m.state, fs[i])
      PROVE  sum = 0
  <2>1. \A i \in used : avail[i] = 0
    BY <1>1, <1>2, <1>4, <1>7
  <2>2. sum = 0 * Cardinality(used)
    BY <1>1, <2>1, SumOfConstant DEF Sum
  <2> QED BY <1>1, <2>2, FS_CardinalityType
<1>8. ASSUME m.state = "BUSY", fs[first].ssState # "NEW"
      PROVE  sum > 0
  <2>1. first \in used
    BY <1>8, SubflowsOf DEF used
  <2>2. avail[first] > 0
    BY <1>1, <1>2, <1>4, <1>8, <2>1 DEF Progresses
  <2>3. \A i \in used : avail[i] \in Nat /\ avail[i] \in Int
    BY <1>1, <1>2
  <2>4. sum = avail[first] + Sum(avail, used \ {first})
    BY <1>1, <2>1, <2>3, SumWithout DEF Sum
  <2>5. Sum(avail, used \ {first}) \in Nat
    <3>1. IsFiniteSet(used \ {first}) /\ \A i \in used \ {first} : avail[i] \in Nat
      BY <1>1, <2>3, FS_RemoveElement
    <3> QED BY <3>1, SumOfNaturals DEF Sum
  <2> HIDE DEF sum
  <2> QED BY <2>1, <2>2, <2>3, <2>4, <2>5
<1>9. ASSUME m.state = "BUSY", fs[first].ssState = "NEW"
      PROVE  sum = 0
  <2>1. used = {first}
    BY <1>9, SubflowsOf DEF used
  <2> QED BY <1>7, <1>9, <2>1 DEF Progresses
<1>10. m.state # "BUSY" => sum = 0
  BY <1>7 DEF Progresses
<1> HIDE DEF sum
<1>11. sum \in 0 .. Sum(Bandwidth, Interfaces)
  BY <1>5, <1>6, SumOfBandwidths
<1> QED BY <1>3, <1>8, <1>9, <1>10, <1>11 DEF SumOk

-----------------------------------------------------------------------------
(* A new share for a subflow *)

\* What a share changes in the storage of a subflow: it may end slow start, and it begins
\* the round of slow start anew.
Told(state, f, r) ==
  /\ r \in FlowStorage /\ r.state = f.state /\ r.transferredBytesSum = f.transferredBytesSum
  /\ r.ssState = "NEW" <=> f.ssState = "NEW"
  /\ r.ssState = "NEW" => r = f
  /\ r.ssState = "SS" => f.ssState = "SS"
  /\ WindowOk(f) => WindowOk(r)
  /\ WishOk(state, r)
  /\ f.ssState = "SS" \/ RoundOk(state, f) => RoundOk(state, r)
  /\ r.ssState = "SS" /\ state = "BUSY" => r.nextEvent # None

\* A subflow that its interface may tell its share.
Awaits(state, f) ==
  /\ state \in {"IDLE", "BUSY"} /\ f \in FlowStorage
  /\ f.desiredBw > 0 <=> Progresses(state, f)
  /\ f.ssState = "NEW" => f.availableBw = 0

LEMMA ToldProperties ==
  ASSUME NEW m \in MasterStorage, NEW f, Awaits(m.state, f), NEW i \in Interfaces, NEW bw \in Nat,
         f.desiredBw > 0 <=> bw > 0, now \in Nat
  PROVE  LET r == IF Notices(f, bw) THEN SetAvailableBw(m, f, i, bw) ELSE f
         IN  Told(m.state, f, r) /\ r.availableBw = bw
<1> DEFINE r == IF Notices(f, bw) THEN SetAvailableBw(m, f, i, bw) ELSE f
<1>1. /\ f \in FlowStorage /\ m.state \in {"IDLE", "BUSY"}
      /\ bw > 0 <=> Progresses(m.state, f)
      /\ f.desiredBw > 0 <=> bw > 0
      /\ f.ssState = "NEW" => f.availableBw = 0 /\ bw = 0
  BY DEF Awaits, Progresses
<1>2. /\ m.desiredBw \in Nat /\ f.desiredBw \in Nat /\ f.availableBw \in Nat /\ f.cwnd \in Nat
      /\ f.ssState \in {"NEW", "SS", "CA"}
      /\ f.nextEvent \in Nat \cup {None}
  BY <1>1 DEF MasterStorage, FlowStorage
<1>3. CASE ~Notices(f, bw)
  <2>1. r = f /\ f.availableBw = bw /\ f.ssState # "SS"
    BY <1>3 DEF Notices
  <2>2. WishOk(m.state, f)
    BY <1>1, <2>1 DEF WishOk
  <2> QED BY <1>1, <2>1, <2>2 DEF Told
<1>4. CASE Notices(f, bw) /\ DropsOut(m, f, i, bw)
  <2> DEFINE wish == Max({m.desiredBw, f.desiredBw})
             x == [f EXCEPT !.availableBw = bw, !.ssState = "CA", !.cwnd = 0, !.desiredBw = wish]
  <2>1. wish \in Nat /\ wish >= f.desiredBw
    BY <1>2 DEF Max
  <2>2. m.state = "BUSY" /\ f.ssState = "SS"
    BY <1>4 DEF DropsOut
  <2>3. r = ScheduleNextRound(m, x, i)
    BY <1>4 DEF SetAvailableBw
  <2> HIDE DEF wish
  <2>4. x.ssState = "CA"
    BY <1>1 DEF FlowStorage
  <2>5. r = [x EXCEPT !.nextEvent = None]
    BY <2>3, <2>4 DEF ScheduleNextRound
  <2>6. /\ r \in FlowStorage /\ r.availableBw = bw /\ r.ssState = "CA" /\ r.desiredBw = wish
        /\ r.state = f.state /\ r.transferredBytesSum = f.transferredBytesSum
        /\ r.nextEvent = None
    <3>1. x \in FlowStorage /\ x.availableBw = bw /\ x.desiredBw = wish /\ x.state = f.state
          /\ x.transferredBytesSum = f.transferredBytesSum
      BY <1>1, <2>1 DEF FlowStorage
    <3> HIDE DEF r, x
    <3> QED BY <2>4, <2>5, <3>1 DEF FlowStorage
  <2>7. bw > 0 /\ wish > 0
    BY <1>1, <1>2, <2>1, <2>2 DEF Progresses
  <2>8. WishOk(m.state, r)
    BY <2>2, <2>6, <2>7 DEF WishOk, Progresses
  <2>9. RoundOk(m.state, r) /\ WindowOk(r)
    BY <2>6 DEF RoundOk, WindowOk
  <2> HIDE DEF r, x
  <2>10. Told(m.state, f, r)
    BY <2>2, <2>6, <2>8, <2>9 DEF Told
  <2> QED BY <2>6, <2>10 DEF r
<1>5. CASE Notices(f, bw) /\ ~DropsOut(m, f, i, bw)
  <2> DEFINE next == IF m.state = "BUSY" /\ f.ssState = "SS" THEN now + RTT[i] ELSE None
             x == [f EXCEPT !.availableBw = bw]
  <2>1. f.ssState # "NEW"
    BY <1>1, <1>2, <1>5 DEF Notices
  <2>2. r = ScheduleNextRound(m, x, i) /\ x.ssState = f.ssState
    BY <1>1, <1>5 DEF SetAvailableBw, FlowStorage
  <2>3. r = [x EXCEPT !.nextEvent = next]
    BY <2>2 DEF ScheduleNextRound
  <2>4. next \in Nat \cup {None} /\ (next # None => next >= now /\ Rounds(m.state, f))
        /\ (m.state = "BUSY" /\ f.ssState = "SS" => next # None)
    BY Constants DEF Rounds
  <2> HIDE DEF next
  <2>5. /\ r \in FlowStorage /\ r.availableBw = bw /\ r.ssState = f.ssState /\ r.cwnd = f.cwnd
        /\ r.desiredBw = f.desiredBw
        /\ r.state = f.state /\ r.transferredBytesSum = f.transferredBytesSum
        /\ r.nextEvent = next
    BY <1>1, <2>3, <2>4 DEF FlowStorage
  <2>8. WishOk(m.state, r)
    BY <1>1, <2>5 DEF WishOk, Progresses
  <2>9. RoundOk(m.state, r) /\ (WindowOk(f) => WindowOk(r))
    BY <1>1, <2>1, <2>4, <2>5 DEF RoundOk, WindowOk, Rounds
  <2> HIDE DEF r, x
  <2>10. Told(m.state, f, r)
    BY <2>1, <2>4, <2>5, <2>8, <2>9 DEF Told
  <2> QED BY <2>5, <2>10 DEF r
<1> QED BY <1>3, <1>4, <1>5

-----------------------------------------------------------------------------
(* New shares for the subflows on an interface *)

Storage == [master : [Conns -> MasterStorage], flow : [Conns -> [Interfaces -> FlowStorage]]]

\* A connection that has the sum of the bandwidths of its subflows, or does not listen.
AddedUp(m, fs) == m.bwUpdateInProgress \/ m.availableBw = FlowSum(m, fs)

ColumnReady(st, i) ==
  /\ st \in Storage /\ now \in Nat
  /\ connections[i] \in Seq(Conns) /\ IsInjective(connections[i])
  /\ \A d \in ToSet(connections[i]) : Awaits(st.master[d].state, st.flow[d][i])
  /\ \A d \in Conns \ ToSet(connections[i]) : st.flow[d][i].availableBw = 0
  /\ \A d \in Conns : AddedUp(st.master[d], st.flow[d])

ColumnUpdated(st, i, r) ==
  /\ r.flow \in [Conns -> [Interfaces -> FlowStorage]]
  /\ r = [flow |-> r.flow,
          master |-> [d \in Conns |-> UpdateAvailableBw(st.master[d], r.flow[d])]]
  /\ \A d \in Conns : \A j \in Interfaces \ {i} : r.flow[d][j] = st.flow[d][j]
  /\ \A d \in ToSet(connections[i]) : Told(st.master[d].state, st.flow[d][i], r.flow[d][i])
  /\ \A d \in Conns \ ToSet(connections[i]) : r.flow[d][i] = st.flow[d][i]
  /\ \A d \in Conns : r.flow[d][i].availableBw <= Bandwidth[i]
  /\ ColumnSum(r.flow, i) <= Bandwidth[i]

LEMMA StorageTypes ==
  ASSUME NEW st \in Storage
  PROVE  /\ st.master \in [Conns -> MasterStorage]
         /\ st.flow \in [Conns -> [Interfaces -> FlowStorage]]
         /\ \A c \in Conns : st.master[c] \in MasterStorage
         /\ \A c \in Conns : st.flow[c] \in [Interfaces -> FlowStorage]
         /\ \A c \in Conns, i \in Interfaces : st.flow[c][i] \in FlowStorage
BY DEF Storage

LEMMA FlowTypes ==
  ASSUME NEW f \in FlowStorage
  PROVE  /\ f.availableBw \in Nat /\ f.desiredBw \in Nat /\ f.cwnd \in Nat
         /\ f.transferredBytesSum \in Nat /\ f.nextEvent \in Nat \cup {None}
         /\ f.ssState \in {"NEW", "SS", "CA"} /\ f.state \in {"NONE", "IDLE", "BUSY", "CLOSED"}
BY DEF FlowStorage

LEMMA ColumnProperties ==
  ASSUME NEW i \in Interfaces, NEW st, ColumnReady(st, i)
  PROVE  ColumnUpdated(st, i, UpdateConnectionBwShare(st, i))
<1> DEFINE L == ToSet(connections[i])
           desired == [c \in Conns |-> st.flow[c][i].desiredBw]
           share == Shares(connections[i], desired, Bandwidth[i])
           told == {c \in L : Notices(st.flow[c][i], share[c])}
           fs == [c \in Conns |->
                    IF c \in told
                    THEN [st.flow[c] EXCEPT ![i] = SetAvailableBw(st.master[c], @, i, share[c])]
                    ELSE st.flow[c]]
           ms == [c \in Conns |-> IF c \in told THEN UpdateAvailableBw(st.master[c], fs[c])
                                  ELSE st.master[c]]
           r == UpdateConnectionBwShare(st, i)
<1>1. r = [flow |-> fs, master |-> ms]
  BY DEF UpdateConnectionBwShare
<1>2. /\ st.master \in [Conns -> MasterStorage] /\ st.flow \in [Conns -> [Interfaces -> FlowStorage]]
      /\ \A c \in Conns : st.flow[c] \in [Interfaces -> FlowStorage]
      /\ \A c \in Conns : st.master[c] \in MasterStorage
      /\ \A c \in Conns : st.flow[c][i] \in FlowStorage
  BY StorageTypes DEF ColumnReady
<1>3. connections[i] \in Seq(Conns) /\ IsInjective(connections[i]) /\ now \in Nat
  BY DEF ColumnReady
<1>4. L \subseteq Conns
  BY <1>3, ElementsOfList
<1>5. desired \in [Conns -> Nat] /\ \A c \in Conns : desired[c] = st.flow[c][i].desiredBw
  BY <1>2, FlowTypes
<1>6. Bandwidth[i] \in Nat /\ Len(connections[i]) <= Bandwidth[i]
  <2>1. Cardinality(L) = Len(connections[i]) /\ IsFiniteSet(L)
    BY <1>3, LengthOfInjective
  <2>2. Cardinality(L) <= Cardinality(Conns)
    BY <1>4, Constants, FS_Subset
  <2>3. Cardinality(Conns) \in Nat /\ Cardinality(L) \in Nat
    BY <2>1, Constants, FS_CardinalityType
  <2>4. Bandwidth[i] \in Nat /\ Bandwidth[i] >= Cardinality(Conns)
    BY Constants
  <2> HIDE DEF L
  <2> QED BY <2>1, <2>2, <2>3, <2>4
<1> HIDE DEF desired
<1>7. Inputs(Conns, connections[i], desired, Bandwidth[i])
  BY <1>3, <1>5, <1>6, Constants DEF Inputs
<1>8. /\ share \in [Conns -> 0 .. Bandwidth[i]]
      /\ \A d \in Conns : d \notin L \/ desired[d] = 0 => share[d] = 0
      /\ Sum(share, L) <= Bandwidth[i]
      /\ \A d \in L : desired[d] > 0 => share[d] > 0
  BY <1>6, <1>7, SharesProperties
<1> HIDE DEF share, r
<1>9. \A d \in Conns : share[d] \in Nat
  BY <1>6, <1>8
<1>10. ASSUME NEW d \in L
       PROVE  /\ Told(st.master[d].state, st.flow[d][i], fs[d][i])
              /\ fs[d][i].availableBw = share[d]
              /\ fs[d] \in [Interfaces -> FlowStorage]
              /\ \A j \in Interfaces \ {i} : fs[d][j] = st.flow[d][j]
  <2> DEFINE m == st.master[d]
             f == st.flow[d][i]
             x == IF Notices(f, share[d]) THEN SetAvailableBw(m, f, i, share[d]) ELSE f
  <2>1. d \in Conns /\ m \in MasterStorage /\ Awaits(m.state, f) /\ share[d] \in Nat
    BY <1>2, <1>4, <1>9 DEF ColumnReady
  <2>2. f.desiredBw > 0 <=> share[d] > 0
    <3>1. desired[d] = f.desiredBw /\ desired[d] \in Nat
      BY <1>5, <2>1
    <3> HIDE DEF f
    <3> QED BY <1>8, <2>1, <3>1
  <2>a. now \in Nat
    BY <1>3
  <2> HIDE DEF m, f, L
  <2>3. Told(m.state, f, x) /\ x.availableBw = share[d]
    BY <2>1, <2>2, <2>a, ToldProperties
  <2>4. fs[d][i] = x /\ \A j \in Interfaces \ {i} : fs[d][j] = st.flow[d][j]
    <3>1. st.flow[d] \in [Interfaces -> FlowStorage]
      BY <1>2, <2>1
    <3>2. CASE Notices(f, share[d])
      <4>1. d \in told
        BY <3>2 DEF f
      <4>2. fs[d] = [st.flow[d] EXCEPT ![i] = SetAvailableBw(m, f, i, share[d])]
        BY <2>1, <4>1 DEF m, f
      <4> HIDE DEF fs
      <4>3. x = SetAvailableBw(m, f, i, share[d])
        BY <3>2
      <4> HIDE DEF x
      <4> QED BY <3>1, <4>2, <4>3
    <3>3. CASE ~Notices(f, share[d])
      <4>1. d \notin told /\ fs[d] = st.flow[d]
        BY <2>1, <3>3 DEF f
      <4> QED BY <3>3, <4>1 DEF f
    <3> QED BY <3>2, <3>3
  <2> HIDE DEF x
  <2>5. x \in FlowStorage
    BY <2>3 DEF Told
  <2>6. fs[d] \in [Interfaces -> FlowStorage]
    <3>1. DOMAIN fs[d] = Interfaces /\ fs[d] = [j \in Interfaces |-> fs[d][j]]
      BY <1>2, <2>1
    <3>2. \A j \in Interfaces : fs[d][j] \in FlowStorage
      <4>1. \A j \in Interfaces : st.flow[d][j] \in FlowStorage
        BY <1>2, <2>1
      <4> HIDE DEF fs
      <4> QED BY <2>4, <2>5, <4>1
    <3> HIDE DEF fs
    <3> QED BY <3>1, <3>2
  <2> QED BY <2>3, <2>4, <2>6 DEF m, f
<1>11. ASSUME NEW d \in Conns \ L
       PROVE  fs[d] = st.flow[d] /\ fs[d][i].availableBw = share[d] /\ d \notin told
  BY <1>8 DEF ColumnReady
<1>12. \A d \in Conns : fs[d] \in [Interfaces -> FlowStorage]
  BY <1>2, <1>10, <1>11
<1>13. fs \in [Conns -> [Interfaces -> FlowStorage]]
  <2>1. fs = [d \in Conns |-> fs[d]]
    OBVIOUS
  <2> HIDE DEF fs
  <2> QED BY <1>12, <2>1
<1>14. \A d \in Conns : fs[d][i].availableBw = share[d]
  BY <1>10, <1>11
<1>15. ColumnSum(fs, i) <= Bandwidth[i]
  <2> DEFINE avail == [d \in Conns |-> fs[d][i].availableBw]
             rest == Conns \ L
  <2>1. \A d \in Conns : avail[d] = share[d]
    BY <1>14
  <2>2. ColumnSum(fs, i) = Sum(avail, Conns)
    BY DEF ColumnSum
  <2> HIDE DEF avail, fs, told, ms
  <2>3. Sum(avail, Conns) = Sum(share, Conns)
    BY <2>1, Constants, SumOfEqual DEF Sum
  <2>4. IsFiniteSet(L) /\ IsFiniteSet(rest) /\ Conns = L \cup rest /\ L \cap rest = {}
    BY <1>4, Constants, FS_Subset
  <2>5. \A d \in L \cup rest : share[d] \in Int
    BY <1>4, <1>9
  <2>6. \A d \in rest : share[d] = 0
    BY <1>8
  <2> HIDE DEF rest, L
  <2>7. Sum(share, rest) = 0 * Cardinality(rest)
    BY <2>4, <2>6, SumOfConstant DEF Sum
  <2>8. Sum(share, rest) = 0
    BY <2>4, <2>7, FS_CardinalityType
  <2>9. Sum(share, L \cup rest) = Sum(share, L) + Sum(share, rest)
    BY <2>4, <2>5, SumOfUnion DEF Sum
  <2>10. Sum(share, L) \in Int
    BY <2>4, <2>5, SumType DEF Sum
  <2>11. ColumnSum(fs, i) = Sum(share, L) + Sum(share, rest)
    BY <2>2, <2>3, <2>4, <2>9
  <2> QED BY <1>8, <2>8, <2>10, <2>11
<1>16. \A d \in Conns : fs[d][i].availableBw <= Bandwidth[i]
  BY <1>6, <1>8, <1>14
<1>17. ms = [d \in Conns |-> UpdateAvailableBw(st.master[d], fs[d])]
  <2>1. ASSUME NEW d \in Conns
        PROVE  ms[d] = UpdateAvailableBw(st.master[d], fs[d])
    <3>1. CASE d \in told
      BY <3>1
    <3>2. CASE d \notin told
      <4>1. fs[d] = st.flow[d] /\ ms[d] = st.master[d]
        BY <3>2
      <4>2. AddedUp(st.master[d], st.flow[d])
        BY DEF ColumnReady
      <4> HIDE DEF fs, ms, told
      <4>3. UpdateAvailableBw(st.master[d], st.flow[d]) = st.master[d]
        BY <4>2 DEF AddedUp, UpdateAvailableBw, FlowSum, Sum
      <4> QED BY <4>1, <4>3
    <3> QED BY <3>1, <3>2
  <2>2. ms = [d \in Conns |-> ms[d]]
    OBVIOUS
  <2> HIDE DEF ms, fs
  <2> QED BY <2>1, <2>2
<1> HIDE DEF fs, ms, told
<1>18. r.flow = fs /\ r.master = ms
  BY <1>1
<1>19. r = [flow |-> r.flow, master |-> [d \in Conns |-> UpdateAvailableBw(st.master[d], r.flow[d])]]
  BY <1>1, <1>17, <1>18
<1> QED BY <1>10, <1>11, <1>13, <1>15, <1>16, <1>18, <1>19 DEF ColumnUpdated, r

\* What a connection keeps while another one updates its subflows.
Resembles(m, fs, r, rs) ==
  /\ Untouched(m, r)
  /\ \A j \in Interfaces : /\ rs[j].state = fs[j].state
                           /\ rs[j].transferredBytesSum = fs[j].transferredBytesSum
                           /\ rs[j].ssState = "NEW" <=> fs[j].ssState = "NEW"

\* Every subflow in slow start of a busy connection waits for the end of its round.
Ticking(m, fs) ==
  \A i \in ToSet(m.subflows) : fs[i].ssState = "SS" /\ m.state = "BUSY" => fs[i].nextEvent # None

LEMMA RenewOf ==
  ASSUME NEW m, Typed(m), NEW fs \in [Interfaces -> FlowStorage], ShapeOk(m, fs),
         ~m.bwUpdateInProgress,
         \A i \in Interfaces : fs[i].availableBw <= Bandwidth[i],
         \A i \in ToSet(m.subflows) : fs[i].availableBw > 0 <=> Progresses(m.state, fs[i]),
         FlowSum(m, fs) # m.availableBw =>
           m.state = "IDLE" \/ (m.state = "BUSY" /\ fs[Head(m.interfaces)].ssState # "NEW")
  PROVE  SumOk(m, fs) /\ Renewed(m, fs, UpdateAvailableBw(m, fs))
<1>1. m \in MasterStorage
  BY DEF Typed
<1>2. SumOk(m, fs)
  BY <1>1, SumOfFlows
<1>3. FlowSum(m, fs) \in 0 .. Sum(Bandwidth, Interfaces)
  BY <1>2 DEF SumOk
<1>4. FlowSum(m, fs) # m.availableBw =>
        m.state \in {"IDLE", "BUSY"} /\ (m.state = "BUSY" => FlowSum(m, fs) > 0)
  BY <1>2 DEF SumOk
<1> QED BY <1>2, <1>3, <1>4, RenewProperties

LEMMA AgreeOf ==
  ASSUME NEW m, NEW fs, NEW r, Renewed(m, fs, r), ShapeOk(m, fs), ~m.bwUpdateInProgress,
         m.desiredBw > 0 <=> m.state = "BUSY",
         \A i \in Interfaces : WindowOk(fs[i]),
         \A i \in ToSet(m.subflows) : WishOk(m.state, fs[i]) /\ StateOk(m.state, fs[i])
  PROVE  Agree(r, fs)
<1>1. Untouched(m, r) /\ r.availableBw = FlowSum(m, fs)
  BY DEF Renewed
<1>2. FlowSum(r, fs) = FlowSum(m, fs)
  BY <1>1 DEF FlowSum, Untouched
<1>3. ShapeOk(r, fs)
  BY <1>1 DEF ShapeOk, Untouched
<1> QED BY <1>1, <1>2, <1>3 DEF Agree, Untouched

LEMMA SameFunction ==
  ASSUME NEW f \in [Interfaces -> FlowStorage], NEW g \in [Interfaces -> FlowStorage],
         \A j \in Interfaces : f[j] = g[j]
  PROVE  f = g
OBVIOUS

\* The other connections on an interface where shares are set.
OtherKept(m, fs, r, rs) ==
  r \in MasterStorage /\ Whole(r, rs) /\ Resembles(m, fs, r, rs) /\ (Ticking(m, fs) => Ticking(r, rs))

LEMMA KeptProperties ==
  ASSUME NEW i \in Interfaces, NEW st, ColumnReady(st, i), NEW r, ColumnUpdated(st, i, r),
         NEW d \in Conns, Typed(st.master[d]), Whole(st.master[d], st.flow[d]),
         \A j \in Interfaces : st.flow[d][j].availableBw <= Bandwidth[j],
         d \in ToSet(connections[i]) <=> /\ st.master[d].state \in {"IDLE", "BUSY"}
                                         /\ i \in ToSet(st.master[d].subflows)
  PROVE  OtherKept(st.master[d], st.flow[d], r.master[d], r.flow[d])
<1> DEFINE m == st.master[d]
           fs == st.flow[d]
           rm == r.master[d]
           rs == r.flow[d]
<1>1. st \in Storage /\ m \in MasterStorage /\ fs \in [Interfaces -> FlowStorage]
  BY StorageTypes DEF ColumnReady
<1>2. /\ rs \in [Interfaces -> FlowStorage] /\ rm = UpdateAvailableBw(m, rs)
      /\ \A j \in Interfaces \ {i} : rs[j] = fs[j]
  <2>1. r.flow \in [Conns -> [Interfaces -> FlowStorage]]
    BY DEF ColumnUpdated
  <2>2. r.master = [c \in Conns |-> UpdateAvailableBw(st.master[c], r.flow[c])]
    <3>1. r = [flow |-> r.flow,
               master |-> [c \in Conns |-> UpdateAvailableBw(st.master[c], r.flow[c])]]
      BY DEF ColumnUpdated
    <3> QED BY <3>1
  <2>3. \A j \in Interfaces \ {i} : rs[j] = fs[j]
    BY DEF ColumnUpdated
  <2> QED BY <2>1, <2>2, <2>3
<1>3. ToSet(m.subflows) \subseteq Interfaces
  BY <1>1, SubflowsOf DEF Whole, Agree
<1>a. Whole(m, fs) /\ Typed(m) /\ \A j \in Interfaces : fs[j].availableBw <= Bandwidth[j]
  OBVIOUS
<1>4. CASE d \notin ToSet(connections[i])
  <2>1. rs[i] = fs[i]
    BY <1>4 DEF ColumnUpdated
  <2> HIDE DEF m, fs, rs, rm
  <2>2. rs = fs
    BY <1>1, <1>2, <2>1, SameFunction
  <2>3. rm = m
    BY <1>2, <1>a, <2>2 DEF Whole, Agree, UpdateAvailableBw, FlowSum, Sum
  <2>4. OtherKept(m, fs, rm, rs)
    BY <1>1, <1>a, <2>2, <2>3 DEF OtherKept, Resembles, Untouched
  <2> QED BY <2>4 DEF m, fs, rs, rm
<1>5. CASE d \in ToSet(connections[i])
  <2>1. m.state \in {"IDLE", "BUSY"} /\ i \in ToSet(m.subflows) /\ Told(m.state, fs[i], rs[i])
    BY <1>5 DEF ColumnUpdated
  <2>2. \A j \in Interfaces : rs[j].availableBw <= Bandwidth[j]
    <3>1. rs[i].availableBw <= Bandwidth[i]
      BY DEF ColumnUpdated
    <3> HIDE DEF rs, fs
    <3> QED BY <1>2, <1>a, <3>1
  <2> HIDE DEF m, fs, rs, rm
  <2>3. /\ ShapeOk(m, fs) /\ ~m.bwUpdateInProgress /\ (m.desiredBw > 0 <=> m.state = "BUSY")
        /\ m.availableBw = FlowSum(m, fs)
        /\ \A j \in Interfaces : WindowOk(fs[j])
        /\ \A j \in ToSet(m.subflows) : /\ WishOk(m.state, fs[j]) /\ StateOk(m.state, fs[j])
                                        /\ RoundOk(m.state, fs[j])
        /\ MasterOk(m)
    BY <1>a DEF Whole, Agree
  <2>4. ASSUME NEW j \in Interfaces
        PROVE  /\ rs[j].state = fs[j].state
               /\ rs[j].transferredBytesSum = fs[j].transferredBytesSum
               /\ rs[j].ssState = "NEW" <=> fs[j].ssState = "NEW"
               /\ WindowOk(rs[j])
               /\ j \in ToSet(m.subflows) =>
                    /\ WishOk(m.state, rs[j]) /\ StateOk(m.state, rs[j]) /\ RoundOk(m.state, rs[j])
                    /\ rs[j].availableBw > 0 <=> Progresses(m.state, rs[j])
               /\ Ticking(m, fs) /\ j \in ToSet(m.subflows) /\ rs[j].ssState = "SS" /\ m.state = "BUSY"
                    => rs[j].nextEvent # None
    <3>1. CASE j = i
      <4>1. /\ rs[i].state = fs[i].state
            /\ rs[i].transferredBytesSum = fs[i].transferredBytesSum
            /\ rs[i].ssState = "NEW" <=> fs[i].ssState = "NEW"
            /\ WindowOk(rs[i]) /\ WishOk(m.state, rs[i]) /\ RoundOk(m.state, rs[i])
            /\ rs[i].ssState = "SS" /\ m.state = "BUSY" => rs[i].nextEvent # None
        BY <2>1, <2>3 DEF Told
      <4>2. StateOk(m.state, rs[i])
        BY <2>1, <2>3, <4>1 DEF StateOk, Progresses
      <4> QED BY <3>1, <4>1, <4>2 DEF WishOk
    <3>2. CASE j # i
      <4>1. rs[j] = fs[j]
        BY <1>2, <3>2
      <4> QED BY <2>3, <4>1 DEF Ticking, WishOk
    <3> QED BY <3>1, <3>2
  <2>5. m.interfaces \in Paths /\ Head(m.interfaces) \in Interfaces
    <3>1. m.interfaces \in Paths
      BY <2>1, <2>3 DEF ShapeOk
    <3> QED BY <3>1, PathProperties
  <2>6. ShapeOk(m, rs)
    <3>1. \A j \in Interfaces : j \notin ToSet(m.subflows) => rs[j] = NewFlow
      BY <1>2, <2>1, <2>3 DEF ShapeOk
    <3>2. rs[Head(m.interfaces)].ssState = "NEW" <=> fs[Head(m.interfaces)].ssState = "NEW"
      BY <2>4, <2>5
    <3> QED BY <2>1, <2>3, <3>1, <3>2 DEF ShapeOk
  <2>7. \A j \in ToSet(m.subflows) : rs[j].availableBw > 0 <=> Progresses(m.state, rs[j])
    BY <1>3, <2>4 DEF m
  <2>8. \A j \in ToSet(m.subflows) : fs[j].availableBw > 0 <=> Progresses(m.state, fs[j])
    BY <2>3 DEF WishOk
  <2>9. SumOk(m, fs) /\ SumOk(m, rs)
    BY <1>1, <1>2, <1>a, <2>2, <2>3, <2>6, <2>7, <2>8, SumOfFlows
  <2>10. FlowSum(m, rs) # m.availableBw =>
           m.state = "IDLE" \/ (m.state = "BUSY" /\ rs[Head(m.interfaces)].ssState # "NEW")
    <3> SUFFICES ASSUME m.state = "BUSY", rs[Head(m.interfaces)].ssState = "NEW"
                 PROVE  FlowSum(m, rs) = m.availableBw
      BY <2>1
    <3>1. fs[Head(m.interfaces)].ssState = "NEW"
      BY <2>4, <2>5
    <3>2. ~(FlowSum(m, rs) > 0) /\ ~(FlowSum(m, fs) > 0)
      BY <2>9, <3>1 DEF SumOk
    <3>3. FlowSum(m, rs) \in Nat /\ FlowSum(m, fs) \in Nat
      BY <2>9, SumOfBandwidths DEF SumOk
    <3> QED BY <2>3, <3>2, <3>3
  <2>11. Renewed(m, rs, rm)
    BY <1>2, <1>a, <2>2, <2>3, <2>6, <2>7, <2>10, RenewOf
  <2>12. Agree(rm, rs)
    <3>1. \A j \in ToSet(m.subflows) : WishOk(m.state, rs[j]) /\ StateOk(m.state, rs[j])
      BY <1>3, <2>4 DEF m
    <3> QED BY <2>3, <2>4, <2>6, <2>11, <3>1, AgreeOf
  <2>13. Untouched(m, rm) /\ rm \in MasterStorage
    BY <2>11 DEF Renewed
  <2>14. MasterOk(rm)
    <3>1. CASE FlowSum(m, rs) = m.availableBw
      BY <2>3, <2>11, <3>1 DEF Renewed
    <3>2. CASE FlowSum(m, rs) # m.availableBw
      <4>1. Fresh(rm)
        BY <2>11, <3>2 DEF Renewed
      <4>2. CASE m.state = "IDLE"
        <5>1. m.idleTimestamp + IdleTimeout >= now /\ rm.nextEvent = m.idleTimestamp + IdleTimeout
          BY <2>3, <2>13, <4>1, <4>2 DEF MasterOk, Fresh, Untouched
        <5> QED BY <2>13, <4>2, <5>1 DEF MasterOk, Untouched
      <4>3. CASE m.state = "BUSY"
        BY <2>13, <4>1, <4>3 DEF MasterOk, Fresh, Untouched
      <4> QED BY <2>1, <4>2, <4>3
    <3> QED BY <3>1, <3>2
  <2>15. Whole(rm, rs)
    <3>1. \A j \in ToSet(rm.subflows) : RoundOk(rm.state, rs[j])
      BY <1>3, <2>4, <2>13 DEF Untouched, m
    <3> QED BY <2>12, <2>14, <3>1 DEF Whole
  <2>16. Resembles(m, fs, rm, rs) /\ (Ticking(m, fs) => Ticking(rm, rs))
    <3>1. Resembles(m, fs, rm, rs)
      BY <2>4, <2>13 DEF Resembles
    <3>2. Ticking(m, fs) => Ticking(rm, rs)
      BY <1>3, <2>4, <2>13 DEF Ticking, Untouched, m
    <3> QED BY <3>1, <3>2
  <2>17. OtherKept(m, fs, rm, rs)
    BY <2>13, <2>15, <2>16 DEF OtherKept
  <2> QED BY <2>17 DEF m, fs, rs, rm
<1> QED BY <1>4, <1>5

-----------------------------------------------------------------------------
(* A connection tells one of its subflows what it wants *)

LEMMA WishProperties ==
  ASSUME NEW m \in MasterStorage, NEW f \in FlowStorage, NEW i \in Interfaces, WindowOk(f),
         m.state \in {"IDLE", "BUSY"}, m.state = "BUSY" => m.desiredBw > 0
  PROVE  NewDesiredBw(m, f, i) \in Nat /\ (NewDesiredBw(m, f, i) > 0 <=> Progresses(m.state, f))
<1>1. f.ssState \in {"NEW", "SS", "CA"} /\ f.cwnd \in Nat /\ m.desiredBw \in Nat
  BY DEF FlowStorage, MasterStorage
<1>2. CASE m.state = "IDLE" \/ f.ssState = "NEW"
  <2>1. NewDesiredBw(m, f, i) = 0 /\ ~Progresses(m.state, f)
    BY <1>2 DEF NewDesiredBw, Progresses
  <2> QED BY <2>1
<1>3. CASE m.state = "BUSY" /\ f.ssState = "SS"
  <2>1. NewDesiredBw(m, f, i) = PerRtt(f.cwnd, i) /\ Progresses(m.state, f)
    BY <1>3 DEF NewDesiredBw, Progresses
  <2>2. PerRtt(f.cwnd, i) \in Nat /\ PerRtt(f.cwnd, i) > 0
    BY <1>1, <1>3, PerRttType, PerRttOfWindow DEF WindowOk
  <2> QED BY <2>1, <2>2
<1>4. CASE m.state = "BUSY" /\ f.ssState = "CA"
  <2>1. NewDesiredBw(m, f, i) = m.desiredBw /\ Progresses(m.state, f)
    BY <1>4 DEF NewDesiredBw, Progresses
  <2> QED BY <1>1, <1>4, <2>1
<1> QED BY <1>1, <1>2, <1>3, <1>4

\* The other connections while c updates its subflows.
OthersReady(st, c) ==
  /\ st \in Storage /\ now \in Nat
  /\ \A j \in Interfaces : connections[j] \in Seq(Conns) /\ IsInjective(connections[j])
  /\ \A d \in Conns \ {c} : Typed(st.master[d]) /\ Whole(st.master[d], st.flow[d])
  /\ \A d \in Conns \ {c}, j \in Interfaces :
       d \in ToSet(connections[j]) <=> /\ st.master[d].state \in {"IDLE", "BUSY"}
                                       /\ j \in ToSet(st.master[d].subflows)
  /\ \A d \in Conns, j \in Interfaces : st.flow[d][j].availableBw <= Bandwidth[j]
  /\ SharesFit(st.flow)

\* A subflow on i of a connection that was in state ms.
WasOk(ms, f) ==
  ms \in {"IDLE", "BUSY"} /\ WishOk(ms, f) /\ RoundOk(ms, f) /\ WindowOk(f)

Tells(st, c, i, ms) ==
  /\ OthersReady(st, c)
  /\ st.master[c].state \in {"IDLE", "BUSY"}
  /\ st.master[c].state = "BUSY" => st.master[c].desiredBw > 0
  /\ AddedUp(st.master[c], st.flow[c])
  /\ WasOk(ms, st.flow[c][i])
  /\ st.flow[c][i].ssState # "NEW" => c \in ToSet(connections[i])

\* What it wants of a subflow is not what it wanted, or a round has begun.
NewRound(m, f, i) == NewDesiredBw(m, f, i) # f.desiredBw \/ f.nextEvent # None

Tellable(m, f, r, i) ==
  /\ FlowOk(m.state, r) /\ WindowOk(r) /\ r.transferredBytesSum = f.transferredBytesSum
  /\ r.ssState = "NEW" <=> f.ssState = "NEW"
  /\ r.ssState = "SS" => f.ssState = "SS"
  /\ NewRound(m, f, i) /\ r.ssState = "SS" /\ m.state = "BUSY" => r.nextEvent # None

Telling(st, c, i, r) ==
  /\ r.flow \in [Conns -> [Interfaces -> FlowStorage]]
  /\ r = [master |-> r.master, flow |-> r.flow] /\ r.master = [d \in Conns |-> r.master[d]]
  /\ r.master[c] = UpdateAvailableBw(st.master[c], r.flow[c])
  /\ \A d \in Conns \ {c} : OtherKept(st.master[d], st.flow[d], r.master[d], r.flow[d])
  /\ \A j \in Interfaces \ {i} : r.flow[c][j] = st.flow[c][j]
  /\ Tellable(st.master[c], st.flow[c][i], r.flow[c][i], i)
  /\ \A d \in Conns, j \in Interfaces : r.flow[d][j].availableBw <= Bandwidth[j]
  /\ SharesFit(r.flow)

LEMMA SameSum ==
  ASSUME NEW m \in MasterStorage, NEW f \in [Interfaces -> FlowStorage],
         NEW g \in [Interfaces -> FlowStorage],
         \A j \in Interfaces : f[j].availableBw = g[j].availableBw
  PROVE  FlowSum(m, f) = FlowSum(m, g)
<1>1. [i \in Interfaces |-> f[i].availableBw] = [i \in Interfaces |-> g[i].availableBw]
  OBVIOUS
<1> QED BY <1>1 DEF FlowSum

LEMMA WholeKept ==
  ASSUME NEW m \in MasterStorage, NEW fs, Whole(m, fs)
  PROVE  OtherKept(m, fs, m, fs)
BY DEF OtherKept, Resembles, Untouched

\* Columns but that of i stay as they are.
LEMMA SharesStillFit ==
  ASSUME NEW fl \in [Conns -> [Interfaces -> FlowStorage]],
         NEW gl \in [Conns -> [Interfaces -> FlowStorage]], SharesFit(fl),
         NEW i \in Interfaces, ColumnSum(gl, i) <= Bandwidth[i],
         \A d \in Conns : \A j \in Interfaces \ {i} : gl[d][j].availableBw = fl[d][j].availableBw
  PROVE  SharesFit(gl)
<1> SUFFICES ASSUME NEW j \in Interfaces PROVE ColumnSum(gl, j) <= Bandwidth[j]
  BY DEF SharesFit
<1>1. CASE j # i
  <2>1. [d \in Conns |-> gl[d][j].availableBw] = [d \in Conns |-> fl[d][j].availableBw]
    BY <1>1
  <2>2. ColumnSum(gl, j) = ColumnSum(fl, j)
    BY <2>1 DEF ColumnSum
  <2> QED BY <2>2 DEF SharesFit
<1> QED BY <1>1

LEMMA TellingProperties ==
  ASSUME NEW st, NEW c \in Conns, NEW i \in Interfaces, NEW ms, Tells(st, c, i, ms)
  PROVE  Telling(st, c, i, UpdateFlowDesiredBw(st, c, i))
<1> DEFINE m == st.master[c]
           old == st.flow[c][i]
           wish == NewDesiredBw(m, old, i)
           new == [old EXCEPT !.state = m.state, !.desiredBw = wish]
           all == [st EXCEPT !.flow[c][i] = new]
           r == UpdateFlowDesiredBw(st, c, i)
<1>1. /\ st \in Storage /\ now \in Nat /\ m \in MasterStorage /\ old \in FlowStorage
      /\ m.state \in {"IDLE", "BUSY"} /\ (m.state = "BUSY" => m.desiredBw > 0)
      /\ AddedUp(m, st.flow[c]) /\ WasOk(ms, old) /\ WindowOk(old)
      /\ old.ssState # "NEW" => c \in ToSet(connections[i])
  BY StorageTypes DEF Tells, OthersReady, WasOk
<1>2. wish \in Nat /\ (wish > 0 <=> Progresses(m.state, old))
  BY <1>1, WishProperties
<1>3. new.desiredBw = wish
  BY <1>1 DEF FlowStorage
<1>4. r = IF wish = old.desiredBw THEN all ELSE UpdateConnectionBwShare(all, i)
  BY <1>3 DEF UpdateFlowDesiredBw
<1>5. /\ new \in FlowStorage /\ new.state = m.state /\ new.desiredBw = wish
      /\ new.ssState = old.ssState /\ new.availableBw = old.availableBw
      /\ new.nextEvent = old.nextEvent /\ new.transferredBytesSum = old.transferredBytesSum
      /\ new.cwnd = old.cwnd
  <2> HIDE DEF wish
  <2> QED BY <1>1, <1>2 DEF FlowStorage, MasterStorage
<1> HIDE DEF new
<1>6. /\ all \in Storage /\ all.master = st.master /\ all.flow \in [Conns -> [Interfaces -> FlowStorage]]
      /\ all.flow[c][i] = new
      /\ \A d \in Conns \ {c} : all.flow[d] = st.flow[d]
      /\ \A j \in Interfaces \ {i} : all.flow[c][j] = st.flow[c][j]
      /\ all = [master |-> all.master, flow |-> all.flow]
  <2> DEFINE fl == [st.flow EXCEPT ![c][i] = new]
  <2>1. /\ st.master \in [Conns -> MasterStorage] /\ st.flow \in [Conns -> [Interfaces -> FlowStorage]]
        /\ st = [master |-> st.master, flow |-> st.flow]
    BY <1>1 DEF Storage
  <2>2. all = [master |-> st.master, flow |-> fl]
    <3>1. all = [st EXCEPT !.flow = fl]
      BY <1>1 DEF Storage
    <3> HIDE DEF fl, all
    <3> QED BY <1>1, <2>1, <3>1 DEF Storage
  <2>3. /\ fl \in [Conns -> [Interfaces -> FlowStorage]] /\ fl[c][i] = new
        /\ \A d \in Conns \ {c} : fl[d] = st.flow[d]
        /\ \A j \in Interfaces \ {i} : fl[c][j] = st.flow[c][j]
    BY <1>5, <2>1
  <2> HIDE DEF all, fl
  <2> QED BY <2>1, <2>2, <2>3 DEF Storage
<1>7. /\ old.desiredBw \in Nat /\ old.availableBw \in Nat /\ old.ssState \in {"NEW", "SS", "CA"}
      /\ old.nextEvent \in Nat \cup {None}
      /\ old.desiredBw > 0 <=> Progresses(ms, old)
      /\ old.availableBw > 0 <=> Progresses(ms, old)
      /\ RoundOk(ms, old) /\ ms \in {"IDLE", "BUSY"}
  BY <1>1, FlowTypes DEF WasOk, WishOk
<1>8. \A d \in Conns, j \in Interfaces : all.flow[d][j].availableBw = st.flow[d][j].availableBw
  <2>1. ASSUME NEW d \in Conns, NEW j \in Interfaces
        PROVE  all.flow[d][j].availableBw = st.flow[d][j].availableBw
    <3>1. CASE d = c /\ j = i
      BY <1>5, <1>6, <3>1
    <3>2. CASE ~(d = c /\ j = i)
      BY <1>6, <3>2
    <3> QED BY <3>1, <3>2
  <2> QED BY <2>1
<1>9. /\ SharesFit(st.flow) /\ \A d \in Conns, j \in Interfaces : st.flow[d][j].availableBw <= Bandwidth[j]
      /\ \A d \in Conns \ {c} : Typed(st.master[d]) /\ Whole(st.master[d], st.flow[d])
      /\ \A d \in Conns \ {c}, j \in Interfaces :
           d \in ToSet(connections[j]) <=> /\ st.master[d].state \in {"IDLE", "BUSY"}
                                           /\ j \in ToSet(st.master[d].subflows)
      /\ connections[i] \in Seq(Conns) /\ IsInjective(connections[i])
  BY DEF Tells, OthersReady
<1>10. all.flow[c] \in [Interfaces -> FlowStorage] /\ st.flow[c] \in [Interfaces -> FlowStorage]
  BY <1>1, <1>6, StorageTypes
<1> HIDE DEF all, r, wish, m, old
<1>11. FlowSum(m, all.flow[c]) = FlowSum(m, st.flow[c])
  BY <1>1, <1>8, <1>10, SameSum
<1>12. \A d \in Conns : st.master[d] \in MasterStorage
  BY <1>1, StorageTypes
<1>13. CASE wish = old.desiredBw
  <2>1. r = all
    BY <1>4, <1>13
  <2>2. r.master[c] = UpdateAvailableBw(m, r.flow[c])
    <3>1. UpdateAvailableBw(m, r.flow[c]) = m
      BY <1>1, <1>11, <2>1 DEF AddedUp, UpdateAvailableBw, FlowSum, Sum
    <3> QED BY <1>6, <2>1, <3>1 DEF m
  <2>3. \A d \in Conns \ {c} : OtherKept(st.master[d], st.flow[d], r.master[d], r.flow[d])
    BY <1>6, <1>9, <1>12, <2>1, WholeKept
  <2>4. Tellable(m, old, r.flow[c][i], i)
    <3>1. Progresses(m.state, new) <=> Progresses(ms, old)
      BY <1>2, <1>5, <1>7, <1>13 DEF Progresses
    <3>2. WishOk(m.state, new)
      BY <1>5, <1>7, <1>13, <3>1 DEF WishOk
    <3>3. RoundOk(m.state, new)
      BY <1>1, <1>5, <1>7, <3>1 DEF RoundOk, Rounds, Progresses
    <3>4. WindowOk(new) /\ StateOk(m.state, new)
      BY <1>1, <1>5 DEF WindowOk, StateOk
    <3>5. NewRound(m, old, i) => new.nextEvent # None
      BY <1>5, <1>13 DEF NewRound, wish
    <3> QED BY <1>5, <1>6, <2>1, <3>2, <3>3, <3>4, <3>5 DEF Tellable, FlowOk
  <2>5. SharesFit(r.flow)
    <3>1. ASSUME NEW j \in Interfaces
          PROVE  ColumnSum(r.flow, j) = ColumnSum(st.flow, j)
      <4>1. [d \in Conns |-> r.flow[d][j].availableBw] = [d \in Conns |-> st.flow[d][j].availableBw]
        BY <1>8, <2>1
      <4> QED BY <4>1 DEF ColumnSum
    <3> QED BY <1>9, <3>1 DEF SharesFit
  <2>6. r.master = [d \in Conns |-> r.master[d]]
    BY <1>6, <2>1, <1>1 DEF Storage
  <2>7. Telling(st, c, i, r)
    <3>1. \A d \in Conns, j \in Interfaces : r.flow[d][j].availableBw <= Bandwidth[j]
      BY <1>8, <1>9, <2>1
    <3> QED BY <1>6, <2>1, <2>2, <2>3, <2>4, <2>5, <2>6, <3>1 DEF Telling, m, old
  <2> QED BY <2>7 DEF r
<1>14. CASE wish # old.desiredBw
  <2>1. r = UpdateConnectionBwShare(all, i)
    BY <1>4, <1>14
  <2>2. old.ssState # "NEW" /\ new.ssState # "NEW" /\ c \in ToSet(connections[i])
    BY <1>1, <1>2, <1>5, <1>7, <1>14 DEF Progresses
  <2>3. ColumnReady(all, i)
    <3>1. \A d \in ToSet(connections[i]) : Awaits(all.master[d].state, all.flow[d][i])
      <4> SUFFICES ASSUME NEW d \in ToSet(connections[i])
                   PROVE  Awaits(all.master[d].state, all.flow[d][i])
        OBVIOUS
      <4>0. d \in Conns
        BY <1>9, ElementsOfList
      <4>1. CASE d = c
        <5>1. Awaits(m.state, new)
          BY <1>1, <1>2, <1>5, <2>2 DEF Awaits, Progresses
        <5> QED BY <1>6, <4>1, <5>1 DEF m
      <4>2. CASE d # c
        <5>1. /\ st.master[d].state \in {"IDLE", "BUSY"} /\ i \in ToSet(st.master[d].subflows)
              /\ st.flow[d][i] \in FlowStorage
          BY <1>1, <1>9, <4>0, <4>2, StorageTypes
        <5>2. WishOk(st.master[d].state, st.flow[d][i])
          BY <1>9, <4>0, <4>2, <5>1 DEF Whole, Agree
        <5>3. Awaits(st.master[d].state, st.flow[d][i])
          BY <5>1, <5>2, FlowTypes DEF Awaits, WishOk, Progresses
        <5> QED BY <1>6, <4>0, <4>2, <5>3
      <4> QED BY <4>1, <4>2
    <3>2. \A d \in Conns \ ToSet(connections[i]) : all.flow[d][i].availableBw = 0
      <4> SUFFICES ASSUME NEW d \in Conns \ ToSet(connections[i])
                   PROVE  all.flow[d][i].availableBw = 0
        OBVIOUS
      <4>1. d # c /\ all.flow[d][i] = st.flow[d][i] /\ Whole(st.master[d], st.flow[d])
            /\ st.flow[d][i] \in FlowStorage
        BY <1>1, <1>6, <1>9, <2>2, StorageTypes
      <4>2. CASE i \notin ToSet(st.master[d].subflows)
        <5>1. st.flow[d][i] = NewFlow
          BY <4>1, <4>2 DEF Whole, Agree, ShapeOk
        <5> QED BY <4>1, <5>1 DEF NewFlow
      <4>3. CASE i \in ToSet(st.master[d].subflows)
        <5>1. st.master[d].state \notin {"IDLE", "BUSY"}
          BY <1>9, <4>1, <4>3
        <5>2. WishOk(st.master[d].state, st.flow[d][i])
          BY <4>1, <4>3 DEF Whole, Agree
        <5> QED BY <4>1, <5>1, <5>2, FlowTypes DEF WishOk, Progresses
      <4> QED BY <4>2, <4>3
    <3>3. \A d \in Conns : AddedUp(all.master[d], all.flow[d])
      <4> SUFFICES ASSUME NEW d \in Conns PROVE AddedUp(all.master[d], all.flow[d])
        OBVIOUS
      <4>1. CASE d = c
        BY <1>1, <1>6, <1>11, <4>1 DEF AddedUp, m
      <4>2. CASE d # c
        BY <1>6, <1>9, <4>2 DEF AddedUp, Whole, Agree
      <4> QED BY <4>1, <4>2
    <3> QED BY <1>1, <1>6, <1>9, <3>1, <3>2, <3>3 DEF ColumnReady
  <2>4. ColumnUpdated(all, i, r)
    BY <2>1, <2>3, ColumnProperties
  <2>5. /\ r.flow \in [Conns -> [Interfaces -> FlowStorage]]
        /\ r = [master |-> r.master, flow |-> r.flow] /\ r.master = [d \in Conns |-> r.master[d]]
        /\ \A d \in Conns : r.master[d] = UpdateAvailableBw(st.master[d], r.flow[d])
    <3>1. /\ r.flow \in [Conns -> [Interfaces -> FlowStorage]]
          /\ r = [flow |-> r.flow,
                  master |-> [d \in Conns |-> UpdateAvailableBw(all.master[d], r.flow[d])]]
      BY <2>4 DEF ColumnUpdated
    <3>2. r.master = [d \in Conns |-> UpdateAvailableBw(all.master[d], r.flow[d])]
      BY <3>1
    <3>3. r = [flow |-> r.flow, master |-> r.master]
      BY <3>1, <3>2
    <3> QED BY <1>6, <3>1, <3>2, <3>3
  <2>6. ASSUME NEW d \in Conns \ {c}
        PROVE  OtherKept(st.master[d], st.flow[d], r.master[d], r.flow[d])
    <3>1. all.master[d] = st.master[d] /\ all.flow[d] = st.flow[d]
      BY <1>6
    <3>2. OtherKept(all.master[d], all.flow[d], r.master[d], r.flow[d])
      <4>1. /\ d \in Conns /\ Typed(all.master[d]) /\ Whole(all.master[d], all.flow[d])
            /\ \A j \in Interfaces : all.flow[d][j].availableBw <= Bandwidth[j]
        BY <1>9, <3>1
      <4>2. d \in ToSet(connections[i]) <=> /\ all.master[d].state \in {"IDLE", "BUSY"}
                                            /\ i \in ToSet(all.master[d].subflows)
        BY <1>9, <3>1
      <4> QED BY <2>3, <2>4, <4>1, <4>2, KeptProperties
    <3> QED BY <3>1, <3>2
  <2>7. Told(m.state, new, r.flow[c][i])
    BY <1>6, <2>2, <2>4 DEF ColumnUpdated, m
  <2>8. \A j \in Interfaces \ {i} : r.flow[c][j] = st.flow[c][j]
    BY <1>6, <2>4 DEF ColumnUpdated
  <2>9. Tellable(m, old, r.flow[c][i], i)
    <3> DEFINE f == r.flow[c][i]
    <3>1. /\ f.state = m.state /\ f.transferredBytesSum = old.transferredBytesSum
          /\ f.ssState # "NEW" /\ WishOk(m.state, f)
          /\ f.ssState = "SS" => old.ssState = "SS"
          /\ f.ssState = "SS" /\ m.state = "BUSY" => f.nextEvent # None
      BY <1>5, <2>2, <2>7 DEF Told
    <3>2. WindowOk(f)
      BY <1>1, <1>5, <2>7 DEF Told, WindowOk
    <3>3. RoundOk(m.state, f)
      <4>1. new.ssState = "SS" \/ RoundOk(m.state, new)
        BY <1>5, <1>7, <2>2 DEF RoundOk, Rounds
      <4> QED BY <2>7, <4>1 DEF Told
    <3> HIDE DEF f
    <3>4. Tellable(m, old, f, i)
      BY <2>2, <3>1, <3>2, <3>3 DEF Tellable, FlowOk, StateOk
    <3> QED BY <3>4 DEF f
  <2>10. \A d \in Conns, j \in Interfaces : r.flow[d][j].availableBw <= Bandwidth[j]
    <3> SUFFICES ASSUME NEW d \in Conns, NEW j \in Interfaces
                 PROVE  r.flow[d][j].availableBw <= Bandwidth[j]
      OBVIOUS
    <3>1. CASE j = i
      BY <2>4, <3>1 DEF ColumnUpdated
    <3>2. CASE j # i
      BY <1>8, <1>9, <2>4, <3>2, ZenonT(60) DEF ColumnUpdated
    <3> QED BY <3>1, <3>2
  <2>11. SharesFit(r.flow)
    <3>1. \A d \in Conns : \A j \in Interfaces \ {i} :
            r.flow[d][j].availableBw = st.flow[d][j].availableBw
      BY <1>8, <2>4 DEF ColumnUpdated
    <3>2. ColumnSum(r.flow, i) <= Bandwidth[i]
      BY <2>4 DEF ColumnUpdated
    <3>3. st.flow \in [Conns -> [Interfaces -> FlowStorage]]
      BY <1>1, StorageTypes
    <3> QED BY <1>9, <2>5, <3>1, <3>2, <3>3, SharesStillFit
  <2>12. Telling(st, c, i, r)
    BY <2>5, <2>6, <2>8, <2>9, <2>10, <2>11 DEF Telling, m, old
  <2> QED BY <2>12 DEF r
<1> QED BY <1>13, <1>14

-----------------------------------------------------------------------------
(* A connection tells all its subflows what it wants, one after the other *)

LEMMA OtherKeptAgain ==
  ASSUME NEW m, NEW fs, NEW r, NEW rs, NEW x, NEW xs,
         OtherKept(m, fs, r, rs), OtherKept(r, rs, x, xs)
  PROVE  OtherKept(m, fs, x, xs)
<1>1. Untouched(m, x)
  BY DEF OtherKept, Resembles, Untouched
<1>2. Resembles(m, fs, x, xs)
  BY <1>1 DEF OtherKept, Resembles
<1> QED BY <1>2 DEF OtherKept

\* While it does so with state ms before, and with storage b while it does.
FlowKept(f, r) == /\ r.ssState = "NEW" <=> f.ssState = "NEW"
                  /\ r.transferredBytesSum = f.transferredBytesSum
                  /\ WindowOk(r)
InTurn(st, c, b, ms, x) ==
  /\ OthersReady(x, c) /\ x.master[c] = b
  /\ \A d \in Conns \ {c} : OtherKept(st.master[d], st.flow[d], x.master[d], x.flow[d])
  /\ \A i \in Interfaces : FlowKept(st.flow[c][i], x.flow[c][i])
  /\ \A i \in ToSet(b.subflows) : WasOk(ms, x.flow[c][i]) \/ WasOk(b.state, x.flow[c][i])
  /\ \A i \in Interfaces \ ToSet(b.subflows) : x.flow[c][i] = st.flow[c][i]

Begun(b) == b \in MasterStorage /\ b.state \in {"IDLE", "BUSY"} /\ b.bwUpdateInProgress
            /\ (b.state = "BUSY" => b.desiredBw > 0)

LEMMA TellInTurn ==
  ASSUME NEW st, NEW c \in Conns, NEW b, Begun(b), NEW ms,
         NEW x \in Storage, InTurn(st, c, b, ms, x), NEW i \in ToSet(b.subflows), i \in Interfaces,
         st.flow[c][i].ssState # "NEW" => c \in ToSet(connections[i])
  PROVE  LET r == UpdateFlowDesiredBw(x, c, i)
         IN  r \in Storage /\ InTurn(st, c, b, ms, r) /\ Telling(x, c, i, r)
<1> DEFINE r == UpdateFlowDesiredBw(x, c, i)
<1>1. /\ OthersReady(x, c) /\ x.master[c] = b
      /\ \A d \in Conns \ {c} : OtherKept(st.master[d], st.flow[d], x.master[d], x.flow[d])
      /\ \A j \in Interfaces : FlowKept(st.flow[c][j], x.flow[c][j])
      /\ \A j \in ToSet(b.subflows) : WasOk(ms, x.flow[c][j]) \/ WasOk(b.state, x.flow[c][j])
      /\ \A j \in Interfaces \ ToSet(b.subflows) : x.flow[c][j] = st.flow[c][j]
  BY DEF InTurn
<1>2. b \in MasterStorage /\ b.state \in {"IDLE", "BUSY"} /\ b.bwUpdateInProgress
      /\ (b.state = "BUSY" => b.desiredBw > 0)
  BY DEF Begun
<1>3. Tells(x, c, i, ms) \/ Tells(x, c, i, b.state)
  <2>1. AddedUp(x.master[c], x.flow[c])
    BY <1>1, <1>2 DEF AddedUp
  <2>2. x.flow[c][i].ssState # "NEW" => c \in ToSet(connections[i])
    BY <1>1 DEF FlowKept
  <2> QED BY <1>1, <1>2, <2>1, <2>2 DEF Tells
<1>4. Telling(x, c, i, r)
  BY <1>3, TellingProperties
<1> HIDE DEF r
<1>5. /\ r.flow \in [Conns -> [Interfaces -> FlowStorage]]
      /\ r = [master |-> r.master, flow |-> r.flow] /\ r.master = [d \in Conns |-> r.master[d]]
      /\ r.master[c] = UpdateAvailableBw(b, r.flow[c])
      /\ \A d \in Conns \ {c} : OtherKept(x.master[d], x.flow[d], r.master[d], r.flow[d])
      /\ \A j \in Interfaces \ {i} : r.flow[c][j] = x.flow[c][j]
      /\ Tellable(b, x.flow[c][i], r.flow[c][i], i)
      /\ \A d \in Conns, j \in Interfaces : r.flow[d][j].availableBw <= Bandwidth[j]
      /\ SharesFit(r.flow)
  BY <1>1, <1>4 DEF Telling
<1>6. r.master[c] = b
  BY <1>2, <1>5 DEF UpdateAvailableBw
<1>7. r \in Storage
  <2>1. \A d \in Conns : r.master[d] \in MasterStorage
    BY <1>2, <1>5, <1>6 DEF OtherKept
  <2>2. r.master \in [Conns -> MasterStorage]
    BY <1>5, <2>1
  <2> QED BY <1>5, <2>2 DEF Storage
<1>8. \A d \in Conns \ {c} : OtherKept(st.master[d], st.flow[d], r.master[d], r.flow[d])
  BY <1>1, <1>5, OtherKeptAgain
<1>9. OthersReady(r, c)
  <2>1. ASSUME NEW d \in Conns \ {c}
        PROVE  /\ Typed(r.master[d]) /\ Whole(r.master[d], r.flow[d])
               /\ r.master[d].state = x.master[d].state
               /\ r.master[d].subflows = x.master[d].subflows
    <3>1. r.master[d] \in MasterStorage /\ Whole(r.master[d], r.flow[d])
          /\ Untouched(x.master[d], r.master[d])
      BY <1>5 DEF OtherKept, Resembles
    <3>2. Typed(x.master[d])
      BY <1>1 DEF OthersReady
    <3>3. Typed(r.master[d])
      BY <3>1, <3>2 DEF Typed, Untouched, Left
    <3> QED BY <3>1, <3>3 DEF Untouched
  <2>2. \A d \in Conns \ {c}, j \in Interfaces :
          d \in ToSet(connections[j]) <=> /\ r.master[d].state \in {"IDLE", "BUSY"}
                                          /\ j \in ToSet(r.master[d].subflows)
    BY <1>1, <2>1 DEF OthersReady
  <2>3. now \in Nat /\ \A j \in Interfaces : connections[j] \in Seq(Conns) /\ IsInjective(connections[j])
    BY <1>1 DEF OthersReady
  <2> QED BY <1>5, <1>7, <2>1, <2>2, <2>3 DEF OthersReady
<1>10. FlowKept(x.flow[c][i], r.flow[c][i]) /\ WasOk(b.state, r.flow[c][i])
  BY <1>2, <1>5 DEF Tellable, FlowKept, WasOk, FlowOk
<1>11. \A j \in Interfaces : FlowKept(st.flow[c][j], r.flow[c][j])
  <2> SUFFICES ASSUME NEW j \in Interfaces PROVE FlowKept(st.flow[c][j], r.flow[c][j])
    OBVIOUS
  <2>1. CASE j = i
    BY <1>1, <1>10, <2>1 DEF FlowKept
  <2>2. CASE j # i
    BY <1>1, <1>5, <2>2
  <2> QED BY <2>1, <2>2
<1>12. \A j \in ToSet(b.subflows) : WasOk(ms, r.flow[c][j]) \/ WasOk(b.state, r.flow[c][j])
  <2> SUFFICES ASSUME NEW j \in ToSet(b.subflows)
               PROVE  WasOk(ms, r.flow[c][j]) \/ WasOk(b.state, r.flow[c][j])
    OBVIOUS
  <2>0. j \in Interfaces
    <3>1. b.subflows \in Seq(Interfaces)
      BY <1>2 DEF MasterStorage
    <3> QED BY <3>1, ElementsOfList
  <2>1. CASE j = i
    BY <1>10, <2>1
  <2>2. CASE j # i
    BY <1>1, <1>5, <2>0, <2>2
  <2> QED BY <2>1, <2>2
<1>13. \A j \in Interfaces \ ToSet(b.subflows) : r.flow[c][j] = st.flow[c][j]
  BY <1>1, <1>5
<1>14. InTurn(st, c, b, ms, r)
  BY <1>6, <1>8, <1>9, <1>11, <1>12, <1>13 DEF InTurn
<1> QED BY <1>4, <1>7, <1>14 DEF r

\* The subflows s are told one after the other.
ToldInTurn(h, base, c, s) ==
  h = [k \in 0 .. Len(s) |-> IF k = 0 THEN base ELSE UpdateFlowDesiredBw(h[k - 1], c, s[k])]

\* What holds before the turns.
TurnsReady(st, c, b, ms, base) ==
  /\ st \in Storage /\ Begun(b) /\ base \in Storage /\ InTurn(st, c, b, ms, base)
  /\ base.flow = st.flow /\ IsInjective(b.subflows)
  /\ \A i \in ToSet(b.subflows) : st.flow[c][i].ssState # "NEW" => c \in ToSet(connections[i])

LEMMA SubflowAt ==
  ASSUME NEW b \in MasterStorage
  PROVE  /\ b.subflows \in Seq(Interfaces) /\ Len(b.subflows) \in Nat
         /\ \A k \in 1 .. Len(b.subflows) : /\ b.subflows[k] \in Interfaces
                                            /\ b.subflows[k] \in ToSet(b.subflows)
         /\ \A i \in ToSet(b.subflows) : \E k \in 1 .. Len(b.subflows) : b.subflows[k] = i
<1>1. b.subflows \in Seq(Interfaces)
  BY DEF MasterStorage
<1> QED BY <1>1, ElementsOfList, ElementOfSeq

LEMMA TurnsExist ==
  ASSUME NEW st, NEW c \in Conns, NEW b, NEW ms, NEW base, TurnsReady(st, c, b, ms, base)
  PROVE  \E h : ToldInTurn(h, base, c, b.subflows)
<1> DEFINE V == {x \in Storage : InTurn(st, c, b, ms, x)}
           n == Len(b.subflows)
           s == b.subflows
           step == [k \in 1 .. n |-> [x \in V |-> UpdateFlowDesiredBw(x, c, s[k])]]
<1>1. /\ Begun(b) /\ base \in V
      /\ \A i \in ToSet(s) : st.flow[c][i].ssState # "NEW" => c \in ToSet(connections[i])
  BY DEF TurnsReady
<1>2. n \in Nat /\ \A k \in 1 .. n : s[k] \in Interfaces /\ s[k] \in ToSet(s)
  BY <1>1, SubflowAt DEF Begun
<1>3. ASSUME NEW k \in 1 .. n, NEW x \in V
      PROVE  UpdateFlowDesiredBw(x, c, s[k]) \in V
  <2>1. x \in Storage /\ InTurn(st, c, b, ms, x)
    OBVIOUS
  <2>2. s[k] \in ToSet(b.subflows) /\ s[k] \in Interfaces
        /\ (st.flow[c][s[k]].ssState # "NEW" => c \in ToSet(connections[s[k]]))
    BY <1>1, <1>2
  <2> DEFINE i == s[k]
             r == UpdateFlowDesiredBw(x, c, i)
  <2> HIDE DEF i, V, step
  <2>3. r \in Storage /\ InTurn(st, c, b, ms, r)
    <3>1. i \in ToSet(b.subflows) /\ i \in Interfaces
          /\ (st.flow[c][i].ssState # "NEW" => c \in ToSet(connections[i]))
      BY <2>2 DEF i
    <3> HIDE DEF s
    <3> QED BY <1>1, <2>1, <3>1, TellInTurn
  <2> QED BY <2>3 DEF i, V
<1> HIDE DEF V, n, s
<1>4. step \in [1 .. n -> [V -> V]]
  BY <1>3
<1>5. PICK h : RecursiveUpTo(h, n, V, base, step)
  <2> HIDE DEF step
  <2> QED BY <1>1, <1>2, <1>4, RecursionUpTo
<1>6. /\ h \in [0 .. n -> V] /\ h[0] = base
      /\ \A k \in 1 .. n : h[k] = UpdateFlowDesiredBw(h[k - 1], c, s[k])
  <2>1. \A k \in 1 .. n : h[k] = step[k][h[k - 1]] /\ h[k - 1] \in V
    BY <1>2, <1>5 DEF RecursiveUpTo
  <2>2. h \in [0 .. n -> V] /\ h[0] = base
    BY <1>5 DEF RecursiveUpTo
  <2> QED BY <2>1, <2>2
<1>7. h = [k \in 0 .. n |-> IF k = 0 THEN base ELSE UpdateFlowDesiredBw(h[k - 1], c, s[k])]
  <2>1. \A k \in 0 .. n : k # 0 => k \in 1 .. n
    BY <1>2
  <2>2. h = [k \in 0 .. n |-> h[k]]
    BY <1>6
  <2> QED BY <2>1, <2>2, <1>6
<1> QED BY <1>7 DEF ToldInTurn, n, s

LEMMA TurnsDone ==
  ASSUME NEW st, NEW c \in Conns, NEW b, NEW ms, NEW base, TurnsReady(st, c, b, ms, base),
         NEW h, ToldInTurn(h, base, c, b.subflows)
  PROVE  /\ h[Len(b.subflows)] \in Storage
         /\ InTurn(st, c, b, ms, h[Len(b.subflows)])
         /\ \A i \in ToSet(b.subflows) :
              Tellable(b, st.flow[c][i], h[Len(b.subflows)].flow[c][i], i)
<1> DEFINE s == b.subflows
           n == Len(b.subflows)
           Asked(k) == /\ h[k] \in Storage /\ InTurn(st, c, b, ms, h[k])
                       /\ \A j \in 1 .. k : Tellable(b, st.flow[c][s[j]], h[k].flow[c][s[j]], s[j])
                       /\ \A j \in k + 1 .. n : h[k].flow[c][s[j]] = st.flow[c][s[j]]
           T == {k \in 0 .. n : Asked(k)}
<1>1. /\ Begun(b) /\ base \in Storage /\ InTurn(st, c, b, ms, base) /\ base.flow = st.flow
      /\ IsInjective(s)
      /\ \A i \in ToSet(s) : st.flow[c][i].ssState # "NEW" => c \in ToSet(connections[i])
  BY DEF TurnsReady
<1>2. /\ n \in Nat /\ s \in Seq(Interfaces)
      /\ \A k \in 1 .. n : s[k] \in Interfaces /\ s[k] \in ToSet(s)
      /\ \A i \in ToSet(s) : \E k \in 1 .. n : s[k] = i
  BY <1>1, SubflowAt DEF Begun
<1>3. \A j \in 1 .. n, k \in 1 .. n : s[j] = s[k] => j = k
  BY <1>1, <1>2 DEF IsInjective
<1> HIDE DEF s, n
<1>4. h[0] = base /\ \A k \in 1 .. n : h[k] = UpdateFlowDesiredBw(h[k - 1], c, s[k])
  <2>1. h = [k \in 0 .. n |-> IF k = 0 THEN base ELSE UpdateFlowDesiredBw(h[k - 1], c, s[k])]
    BY DEF ToldInTurn, s, n
  <2>2. 0 \in 0 .. n /\ \A k \in 1 .. n : k \in 0 .. n /\ k # 0
    BY <1>2
  <2> QED BY <2>1, <2>2
<1>5. 0 \in T
  <2>1. 0 \in 0 .. n /\ 1 .. 0 = {}
    BY <1>2
  <2> QED BY <1>1, <1>4, <2>1
<1>6. ASSUME NEW k \in 0 .. n - 1, k \in T
      PROVE  k + 1 \in T
  <2> DEFINE i == s[k + 1]
             x == h[k]
             r == h[k + 1]
  <2>1. k + 1 \in 1 .. n /\ k + 1 \in 0 .. n /\ (k + 1) - 1 = k /\ k \in Nat
    BY <1>2
  <2>2. Asked(k)
    BY <1>6
  <2>3. r = UpdateFlowDesiredBw(x, c, i)
    BY <1>4, <2>1
  <2>4. i \in ToSet(s) /\ i \in Interfaces /\ (st.flow[c][i].ssState # "NEW" => c \in ToSet(connections[i]))
        /\ x.flow[c][i] = st.flow[c][i]
    <3>1. k + 1 \in k + 1 .. n
      BY <1>2, <2>1
    <3> QED BY <1>1, <1>2, <2>1, <2>2, <3>1
  <2>5. x \in Storage /\ InTurn(st, c, b, ms, x)
    BY <2>2
  <2> HIDE DEF i, x, r, T, Asked
  <2>6. r \in Storage /\ InTurn(st, c, b, ms, r) /\ Telling(x, c, i, r)
    BY <1>1, <2>3, <2>4, <2>5, TellInTurn DEF s
  <2>7. /\ \A j \in Interfaces \ {i} : r.flow[c][j] = x.flow[c][j]
        /\ Tellable(x.master[c], x.flow[c][i], r.flow[c][i], i)
        /\ x.master[c] = b
    BY <2>5, <2>6 DEF Telling, InTurn
  <2>8. ASSUME NEW j \in 1 .. k + 1
        PROVE  Tellable(b, st.flow[c][s[j]], r.flow[c][s[j]], s[j])
    <3>1. CASE j = k + 1
      BY <2>4, <2>7, <3>1 DEF i
    <3>2. CASE j # k + 1
      <4>1. j \in 1 .. k /\ j \in 1 .. n
        BY <1>2, <2>1, <3>2
      <4>2. s[j] # i /\ s[j] \in Interfaces
        BY <1>2, <1>3, <2>1, <3>2, <4>1 DEF i
      <4>3. r.flow[c][s[j]] = x.flow[c][s[j]]
        BY <2>7, <4>2
      <4> QED BY <2>2, <4>1, <4>3 DEF Asked, x
    <3> QED BY <3>1, <3>2
  <2>9. ASSUME NEW j \in (k + 1) + 1 .. n
        PROVE  r.flow[c][s[j]] = st.flow[c][s[j]]
    <3>1. j \in 1 .. n /\ j \in k + 1 .. n /\ j # k + 1
      BY <1>2, <2>1
    <3>2. s[j] # i /\ s[j] \in Interfaces
      BY <1>2, <1>3, <2>1, <3>1 DEF i
    <3>3. r.flow[c][s[j]] = x.flow[c][s[j]]
      BY <2>7, <3>2
    <3> QED BY <2>2, <3>1, <3>3 DEF Asked, x
  <2>10. Asked(k + 1)
    BY <2>6, <2>8, <2>9 DEF Asked, r
  <2> QED BY <2>1, <2>10 DEF T
<1> HIDE DEF T, Asked
<1>7. \A k \in 0 .. n : k \in T
  BY <1>2, <1>5, <1>6, UpTo
<1>8. Asked(n)
  <2>1. n \in 0 .. n
    BY <1>2
  <2> QED BY <1>7, <2>1 DEF T
<1>9. h[n] \in Storage /\ InTurn(st, c, b, ms, h[n])
      /\ \A j \in 1 .. n : Tellable(b, st.flow[c][s[j]], h[n].flow[c][s[j]], s[j])
  BY <1>8 DEF Asked
<1>10. \A i \in ToSet(s) : Tellable(b, st.flow[c][i], h[n].flow[c][i], i)
  BY <1>2, <1>9
<1> QED BY <1>9, <1>10 DEF n, s

\* What a connection wants of its subflows together.
Desired(m) == IF m.state = "IDLE" THEN 0
              ELSE Max({PerRtt(m.outstandingTransferBytesSum, Head(m.interfaces)), 1})

\* A connection with subflows fs, which wanted what a connection in state ms wants.
Updates(m, fs, ms) ==
  /\ Typed(m) /\ m.state \in {"IDLE", "BUSY"} /\ ~m.bwUpdateInProgress
  /\ m.availableBw = FlowSum(m, fs) /\ ShapeOk(m, fs)
  /\ ms \in {"IDLE", "BUSY"} /\ (m.desiredBw > 0 <=> ms = "BUSY")
  /\ \A i \in Interfaces : WindowOk(fs[i])
  /\ \A i \in ToSet(m.subflows) : FlowOk(ms, fs[i])

UpdateReady(st, c, ms) ==
  /\ OthersReady(st, c) /\ Updates(st.master[c], st.flow[c], ms)
  /\ \A i \in ToSet(st.master[c].subflows) :
       st.flow[c][i].ssState # "NEW" => c \in ToSet(connections[i])

\* It wants what it wants anew of all its subflows, and has the sum of what they have.
SelfUpdated(m, fs, ms, r, rs) ==
  LET y == [m EXCEPT !.desiredBw = Desired(m)]
  IN  /\ Renewed(y, rs, r) /\ Agree(r, rs) /\ SumOk(y, rs)
      /\ \A i \in ToSet(m.subflows) : RoundOk(m.state, rs[i])
      /\ \A i \in Interfaces : FlowKept(fs[i], rs[i])
      /\ (ms = "BUSY" => Ticking(m, fs)) => Ticking(m, rs)

Updated(st, c, ms, r) ==
  /\ r \in Storage /\ SelfUpdated(st.master[c], st.flow[c], ms, r.master[c], r.flow[c])
  /\ \A d \in Conns \ {c} : OtherKept(st.master[d], st.flow[d], r.master[d], r.flow[d])
  /\ \A d \in Conns, j \in Interfaces : r.flow[d][j].availableBw <= Bandwidth[j]
  /\ SharesFit(r.flow)

LEMMA DesiredType ==
  ASSUME NEW m \in MasterStorage, NEW fs, ShapeOk(m, fs), m.state \in {"IDLE", "BUSY"}
  PROVE  Desired(m) \in Nat /\ (Desired(m) > 0 <=> m.state = "BUSY")
<1> DEFINE q == PerRtt(m.outstandingTransferBytesSum, Head(m.interfaces))
<1>1. q \in Nat
  <2>1. m.interfaces \in Paths
    BY DEF ShapeOk
  <2>2. Head(m.interfaces) \in Interfaces
    BY <2>1, PathProperties
  <2>3. m.outstandingTransferBytesSum \in Nat
    BY DEF MasterStorage
  <2> QED BY <2>2, <2>3, PerRttType
<1>2. Desired(m) = IF m.state = "IDLE" THEN 0 ELSE Max({q, 1})
  BY DEF Desired
<1> HIDE DEF q
<1>3. Max({q, 1}) \in Nat /\ Max({q, 1}) > 0
  BY <1>1 DEF Max
<1> QED BY <1>2, <1>3

\* What c has of its subflows in the end, once they have what they want.
LEMMA SelfProperties ==
  ASSUME NEW m, NEW fs \in [Interfaces -> FlowStorage], NEW ms, Updates(m, fs, ms),
         \A i \in Interfaces : fs[i].availableBw <= Bandwidth[i],
         NEW rs \in [Interfaces -> FlowStorage],
         \A i \in Interfaces : rs[i].availableBw <= Bandwidth[i],
         \A i \in Interfaces : FlowKept(fs[i], rs[i]),
         \A i \in ToSet(m.subflows) : FlowOk(m.state, rs[i]),
         \A i \in Interfaces \ ToSet(m.subflows) : rs[i] = fs[i],
         (ms = "BUSY" => Ticking(m, fs)) => Ticking(m, rs)
  PROVE  SelfUpdated(m, fs, ms, UpdateAvailableBw([m EXCEPT !.desiredBw = Desired(m)], rs), rs)
<1> DEFINE y == [m EXCEPT !.desiredBw = Desired(m)]
           x == [m EXCEPT !.state = "BUSY"]
           r == UpdateAvailableBw(y, rs)
           first == Head(m.interfaces)
<1>1. /\ m \in MasterStorage /\ now \in Nat /\ (m.state = "BUSY" => Left(m) \in Nat)
      /\ m.state \in {"IDLE", "BUSY"} /\ ~m.bwUpdateInProgress /\ m.availableBw = FlowSum(m, fs)
      /\ ShapeOk(m, fs) /\ ms \in {"IDLE", "BUSY"}
      /\ \A i \in ToSet(m.subflows) : FlowOk(ms, fs[i])
  BY DEF Updates, Typed
<1>2. Desired(m) \in Nat /\ (Desired(m) > 0 <=> m.state = "BUSY")
  BY <1>1, DesiredType
<1>3. /\ y \in MasterStorage /\ y.state = m.state /\ y.subflows = m.subflows
      /\ y.interfaces = m.interfaces /\ y.transfers = m.transfers /\ y.desiredBw = Desired(m)
      /\ y.bwUpdateInProgress = m.bwUpdateInProgress /\ y.availableBw = m.availableBw
  BY <1>1, <1>2 DEF MasterStorage
<1>4. /\ x \in MasterStorage /\ x.state = "BUSY"
      /\ x.subflows = m.subflows /\ x.interfaces = m.interfaces
  BY <1>1 DEF MasterStorage
<1> HIDE DEF y, x, r
<1>5. first \in Interfaces /\ ToSet(m.subflows) \subseteq Interfaces
  <2>1. m.interfaces \in Paths
    BY <1>1 DEF ShapeOk
  <2> QED BY <1>1, <2>1, PathProperties, SubflowsOf
<1>6. rs[first].ssState = "NEW" <=> fs[first].ssState = "NEW"
  BY <1>5 DEF FlowKept
<1>7. ShapeOk(y, rs)
  BY <1>1, <1>3, <1>6 DEF ShapeOk
<1>8. ShapeOk(x, fs)
  BY <1>1, <1>4 DEF ShapeOk
<1>9. fs[first].ssState = "NEW" => SumOk(x, fs)
  <2> SUFFICES ASSUME fs[first].ssState = "NEW" PROVE SumOk(x, fs)
    OBVIOUS
  <2>1. ToSet(x.subflows) = {first}
    BY <1>1, <1>4, SubflowsOf
  <2>2. \A i \in ToSet(x.subflows) : fs[i].availableBw > 0 <=> Progresses(x.state, fs[i])
    BY <1>1, <1>4, <2>1 DEF FlowOk, WishOk, Progresses
  <2> QED BY <1>4, <1>8, <2>2, SumOfFlows
<1>10. \A i \in ToSet(y.subflows) :
         /\ WishOk(y.state, rs[i]) /\ StateOk(y.state, rs[i])
         /\ rs[i].availableBw > 0 <=> Progresses(y.state, rs[i])
  BY <1>3 DEF FlowOk, WishOk
<1>11. SumOk(y, rs)
  BY <1>3, <1>7, <1>10, SumOfFlows
<1>12. FlowSum(y, rs) # y.availableBw =>
         y.state = "IDLE" \/ (y.state = "BUSY" /\ rs[Head(y.interfaces)].ssState # "NEW")
  <2> SUFFICES ASSUME y.state = "BUSY", rs[Head(y.interfaces)].ssState = "NEW"
               PROVE  FlowSum(y, rs) = y.availableBw
    BY <1>1, <1>3
  <2>1. FlowSum(y, rs) \in Nat /\ ~(FlowSum(y, rs) > 0)
    BY <1>11, SumOfBandwidths DEF SumOk
  <2>2. FlowSum(x, fs) \in Nat /\ ~(FlowSum(x, fs) > 0)
    BY <1>1, <1>3, <1>4, <1>6, <1>9, SumOfBandwidths DEF SumOk
  <2>3. FlowSum(x, fs) = FlowSum(m, fs)
    BY <1>4 DEF FlowSum
  <2> QED BY <1>1, <1>3, <2>1, <2>2, <2>3
<1>13. Typed(y)
  BY <1>1, <1>3 DEF Typed, Left
<1>14. Renewed(y, rs, r)
  BY <1>1, <1>3, <1>7, <1>10, <1>12, <1>13, RenewOf DEF r
<1>15. Agree(r, rs)
  <2>1. y.desiredBw > 0 <=> y.state = "BUSY"
    BY <1>2, <1>3
  <2>2. \A i \in Interfaces : WindowOk(rs[i])
    BY DEF FlowKept
  <2>3. \A i \in ToSet(y.subflows) : WishOk(y.state, rs[i]) /\ StateOk(y.state, rs[i])
    BY <1>10
  <2>4. ~y.bwUpdateInProgress
    BY <1>1, <1>3
  <2> QED BY <1>7, <1>14, <2>1, <2>2, <2>3, <2>4, AgreeOf
<1>16. \A i \in ToSet(m.subflows) : RoundOk(m.state, rs[i])
  BY DEF FlowOk
<1>17. SelfUpdated(m, fs, ms, r, rs)
  BY <1>11, <1>14, <1>15, <1>16 DEF SelfUpdated, y
<1> QED BY <1>17 DEF r, y

LEMMA UpdateProperties ==
  ASSUME NEW st, NEW c \in Conns, NEW ms, UpdateReady(st, c, ms)
  PROVE  Updated(st, c, ms, UpdateDesiredBw(st, c))
<1> DEFINE m == st.master[c]
           fs == st.flow[c]
           desired == Desired(m)
           b == [m EXCEPT !.desiredBw = desired, !.bwUpdateInProgress = TRUE]
           begun == [st EXCEPT !.master[c].desiredBw = desired, !.master[c].bwUpdateInProgress = TRUE]
           told(h) == h = [k \in 0 .. Len(m.subflows) |->
                             IF k = 0 THEN begun ELSE UpdateFlowDesiredBw(h[k - 1], c, m.subflows[k])]
           h == CHOOSE g : told(g)
           done == h[Len(m.subflows)]
           y == [m EXCEPT !.desiredBw = desired]
           r == UpdateDesiredBw(st, c)
<1>1. r = IF desired = m.desiredBw THEN st
          ELSE [done EXCEPT !.master[c] =
                  UpdateAvailableBw([@ EXCEPT !.bwUpdateInProgress = FALSE], done.flow[c])]
  BY DEF UpdateDesiredBw, Desired
<1>2. /\ OthersReady(st, c) /\ Updates(m, fs, ms) /\ st \in Storage /\ m \in MasterStorage
      /\ fs \in [Interfaces -> FlowStorage] /\ st.master \in [Conns -> MasterStorage]
      /\ st.flow \in [Conns -> [Interfaces -> FlowStorage]]
      /\ \A i \in ToSet(m.subflows) : fs[i].ssState # "NEW" => c \in ToSet(connections[i])
  BY StorageTypes DEF UpdateReady, OthersReady
<1>3. /\ m.state \in {"IDLE", "BUSY"} /\ ~m.bwUpdateInProgress /\ m.availableBw = FlowSum(m, fs)
      /\ ShapeOk(m, fs) /\ ms \in {"IDLE", "BUSY"} /\ (m.desiredBw > 0 <=> ms = "BUSY")
      /\ \A i \in Interfaces : WindowOk(fs[i])
      /\ \A i \in ToSet(m.subflows) : FlowOk(ms, fs[i])
  BY <1>2 DEF Updates
<1>4. desired \in Nat /\ (desired > 0 <=> m.state = "BUSY")
  BY <1>2, <1>3, DesiredType
<1>5. /\ \A d \in Conns, j \in Interfaces : st.flow[d][j].availableBw <= Bandwidth[j]
      /\ \A j \in Interfaces : fs[j].availableBw <= Bandwidth[j]
      /\ SharesFit(st.flow) /\ \A d \in Conns \ {c} : Whole(st.master[d], st.flow[d])
      /\ \A d \in Conns : st.master[d] \in MasterStorage
  BY <1>2, StorageTypes DEF OthersReady
<1>6. ToSet(m.subflows) \subseteq Interfaces
  BY <1>2, <1>3, SubflowsOf
<1>7. b \in MasterStorage /\ Begun(b) /\ b.state = m.state /\ b.subflows = m.subflows
      /\ b.bwUpdateInProgress /\ b.desiredBw = desired
  <2> HIDE DEF desired
  <2>1. b \in MasterStorage /\ b.state = m.state /\ b.subflows = m.subflows
        /\ b.bwUpdateInProgress /\ b.desiredBw = desired
    BY <1>2, <1>4 DEF MasterStorage
  <2> HIDE DEF b
  <2> QED BY <1>3, <1>4, <2>1 DEF Begun
<1>8. [b EXCEPT !.bwUpdateInProgress = FALSE] = y
  <2> HIDE DEF desired
  <2> QED BY <1>2, <1>3 DEF MasterStorage
<1> HIDE DEF desired, r
<1>9. CASE desired = m.desiredBw
  <2>1. r = st /\ y = m
    BY <1>1, <1>2, <1>9 DEF MasterStorage
  <2>2. ms = m.state
    BY <1>3, <1>4, <1>9
  <2>3. UpdateAvailableBw(m, fs) = m
    BY <1>3 DEF UpdateAvailableBw, FlowSum, Sum
  <2>4. \A i \in Interfaces : FlowKept(fs[i], fs[i])
    BY <1>3 DEF FlowKept
  <2>5. (ms = "BUSY" => Ticking(m, fs)) => Ticking(m, fs)
    BY <2>2 DEF Ticking
  <2>6. y = [m EXCEPT !.desiredBw = Desired(m)]
    BY DEF desired
  <2> HIDE DEF m, fs, y
  <2>7. SelfUpdated(m, fs, ms, UpdateAvailableBw([m EXCEPT !.desiredBw = Desired(m)], fs), fs)
    BY <1>2, <1>3, <1>5, <2>2, <2>4, <2>5, SelfProperties
  <2>8. SelfUpdated(m, fs, ms, m, fs)
    BY <2>1, <2>3, <2>6, <2>7
  <2>9. \A d \in Conns \ {c} : OtherKept(st.master[d], st.flow[d], st.master[d], st.flow[d])
    BY <1>5, WholeKept
  <2> QED BY <1>2, <1>5, <2>1, <2>8, <2>9 DEF Updated, m, fs, r
<1>10. CASE desired # m.desiredBw
  <2>1. /\ begun \in Storage /\ begun.flow = st.flow /\ begun.master[c] = b
        /\ \A d \in Conns \ {c} : begun.master[d] = st.master[d]
    <3> DEFINE ma == [st.master EXCEPT ![c] = b]
    <3>1. begun = [st EXCEPT !.master = ma]
      BY <1>2 DEF Storage
    <3>2. ma \in [Conns -> MasterStorage] /\ ma[c] = b /\ \A d \in Conns \ {c} : ma[d] = st.master[d]
      BY <1>2, <1>7
    <3> HIDE DEF ma, begun, b
    <3> QED BY <1>2, <3>1, <3>2 DEF Storage
  <2> HIDE DEF begun, b
  <2>2. InTurn(st, c, b, ms, begun)
    <3>1. OthersReady(begun, c)
      BY <1>2, <2>1 DEF OthersReady
    <3>2. \A d \in Conns \ {c} : OtherKept(st.master[d], st.flow[d], begun.master[d], begun.flow[d])
      BY <1>5, <2>1, WholeKept
    <3>3. \A i \in Interfaces : FlowKept(st.flow[c][i], begun.flow[c][i])
      BY <1>3, <2>1 DEF FlowKept
    <3>4. \A i \in ToSet(b.subflows) : WasOk(ms, begun.flow[c][i])
      BY <1>3, <1>6, <1>7, <2>1 DEF WasOk, FlowOk
    <3> QED BY <2>1, <3>1, <3>2, <3>3, <3>4 DEF InTurn
  <2>3. TurnsReady(st, c, b, ms, begun)
    <3>1. m.subflows \in Seq(Interfaces) /\ IsInjective(m.subflows)
      BY <1>2, <1>3, SubflowsOf
    <3> QED BY <1>2, <1>7, <2>1, <2>2, <3>1 DEF TurnsReady
  <2>4. told(h)
    <3>1. PICK g : ToldInTurn(g, begun, c, b.subflows)
      BY <2>3, TurnsExist
    <3>2. told(g)
      BY <1>7, <3>1 DEF ToldInTurn
    <3> QED BY <3>2
  <2>5. ToldInTurn(h, begun, c, b.subflows)
    <3> HIDE DEF h
    <3> QED BY <1>7, <2>4 DEF ToldInTurn
  <2> HIDE DEF h
  <2>6. /\ done \in Storage /\ InTurn(st, c, b, ms, done)
        /\ \A i \in ToSet(m.subflows) : Tellable(b, fs[i], done.flow[c][i], i)
    BY <1>7, <2>3, <2>5, TurnsDone
  <2> HIDE DEF done
  <2> DEFINE rs == done.flow[c]
  <2>7. /\ OthersReady(done, c) /\ done.master[c] = b
        /\ \A d \in Conns \ {c} : OtherKept(st.master[d], st.flow[d], done.master[d], done.flow[d])
        /\ \A i \in Interfaces : FlowKept(fs[i], rs[i])
        /\ \A i \in Interfaces \ ToSet(m.subflows) : rs[i] = fs[i]
    BY <1>7, <2>6 DEF InTurn
  <2>8. /\ \A i \in Interfaces : rs[i].availableBw <= Bandwidth[i]
        /\ \A d \in Conns, j \in Interfaces : done.flow[d][j].availableBw <= Bandwidth[j]
        /\ SharesFit(done.flow) /\ rs \in [Interfaces -> FlowStorage]
    BY <2>6, <2>7, StorageTypes DEF OthersReady
  <2>9. r = [done EXCEPT !.master[c] = UpdateAvailableBw(y, rs)]
    <3>1. r = [done EXCEPT !.master[c] =
                 UpdateAvailableBw([@ EXCEPT !.bwUpdateInProgress = FALSE], rs)]
      BY <1>1, <1>10
    <3> HIDE DEF rs
    <3>2. done \in Storage /\ c \in DOMAIN done.master
      BY <2>6 DEF Storage
    <3>3. [done.master[c] EXCEPT !.bwUpdateInProgress = FALSE] = y
      BY <1>8, <2>7
    <3> QED BY <3>1, <3>2, <3>3 DEF Storage
  <2>10. \A i \in ToSet(m.subflows) : FlowOk(m.state, rs[i])
    BY <1>7, <2>6 DEF Tellable
  <2>11. (ms = "BUSY" => Ticking(m, fs)) => Ticking(m, rs)
    <3> SUFFICES ASSUME ms = "BUSY" => Ticking(m, fs), NEW i \in ToSet(m.subflows),
                        rs[i].ssState = "SS", m.state = "BUSY"
                 PROVE  rs[i].nextEvent # None
      BY DEF Ticking
    <3>1. Tellable(b, fs[i], rs[i], i)
      BY <2>6
    <3>2. fs[i].ssState = "SS"
      BY <3>1 DEF Tellable
    <3>3. NewRound(b, fs[i], i)
      <4>1. CASE ms = "BUSY"
        BY <3>2, <4>1, <1>3 DEF Ticking, NewRound, FlowOk, WishOk, Progresses
      <4>2. CASE ms = "IDLE"
        <5>1. fs[i].desiredBw \in Nat /\ fs[i] \in FlowStorage /\ i \in Interfaces
          BY <1>2, <1>6, FlowTypes
        <5>2. fs[i].desiredBw = 0
          BY <1>3, <4>2, <5>1 DEF FlowOk, WishOk, Progresses
        <5>3. NewDesiredBw(b, fs[i], i) > 0
          BY <1>3, <1>4, <1>7, <3>2, <5>1, WishProperties DEF Progresses
        <5> QED BY <5>2, <5>3 DEF NewRound
      <4> QED BY <1>3, <4>1, <4>2
    <3> QED BY <1>7, <3>1, <3>3 DEF Tellable
  <2> DEFINE z == UpdateAvailableBw(y, rs)
  <2>a. y = [m EXCEPT !.desiredBw = Desired(m)]
    BY DEF desired
  <2>12. SelfUpdated(m, fs, ms, z, rs)
    <3> HIDE DEF m, fs, rs, y
    <3>1. SelfUpdated(m, fs, ms, UpdateAvailableBw([m EXCEPT !.desiredBw = Desired(m)], rs), rs)
      BY <1>2, <1>5, <2>7, <2>8, <2>10, <2>11, SelfProperties
    <3> QED BY <2>a, <3>1
  <2>13. z \in MasterStorage
    BY <2>12 DEF SelfUpdated, Renewed
  <2> HIDE DEF z
  <2>14. /\ r \in Storage /\ r.flow = done.flow /\ r.master[c] = z
         /\ \A d \in Conns \ {c} : r.master[d] = done.master[d]
    <3> DEFINE ma == [done.master EXCEPT ![c] = z]
    <3>1. r = [done EXCEPT !.master = ma]
      BY <2>6, <2>9 DEF Storage, z
    <3>2. ma \in [Conns -> MasterStorage] /\ ma[c] = z /\ \A d \in Conns \ {c} : ma[d] = done.master[d]
      BY <2>6, <2>13 DEF Storage
    <3> HIDE DEF ma
    <3> QED BY <2>6, <3>1, <3>2 DEF Storage
  <2> QED BY <2>7, <2>8, <2>12, <2>14 DEF Updated, r
<1> QED BY <1>9, <1>10

-----------------------------------------------------------------------------
(* The first state *)

LEMMA NewStorage ==
  /\ NewMaster \in MasterStorage /\ NewFlow \in FlowStorage /\ WindowOk(NewFlow)
  /\ ToSet(NewMaster.subflows) = {}
  /\ \A fs \in [Interfaces -> {NewFlow}] : Agree(NewMaster, fs)
<1>1. 0 \in 0 .. Sum(Bandwidth, Interfaces)
  BY SumOfBandwidths
<1>2. NewMaster \in MasterStorage
  <2> HIDE DEF Sum
  <2> QED BY <1>1, Constants DEF NewMaster, MasterStorage
<1>3. NewFlow \in FlowStorage /\ WindowOk(NewFlow)
  BY Constants DEF NewFlow, FlowStorage, WindowOk
<1>4. ToSet(NewMaster.subflows) = {}
  BY DEF NewMaster, ToSet
<1>5. ASSUME NEW fs \in [Interfaces -> {NewFlow}]
      PROVE  Agree(NewMaster, fs)
  <2>1. FlowSum(NewMaster, fs) = 0
    BY <1>4, SumOfNothing DEF FlowSum, Sum
  <2>2. \A i \in Interfaces : fs[i] = NewFlow /\ WindowOk(fs[i])
    BY <1>3
  <2>3. /\ NewMaster.state = "NONE" /\ NewMaster.subflows = <<>> /\ ~NewMaster.bwUpdateInProgress
        /\ NewMaster.desiredBw = 0 /\ NewMaster.availableBw = 0
    BY DEF NewMaster
  <2>4. ShapeOk(NewMaster, fs)
    BY <2>2, <2>3 DEF ShapeOk
  <2> QED BY <1>4, <2>1, <2>2, <2>3, <2>4 DEF Agree
<1> QED BY <1>2, <1>3, <1>4, <1>5

LEMMA InitInv == Init => IInv
<1> SUFFICES ASSUME Init PROVE IInv
  OBVIOUS
<1>1. /\ now = 0 /\ event = NoEvent /\ master = [c \in Conns |-> NewMaster]
      /\ flow = [c \in Conns |-> [i \in Interfaces |-> NewFlow]]
      /\ connections = [i \in Interfaces |-> <<>>]
      /\ tState = [t \in Transfers |-> "ENABLED"] /\ size \in [Transfers -> Sizes]
      /\ outstandingBytes = size /\ tConn = [t \in Transfers |-> None]
  BY DEF Init
<1>2. \A t \in Transfers : size[t] \in Nat
  BY <1>1, Constants
<1>3. /\ NewMaster \in MasterStorage /\ NewFlow \in FlowStorage /\ WindowOk(NewFlow)
      /\ ToSet(NewMaster.subflows) = {}
      /\ \A fs \in [Interfaces -> {NewFlow}] : Agree(NewMaster, fs)
  BY NewStorage
<1>4. /\ NewMaster.state = "NONE" /\ NewMaster.transfers = <<>> /\ ~NewMaster.bwUpdateInProgress
      /\ NewMaster.outstandingTransferBytesSum = 0 /\ NewMaster.transferredBytesSum = 0
      /\ NewMaster.nextEvent = None
      /\ NewFlow.availableBw = 0 /\ NewFlow.transferredBytesSum = 0
  BY DEF NewMaster, NewFlow
<1>5. /\ \A c \in Conns : master[c] = NewMaster
      /\ \A c \in Conns : flow[c] \in [Interfaces -> {NewFlow}]
      /\ \A c \in Conns, i \in Interfaces : flow[c][i] = NewFlow
  BY <1>1
<1> HIDE DEF NewMaster, NewFlow
<1>6. TypeOK
  <2>1. \A c \in Conns, i \in Interfaces : flow[c][i].availableBw <= Bandwidth[i]
    BY <1>4, <1>5, Constants
  <2>2. master \in [Conns -> MasterStorage] /\ flow \in [Conns -> [Interfaces -> FlowStorage]]
    BY <1>1, <1>3
  <2>3. \A c \in Conns : ~master[c].bwUpdateInProgress
    BY <1>4, <1>5
  <2>4. /\ now \in Nat /\ event \in (Conns \X (Interfaces \cup {None})) \cup {NoEvent}
        /\ connections \in [Interfaces -> Seq(Conns)]
        /\ tState \in [Transfers -> {"ENABLED", "ENQUEUED", "ACTIVE", "FINISHED"}]
        /\ size \in [Transfers -> Sizes] /\ outstandingBytes \in [Transfers -> Nat]
        /\ tConn \in [Transfers -> Conns \cup {None}]
    BY <1>1, <1>2
  <2> QED BY <2>1, <2>2, <2>3, <2>4 DEF TypeOK
<1>7. Open = {}
  BY <1>4, <1>5 DEF Open
<1>8. Listed
  BY <1>1, <1>7 DEF Listed, IsInjective, ToSet
<1>9. PipelinesOk
  BY <1>1, <1>4, <1>5, Constants DEF PipelinesOk, IsInjective, ToSet
<1>10. BytesOk
  BY <1>1 DEF BytesOk
<1>11. BytesConserved
  <2> SUFFICES ASSUME NEW c \in Conns
               PROVE  LET on == {t \in Transfers : tConn[t] = c}
                      IN  /\ master[c].outstandingTransferBytesSum = SumFunctionOnSet(outstandingBytes, on)
                          /\ master[c].transferredBytesSum
                               = SumFunctionOnSet([t \in Transfers |-> size[t] - outstandingBytes[t]], on)
                          /\ SumFunctionOnSet([i \in Interfaces |-> flow[c][i].transferredBytesSum],
                                              Interfaces) <= master[c].transferredBytesSum
    BY DEF BytesConserved
  <2>1. {t \in Transfers : tConn[t] = c} = {}
    BY <1>1, Constants
  <2> DEFINE g == [i \in Interfaces |-> flow[c][i].transferredBytesSum]
  <2>2. \A i \in Interfaces : g[i] = 0
    BY <1>4, <1>5
  <2> HIDE DEF g
  <2>3. SumFunctionOnSet(g, Interfaces) = 0 * Cardinality(Interfaces)
    BY <2>2, Constants, SumOfConstant
  <2>4. SumFunctionOnSet(g, Interfaces) <= 0
    BY <2>3, Constants, FS_CardinalityType
  <2> QED BY <1>4, <1>5, <2>1, <2>4, SumOfNothing DEF g
<1>12. SharesFit(flow)
  <2> SUFFICES ASSUME NEW i \in Interfaces PROVE ColumnSum(flow, i) <= Bandwidth[i]
    BY DEF SharesFit
  <2> DEFINE g == [c \in Conns |-> flow[c][i].availableBw]
  <2>1. \A c \in Conns : g[c] = 0
    BY <1>4, <1>5
  <2>2. ColumnSum(flow, i) = Sum(g, Conns)
    BY DEF ColumnSum
  <2> HIDE DEF g
  <2>3. Sum(g, Conns) = 0 * Cardinality(Conns)
    BY <2>1, Constants, SumOfConstant DEF Sum
  <2>4. Cardinality(Conns) \in Nat /\ Bandwidth[i] \in Nat
    BY Constants, FS_CardinalityType
  <2> QED BY <2>2, <2>3, <2>4
<1>13. EventOk
  BY <1>1 DEF EventOk
<1>14. \A c \in Conns : ConnOk(c)
  <2> SUFFICES ASSUME NEW c \in Conns PROVE ConnOk(c)
    OBVIOUS
  <2>1. event # <<c, None>>
    BY <1>1, Constants DEF NoEvent
  <2>2. Agree(master[c], flow[c])
    BY <1>3, <1>5
  <2>3. MasterOk(master[c])
    BY <1>4, <1>5 DEF MasterOk
  <2>4. Flows(c) = {}
    BY <1>3, <1>5 DEF Flows
  <2> QED BY <2>1, <2>2, <2>3, <2>4 DEF ConnOk
<1> QED BY <1>6, <1>8, <1>9, <1>10, <1>11, <1>12, <1>13, <1>14 DEF IInv

-----------------------------------------------------------------------------
(* What the steps have in common *)

LEMMA Types ==
  ASSUME IInv
  PROVE  /\ now \in Nat /\ master \in [Conns -> MasterStorage]
         /\ flow \in [Conns -> [Interfaces -> FlowStorage]]
         /\ connections \in [Interfaces -> Seq(Conns)]
         /\ size \in [Transfers -> Sizes] /\ outstandingBytes \in [Transfers -> Nat]
         /\ tConn \in [Transfers -> Conns \cup {None}]
         /\ tState \in [Transfers -> {"ENABLED", "ENQUEUED", "ACTIVE", "FINISHED"}]
         /\ \A t \in Transfers : size[t] \in Nat \ {0} /\ outstandingBytes[t] \in Nat
         /\ \A c \in Conns :
              /\ master[c] \in MasterStorage /\ flow[c] \in [Interfaces -> FlowStorage]
              /\ \A i \in Interfaces : flow[c][i] \in FlowStorage
              /\ master[c].transfers \in Seq(Transfers) /\ IsInjective(master[c].transfers)
              /\ master[c].state \in {"NONE", "IDLE", "BUSY", "CLOSED"}
              /\ master[c].outstandingTransferBytesSum \in Nat
              /\ master[c].transferredBytesSum \in Nat
              /\ Typed(master[c])
<1>1. /\ now \in Nat /\ master \in [Conns -> MasterStorage]
      /\ flow \in [Conns -> [Interfaces -> FlowStorage]]
      /\ connections \in [Interfaces -> Seq(Conns)]
      /\ size \in [Transfers -> Sizes] /\ outstandingBytes \in [Transfers -> Nat]
      /\ tConn \in [Transfers -> Conns \cup {None}]
      /\ tState \in [Transfers -> {"ENABLED", "ENQUEUED", "ACTIVE", "FINISHED"}]
  BY DEF IInv, TypeOK
<1>2. \A t \in Transfers : size[t] \in Nat \ {0} /\ outstandingBytes[t] \in Nat
  BY <1>1, Constants
<1>3. ASSUME NEW c \in Conns
      PROVE  /\ master[c] \in MasterStorage /\ flow[c] \in [Interfaces -> FlowStorage]
             /\ \A i \in Interfaces : flow[c][i] \in FlowStorage
             /\ master[c].transfers \in Seq(Transfers) /\ IsInjective(master[c].transfers)
             /\ master[c].state \in {"NONE", "IDLE", "BUSY", "CLOSED"}
             /\ master[c].outstandingTransferBytesSum \in Nat
             /\ master[c].transferredBytesSum \in Nat
             /\ Typed(master[c])
  <2>1. master[c] \in MasterStorage /\ flow[c] \in [Interfaces -> FlowStorage]
        /\ \A i \in Interfaces : flow[c][i] \in FlowStorage
    BY <1>1
  <2>2. /\ master[c].transfers \in Seq(Transfers)
        /\ master[c].state \in {"NONE", "IDLE", "BUSY", "CLOSED"}
        /\ master[c].outstandingTransferBytesSum \in Nat
        /\ master[c].transferredBytesSum \in Nat
    BY <2>1 DEF MasterStorage
  <2>3. IsInjective(master[c].transfers) /\ (master[c].state = "BUSY" => master[c].transfers # <<>>)
    BY DEF IInv, PipelinesOk
  <2>4. master[c].state = "BUSY" => Left(master[c]) \in Nat
    <3> SUFFICES ASSUME master[c].state = "BUSY" PROVE Left(master[c]) \in Nat
      OBVIOUS
    <3>1. Head(master[c].transfers) \in Transfers
      BY <2>2, <2>3, TailOfInjective
    <3> QED BY <1>2, <3>1 DEF Left
  <2> QED BY <1>1, <2>1, <2>2, <2>3, <2>4 DEF Typed
<1> QED BY <1>1, <1>2, <1>3

\* No event of d is being handled.
Untroubled(d) == event = NoEvent \/ event[1] # d

LEMMA Undisturbed ==
  ASSUME IInv, NEW d \in Conns, Untroubled(d)
  PROVE  Whole(master[d], flow[d])
<1>1. event # <<d, None>> /\ \A i \in Flows(d) : event # <<d, i>>
  BY Constants DEF Untroubled, NoEvent
<1>2. ConnOk(d)
  BY DEF IInv
<1> QED BY <1>1, <1>2 DEF ConnOk, Whole, Flows

\* Every subflow of any connection.
LEMMA SubflowFacts ==
  ASSUME IInv, NEW c \in Conns
  PROVE  /\ Agree(master[c], flow[c]) /\ Flows(c) \subseteq Interfaces
         /\ \A i \in Flows(c) : /\ WishOk(master[c].state, flow[c][i])
                                /\ StateOk(master[c].state, flow[c][i])
                                /\ RoundOk(master[c].state, flow[c][i]) \/ event = <<c, i>>
         /\ \A i \in Interfaces : c \in ToSet(connections[i]) <=> c \in Open /\ i \in Flows(c)
         /\ c \in Open => master[c].state \in {"IDLE", "BUSY"}
         /\ \A i \in Interfaces : flow[c][i].availableBw <= Bandwidth[i]
<1>1. ConnOk(c) /\ Listed /\ TypeOK
  BY DEF IInv
<1>2. master[c] \in MasterStorage
  BY Types
<1>3. Flows(c) \subseteq Interfaces
  BY <1>1, <1>2, SubflowsOf DEF ConnOk, Agree, Flows
<1> QED BY <1>1, <1>3 DEF ConnOk, Agree, Listed, Open, TypeOK, Flows

LEMMA OthersAreReady ==
  ASSUME IInv, NEW c \in Conns, \A d \in Conns \ {c} : Untroubled(d),
         NEW st \in Storage,
         \A d \in Conns \ {c} : st.master[d] = master[d] /\ st.flow[d] = flow[d],
         \A j \in Interfaces : st.flow[c][j].availableBw = flow[c][j].availableBw
  PROVE  OthersReady(st, c)
<1>1. \A d \in Conns \ {c} : Typed(st.master[d]) /\ Whole(st.master[d], st.flow[d])
  BY Types, Undisturbed
<1>2. \A j \in Interfaces : connections[j] \in Seq(Conns) /\ IsInjective(connections[j])
  BY Types DEF IInv, Listed
<1>3. \A d \in Conns \ {c}, j \in Interfaces :
        d \in ToSet(connections[j]) <=> /\ st.master[d].state \in {"IDLE", "BUSY"}
                                        /\ j \in ToSet(st.master[d].subflows)
  BY SubflowFacts DEF Open, Flows
<1>4. \A d \in Conns, j \in Interfaces : st.flow[d][j].availableBw = flow[d][j].availableBw
  OBVIOUS
<1>5. \A d \in Conns, j \in Interfaces : st.flow[d][j].availableBw <= Bandwidth[j]
  BY <1>4, SubflowFacts
<1>6. SharesFit(st.flow)
  <2>1. ASSUME NEW j \in Interfaces PROVE ColumnSum(st.flow, j) = ColumnSum(flow, j)
    <3>1. [d \in Conns |-> st.flow[d][j].availableBw] = [d \in Conns |-> flow[d][j].availableBw]
      BY <1>4
    <3> QED BY <3>1 DEF ColumnSum
  <2> QED BY <2>1 DEF SharesFit, IInv
<1>7. now \in Nat
  BY Types
<1> QED BY <1>1, <1>2, <1>3, <1>5, <1>6, <1>7 DEF OthersReady

\* A handler of c: what it does to the other connections.
OthersStep(c) ==
  /\ master' \in [Conns -> MasterStorage] /\ flow' \in [Conns -> [Interfaces -> FlowStorage]]
  /\ \A d \in Conns \ {c} : OtherKept(master[d], flow[d], master'[d], flow'[d])
  /\ \A d \in Conns, j \in Interfaces : flow'[d][j].availableBw <= Bandwidth[j]
  /\ SharesFit(flow') /\ event' = NoEvent /\ UNCHANGED <<now, outstandingBytes, size>>

\* All subflows in slow start have an event, unless it is the one that is handled.
Rolls(c) == \A i \in Flows(c) : /\ flow[c][i].ssState = "SS" /\ master[c].state = "BUSY"
                                /\ event # <<c, i>>
                                => flow[c][i].nextEvent # None

\* What of the invariant is about connections one by one.
StepDone == /\ \A d \in Conns : ConnOk(d)' /\ ~master'[d].bwUpdateInProgress
            /\ SharesFit(flow)' /\ EventOk' /\ now' \in Nat
            /\ event' \in (Conns \X (Interfaces \cup {None})) \cup {NoEvent}
            /\ master' \in [Conns -> MasterStorage]
            /\ flow' \in [Conns -> [Interfaces -> FlowStorage]]
            /\ \A d \in Conns, j \in Interfaces : flow'[d][j].availableBw <= Bandwidth[j]
            /\ size' \in [Transfers -> Sizes] /\ outstandingBytes' \in [Transfers -> Nat]

LEMMA WholeIsOk ==
  ASSUME NEW d \in Conns, Whole(master'[d], flow'[d]), event' = NoEvent,
         UNCHANGED <<now, outstandingBytes>>
  PROVE  ConnOk(d)' /\ ~master'[d].bwUpdateInProgress
<1>1. /\ Agree(master'[d], flow'[d]) /\ MasterOk(master'[d])
      /\ \A i \in ToSet(master'[d].subflows) : RoundOk(master'[d].state, flow'[d][i])
  BY DEF Whole
<1>2. Agree(master[d], flow[d])'
  BY <1>1 DEF Agree, ShapeOk, FlowSum, WindowOk, WishOk, StateOk, Progresses
<1>3. MasterOk(master[d])'
  BY <1>1 DEF MasterOk, CapacityOk, DeadlineOk, Left, Since
<1>4. (\A i \in Flows(d) : RoundOk(master[d].state, flow[d][i]))'
  BY <1>1 DEF RoundOk, Rounds, Flows
<1>5. event' # <<d, None>> /\ \A i \in Flows(d)' : event' # <<d, i>>
  BY Constants DEF NoEvent
<1>6. ~master'[d].bwUpdateInProgress
  BY <1>1 DEF Agree
<1> QED BY <1>2, <1>3, <1>4, <1>5, <1>6 DEF ConnOk

LEMMA StepOk ==
  ASSUME IInv, NEW c \in Conns, OthersStep(c), Whole(master'[c], flow'[c])
  PROVE  StepDone
<1>1. /\ master' \in [Conns -> MasterStorage] /\ flow' \in [Conns -> [Interfaces -> FlowStorage]]
      /\ \A d \in Conns \ {c} : OtherKept(master[d], flow[d], master'[d], flow'[d])
      /\ \A d \in Conns, j \in Interfaces : flow'[d][j].availableBw <= Bandwidth[j]
      /\ SharesFit(flow') /\ event' = NoEvent /\ UNCHANGED <<now, outstandingBytes, size>>
  BY DEF OthersStep
<1>2. ASSUME NEW d \in Conns PROVE ConnOk(d)' /\ ~master'[d].bwUpdateInProgress
  <2>1. Whole(master'[d], flow'[d])
    BY <1>1 DEF OtherKept
  <2> QED BY <1>1, <2>1, WholeIsOk
<1>3. SharesFit(flow)'
  BY <1>1 DEF SharesFit, ColumnSum
<1>4. EventOk'
  BY <1>1 DEF EventOk
<1>5. now' \in Nat /\ size' \in [Transfers -> Sizes] /\ outstandingBytes' \in [Transfers -> Nat]
  BY <1>1, Types
<1> QED BY <1>1, <1>2, <1>3, <1>4, <1>5 DEF StepDone

LEMMA RollsIsTicking ==
  ASSUME NEW d \in Conns, Rolls(d), \A i \in Flows(d) : event # <<d, i>>
  PROVE  Ticking(master[d], flow[d])
<1> SUFFICES ASSUME NEW i \in ToSet(master[d].subflows),
                    flow[d][i].ssState = "SS", master[d].state = "BUSY"
             PROVE  flow[d][i].nextEvent # None
  BY DEF Ticking
<1>1. i \in Flows(d)
  BY DEF Flows
<1>2. event # <<d, i>>
  BY <1>1
<1> QED BY <1>1, <1>2 DEF Rolls

LEMMA OthersRoll ==
  ASSUME NEW c \in Conns, OthersStep(c), NEW d \in Conns \ {c}, Rolls(d), Untroubled(d)
  PROVE  Rolls(d)'
<1>1. \A i \in Flows(d) : event # <<d, i>>
  BY Constants DEF Untroubled, NoEvent
<1>2. Ticking(master[d], flow[d])
  BY <1>1, RollsIsTicking
<1>3. Ticking(master'[d], flow'[d])
  BY <1>2 DEF OthersStep, OtherKept
<1> QED BY <1>3 DEF Rolls, Ticking, Flows

\* A step that moves no byte and gives no transfer to a connection keeps the sums.
SumsKept(c) ==
  /\ master'[c].outstandingTransferBytesSum = master[c].outstandingTransferBytesSum
  /\ master'[c].transferredBytesSum = master[c].transferredBytesSum
  /\ \A i \in Interfaces : flow'[c][i].transferredBytesSum = flow[c][i].transferredBytesSum

LEMMA OthersKeepSums ==
  ASSUME NEW c \in Conns, OthersStep(c), NEW d \in Conns \ {c}
  PROVE  /\ SumsKept(d) /\ master'[d].state = master[d].state
         /\ master'[d].transfers = master[d].transfers /\ master'[d].subflows = master[d].subflows
BY DEF OthersStep, OtherKept, Resembles, Untouched, SumsKept

\* The three sums of a connection.
On(c) == {t \in Transfers : tConn[t] = c}
Got == [t \in Transfers |-> size[t] - outstandingBytes[t]]
FlowBytes(c) == [i \in Interfaces |-> flow[c][i].transferredBytesSum]
SumsOk(c) ==
  /\ master[c].outstandingTransferBytesSum = SumFunctionOnSet(outstandingBytes, On(c))
  /\ master[c].transferredBytesSum = SumFunctionOnSet(Got, On(c))
  /\ SumFunctionOnSet(FlowBytes(c), Interfaces) <= master[c].transferredBytesSum

LEMMA SumsAreConserved == BytesConserved <=> \A c \in Conns : SumsOk(c)
BY DEF BytesConserved, SumsOk, On, Got, FlowBytes

LEMMA SumsStillOk ==
  ASSUME NEW c \in Conns, SumsOk(c), SumsKept(c), UNCHANGED <<outstandingBytes, size>>,
         On(c)' = On(c)
  PROVE  SumsOk(c)'
<1>1. Got' = Got
  BY DEF Got
<1>2. FlowBytes(c)' = FlowBytes(c)
  BY DEF FlowBytes, SumsKept
<1> QED BY <1>1, <1>2 DEF SumsOk, SumsKept

LEMMA BytesKept ==
  ASSUME BytesConserved, UNCHANGED <<outstandingBytes, size, tConn>>, \A c \in Conns : SumsKept(c)
  PROVE  BytesConserved'
<1>1. \A c \in Conns : On(c)' = On(c) /\ SumsOk(c)
  BY SumsAreConserved DEF On
<1>2. \A c \in Conns : SumsOk(c)'
  BY <1>1, SumsStillOk
<1> QED BY <1>2 DEF BytesConserved, SumsOk, On, Got, FlowBytes

-----------------------------------------------------------------------------
(* The pipelines, and what their specification sees of a step *)

PipelineOk(c) ==
  /\ IsInjective(master[c].transfers)
  /\ master[c].state = "BUSY" <=> master[c].transfers # <<>>
  /\ master[c].state = "NONE" => \A t \in Transfers : tConn[t] # c
  /\ \A t \in Transfers : t \in ToSet(master[c].transfers)
                           <=> tConn[t] = c /\ tState[t] \in {"ENQUEUED", "ACTIVE"}
  /\ \A t \in Transfers : tConn[t] = c /\ tState[t] = "ACTIVE"
                          <=> master[c].transfers # <<>> /\ t = Head(master[c].transfers)

LEMMA PipelineByPipeline ==
  PipelinesOk <=> /\ \A t \in Transfers : tState[t] = "ENABLED" <=> tConn[t] = None
                  /\ \A c \in Conns : PipelineOk(c)
BY DEF PipelinesOk, PipelineOk

LEMMA PipelinesKept ==
  ASSUME PipelinesOk, UNCHANGED <<tState, tConn>>,
         \A c \in Conns : /\ master'[c].transfers = master[c].transfers
                          /\ master'[c].state = master[c].state \/
                               (master[c].state = "IDLE" /\ master'[c].state = "CLOSED")
  PROVE  PipelinesOk'
<1>1. \A c \in Conns : PipelineOk(c)
  BY PipelineByPipeline
<1>2. ASSUME NEW c \in Conns PROVE PipelineOk(c)'
  BY <1>1 DEF PipelineOk
<1>3. (\A t \in Transfers : tState[t] = "ENABLED" <=> tConn[t] = None)'
  BY DEF PipelinesOk
<1> QED BY <1>2, <1>3 DEF PipelinesOk, PipelineOk

PipesStep == [Pipes!Next]_(Pipes!vars)

LEMMA SendStep ==
  ASSUME NEW c \in Conns, NEW t \in Transfers, master[c].state # "CLOSED",
         master'[c].state = "BUSY",
         tState[t] = "ENABLED", tState'[t] \in {"ENQUEUED", "ACTIVE"},
         \A u \in Transfers \ {t} : tState'[u] = tState[u],
         \A d \in Conns \ {c} : master'[d].state = master[d].state
                                /\ master'[d].transfers = master[d].transfers,
         master'[c].transfers = Append(master[c].transfers, t)
  PROVE  PipesStep
<1> DEFINE pipeline == [d \in Conns |-> master[d].transfers]
           sent == {u \in Transfers : tState[u] # "ENABLED"}
           served == {u \in Transfers : tState[u] = "FINISHED"}
           closed == {d \in Conns : master[d].state = "CLOSED"}
<1>1. c \notin closed /\ t \notin sent /\ sent' = sent \cup {t} /\ served' = served
      /\ closed' = closed
  OBVIOUS
<1>2. Open' = Open \cup {c}
  BY DEF Open
<1>3. pipeline' = [pipeline EXCEPT ![c] = Append(@, t)]
  OBVIOUS
<1>4. Pipes!Send(c, t)
  BY <1>1, <1>2, <1>3 DEF Pipes!Send
<1> QED BY <1>4 DEF PipesStep, Pipes!Next

LEMMA ServeStep ==
  ASSUME NEW c \in Conns, NEW h \in Transfers, h = Head(master[c].transfers),
         master[c].transfers # <<>>, master'[c].transfers = Tail(master[c].transfers),
         master[c].state = "BUSY", master'[c].state \in {"IDLE", "BUSY"},
         \A d \in Conns \ {c} : master'[d].state = master[d].state
                                /\ master'[d].transfers = master[d].transfers,
         tState[h] = "ACTIVE", tState'[h] = "FINISHED",
         \A u \in Transfers \ {h} : \/ tState'[u] = tState[u]
                                    \/ tState[u] = "ENQUEUED" /\ tState'[u] = "ACTIVE"
  PROVE  PipesStep
<1> DEFINE pipeline == [d \in Conns |-> master[d].transfers]
           sent == {u \in Transfers : tState[u] # "ENABLED"}
           served == {u \in Transfers : tState[u] = "FINISHED"}
           closed == {d \in Conns : master[d].state = "CLOSED"}
<1>1. sent' = sent /\ served' = served \cup {h} /\ closed' = closed
  OBVIOUS
<1>2. Open' = Open
  BY DEF Open
<1>3. pipeline' = [pipeline EXCEPT ![c] = Tail(@)]
  OBVIOUS
<1>4. Pipes!Serve(c)
  BY <1>1, <1>2, <1>3 DEF Pipes!Serve
<1> QED BY <1>4 DEF PipesStep, Pipes!Next

LEMMA CloseStep ==
  ASSUME NEW c \in Conns, master[c].state = "IDLE", master'[c].state = "CLOSED",
         master[c].transfers = <<>>, tState' = tState,
         \A d \in Conns \ {c} : master'[d].state = master[d].state,
         \A d \in Conns : master'[d].transfers = master[d].transfers
  PROVE  PipesStep
<1> DEFINE pipeline == [d \in Conns |-> master[d].transfers]
           sent == {u \in Transfers : tState[u] # "ENABLED"}
           served == {u \in Transfers : tState[u] = "FINISHED"}
           closed == {d \in Conns : master[d].state = "CLOSED"}
<1>1. sent' = sent /\ served' = served /\ closed' = closed \cup {c} /\ pipeline' = pipeline
  OBVIOUS
<1>2. Open' = Open \ {c} /\ c \in Open
  BY DEF Open
<1>3. Pipes!Close(c)
  BY <1>1, <1>2 DEF Pipes!Close
<1> QED BY <1>3 DEF PipesStep, Pipes!Next

LEMMA StutterStep ==
  ASSUME tState' = tState, \A d \in Conns : master'[d].state = master[d].state
                                            /\ master'[d].transfers = master[d].transfers
  PROVE  PipesStep
<1> DEFINE pipeline == [d \in Conns |-> master[d].transfers]
           sent == {u \in Transfers : tState[u] # "ENABLED"}
           served == {u \in Transfers : tState[u] = "FINISHED"}
           closed == {d \in Conns : master[d].state = "CLOSED"}
<1>1. sent' = sent /\ served' = served /\ closed' = closed /\ pipeline' = pipeline
  OBVIOUS
<1>2. Open' = Open
  BY DEF Open
<1> QED BY <1>1, <1>2 DEF PipesStep, Pipes!vars

-----------------------------------------------------------------------------
(* Transfers that are sent, and transfers that are served *)

\* What every step is shown to do.
StepInv == IInv' /\ PipesStep /\ \A d \in Conns : Rolls(d) => Rolls(d)'

LEMMA AllOk ==
  ASSUME StepDone, Listed', PipelinesOk', BytesOk', BytesConserved',
         connections' \in [Interfaces -> Seq(Conns)],
         tConn' \in [Transfers -> Conns \cup {None}],
         tState' \in [Transfers -> {"ENABLED", "ENQUEUED", "ACTIVE", "FINISHED"}]
  PROVE  IInv'
<1>1. TypeOK'
  BY DEF StepDone, TypeOK
<1> QED BY <1>1 DEF StepDone, IInv

LEMMA ListedKept ==
  ASSUME Listed, connections' = connections,
         \A d \in Conns : Flows(d)' = Flows(d) /\ (d \in Open' <=> d \in Open)
  PROVE  Listed'
<1> SUFFICES ASSUME NEW i \in Interfaces
             PROVE  IsInjective(connections'[i])
                    /\ ToSet(connections'[i]) = {d \in Open' : i \in Flows(d)'}
  BY DEF Listed
<1>1. IsInjective(connections[i]) /\ ToSet(connections[i]) = {d \in Open : i \in Flows(d)}
  BY DEF Listed
<1>2. {d \in Open' : i \in Flows(d)'} = {d \in Open : i \in Flows(d)}
  BY DEF Open
<1> QED BY <1>1, <1>2

\* A transfer that no connection has yet is appended to the pipeline of c.
Sends(c, t) ==
  /\ tState[t] = "ENABLED" /\ master[c].state # "CLOSED" /\ master'[c].state = "BUSY"
  /\ master'[c].transfers = Append(master[c].transfers, t)
  /\ tState' = [tState EXCEPT ![t] = IF master[c].transfers = <<>> THEN "ACTIVE" ELSE "ENQUEUED"]
  /\ tConn' = [tConn EXCEPT ![t] = c] /\ UNCHANGED <<outstandingBytes, size>>
  /\ \A d \in Conns \ {c} : /\ master'[d].state = master[d].state
                            /\ master'[d].transfers = master[d].transfers

LEMMA SentPipelines ==
  ASSUME IInv, NEW c \in Conns, NEW t \in Transfers, Sends(c, t)
  PROVE  /\ PipelinesOk' /\ BytesOk' /\ PipesStep
         /\ tConn' \in [Transfers -> Conns \cup {None}]
         /\ tState' \in [Transfers -> {"ENABLED", "ENQUEUED", "ACTIVE", "FINISHED"}]
<1> DEFINE pipe == master[c].transfers
<1>1. /\ pipe \in Seq(Transfers) /\ IsInjective(pipe) /\ None \notin Conns
      /\ tState \in [Transfers -> {"ENABLED", "ENQUEUED", "ACTIVE", "FINISHED"}]
      /\ tConn \in [Transfers -> Conns \cup {None}]
  BY Types, Constants
<1>2. tConn[t] = None /\ t \notin ToSet(pipe)
  BY <1>1 DEF IInv, PipelinesOk, Sends
<1>3. /\ Append(pipe, t) \in Seq(Transfers) /\ IsInjective(Append(pipe, t))
      /\ ToSet(Append(pipe, t)) = ToSet(pipe) \cup {t} /\ Append(pipe, t) # <<>>
      /\ Head(Append(pipe, t)) = IF pipe = <<>> THEN t ELSE Head(pipe)
  BY <1>1, <1>2, AppendToInjective
<1>4. /\ tConn'[t] = c /\ \A u \in Transfers \ {t} : tState'[u] = tState[u] /\ tConn'[u] = tConn[u]
      /\ tState'[t] = IF pipe = <<>> THEN "ACTIVE" ELSE "ENQUEUED"
  BY <1>1 DEF Sends
<1>5. \A d \in Conns : PipelineOk(d)
  BY PipelineByPipeline DEF IInv
<1>6. (\A u \in Transfers : tState[u] = "ENABLED" <=> tConn[u] = None)'
  BY <1>1, <1>4 DEF IInv, PipelinesOk
<1>7. PipelineOk(c)'
  <2>1. \A u \in Transfers : u \in ToSet(pipe) <=> tConn[u] = c
                                                 /\ tState[u] \in {"ENQUEUED", "ACTIVE"}
    BY <1>5 DEF PipelineOk
  <2>2. \A u \in Transfers : tConn[u] = c /\ tState[u] = "ACTIVE"
                            <=> pipe # <<>> /\ u = Head(pipe)
    BY <1>5 DEF PipelineOk
  <2>3. /\ IsInjective(master'[c].transfers) /\ master'[c].transfers # <<>>
        /\ master'[c].state = "BUSY"
    BY <1>3 DEF Sends
  <2>4. \A u \in Transfers : u \in ToSet(master'[c].transfers)
                            <=> tConn'[u] = c /\ tState'[u] \in {"ENQUEUED", "ACTIVE"}
    BY <1>2, <1>3, <1>4, <2>1 DEF Sends
  <2>5. ASSUME NEW u \in Transfers
        PROVE  tConn'[u] = c /\ tState'[u] = "ACTIVE" <=> u = Head(master'[c].transfers)
    <3>1. master'[c].transfers = Append(pipe, t)
      BY DEF Sends
    <3>2. CASE u = t
      <4>1. pipe # <<>> => Head(pipe) \in ToSet(pipe)
        BY <1>1, TailOfInjective
      <4> QED BY <1>2, <1>3, <1>4, <3>1, <3>2, <4>1
    <3>3. CASE u # t
      BY <1>3, <1>4, <2>2, <3>1, <3>3
    <3> QED BY <3>2, <3>3
  <2> QED BY <2>3, <2>4, <2>5 DEF PipelineOk
<1>8. ASSUME NEW d \in Conns \ {c} PROVE PipelineOk(d)'
  <2>1. t \notin ToSet(master[d].transfers)
        /\ ~(master[d].transfers # <<>> /\ t = Head(master[d].transfers))
    BY <1>1, <1>2, <1>5 DEF PipelineOk
  <2>2. \A u \in Transfers : tConn'[u] = d => u # t
    BY <1>4
  <2>3. master'[d].state = master[d].state /\ master'[d].transfers = master[d].transfers
    BY DEF Sends
  <2>4. PipelineOk(d)
    BY <1>5
  <2> QED BY <1>4, <2>1, <2>2, <2>3, <2>4 DEF PipelineOk
<1>9. PipelinesOk'
  BY <1>6, <1>7, <1>8 DEF PipelinesOk, PipelineOk
<1>10. BytesOk'
  <2>1. ASSUME NEW u \in Transfers, tState'[u] = "ENABLED" PROVE outstandingBytes'[u] = size'[u]
    BY <1>4, <2>1 DEF IInv, BytesOk, Sends
  <2> QED BY <2>1 DEF BytesOk
<1>11. PipesStep
  BY <1>4, SendStep DEF Sends
<1>12. /\ tConn' \in [Transfers -> Conns \cup {None}]
       /\ tState' \in [Transfers -> {"ENABLED", "ENQUEUED", "ACTIVE", "FINISHED"}]
  BY <1>1 DEF Sends
<1> QED BY <1>9, <1>10, <1>11, <1>12

LEMMA SentBytes ==
  ASSUME IInv, NEW c \in Conns, NEW t \in Transfers, Sends(c, t),
         \A d \in Conns \ {c} : SumsKept(d),
         master'[c].outstandingTransferBytesSum
           = master[c].outstandingTransferBytesSum + outstandingBytes[t],
         master'[c].transferredBytesSum = master[c].transferredBytesSum,
         \A i \in Interfaces : flow'[c][i].transferredBytesSum = flow[c][i].transferredBytesSum
  PROVE  BytesConserved'
<1>1. /\ tConn[t] = None /\ None \notin Conns /\ outstandingBytes[t] = size[t]
      /\ tConn \in [Transfers -> Conns \cup {None}] /\ size[t] \in Nat
      /\ outstandingBytes[t] \in Nat /\ UNCHANGED <<outstandingBytes, size>>
      /\ master[c].outstandingTransferBytesSum \in Nat /\ master[c].transferredBytesSum \in Nat
  BY Types, Constants DEF IInv, PipelinesOk, BytesOk, Sends
<1>2. /\ t \notin On(c) /\ On(c)' = On(c) \cup {t} /\ \A d \in Conns \ {c} : On(d)' = On(d)
  BY <1>1 DEF On, Sends
<1>3. Got' = Got /\ Got[t] = 0
  BY <1>1 DEF Got
<1>4. /\ \A u \in Transfers : outstandingBytes[u] \in Int /\ Got[u] \in Int
      /\ IsFiniteSet(On(c)) /\ On(c) \subseteq Transfers
  <2>1. \A u \in Transfers : size[u] \in Nat /\ outstandingBytes[u] \in Nat
    BY Types
  <2>2. On(c) \subseteq Transfers
    BY DEF On
  <2> QED BY <2>1, <2>2, Constants, FS_Subset DEF Got
<1>5. \A d \in Conns : SumsOk(d)
  BY SumsAreConserved DEF IInv
<1>6. SumFunctionOnSet(outstandingBytes, On(c) \cup {t})
        = outstandingBytes[t] + SumFunctionOnSet(outstandingBytes, On(c))
  BY <1>2, <1>4, SumWith
<1>7. SumFunctionOnSet(Got, On(c) \cup {t}) = Got[t] + SumFunctionOnSet(Got, On(c))
  BY <1>2, <1>4, SumWith
<1>8. FlowBytes(c)' = FlowBytes(c)
  BY DEF FlowBytes
<1>9. SumsOk(c)'
  <2>1. /\ SumFunctionOnSet(outstandingBytes, On(c)) = master[c].outstandingTransferBytesSum
        /\ SumFunctionOnSet(Got, On(c)) = master[c].transferredBytesSum
        /\ SumFunctionOnSet(FlowBytes(c), Interfaces) <= master[c].transferredBytesSum
    BY <1>5 DEF SumsOk
  <2>2. SumFunctionOnSet(outstandingBytes, On(c))' = master'[c].outstandingTransferBytesSum
    BY <1>1, <1>2, <1>6, <2>1
  <2>3. SumFunctionOnSet(Got, On(c))' = master'[c].transferredBytesSum
    BY <1>1, <1>2, <1>3, <1>7, <2>1
  <2> QED BY <1>8, <2>1, <2>2, <2>3 DEF SumsOk
<1>10. \A d \in Conns \ {c} : SumsOk(d)'
  BY <1>1, <1>2, <1>5, SumsStillOk
<1> QED BY <1>9, <1>10 DEF BytesConserved, SumsOk, On, Got, FlowBytes

\* The first transfer of the pipeline of c is done.
Done(c) ==
  /\ master[c].state = "BUSY" /\ master[c].transfers # <<>>
  /\ outstandingBytes[Head(master[c].transfers)] = 0
Serves(c) ==
  /\ Done(c) /\ master'[c].transfers = Tail(master[c].transfers)
  /\ master'[c].state = IF Tail(master[c].transfers) = <<>> THEN "IDLE" ELSE "BUSY"
  /\ tState' \in [Transfers -> {"ENABLED", "ENQUEUED", "ACTIVE", "FINISHED"}]
  /\ tState'[Head(master[c].transfers)] = "FINISHED"
  /\ \A u \in Transfers \ {Head(master[c].transfers)} :
       tState'[u] = IF Tail(master[c].transfers) # <<>> /\ u = Head(Tail(master[c].transfers))
                    THEN "ACTIVE" ELSE tState[u]
  /\ UNCHANGED <<tConn, outstandingBytes, size>>
  /\ \A d \in Conns \ {c} : /\ master'[d].state = master[d].state
                            /\ master'[d].transfers = master[d].transfers

LEMMA ServedPipelines ==
  ASSUME IInv, NEW c \in Conns, Serves(c)
  PROVE  PipelinesOk' /\ BytesOk' /\ PipesStep
<1> DEFINE pipe == master[c].transfers
           h == Head(pipe)
           rest == Tail(pipe)
<1>1. /\ pipe \in Seq(Transfers) /\ IsInjective(pipe) /\ None \notin Conns /\ pipe # <<>>
      /\ tState \in [Transfers -> {"ENABLED", "ENQUEUED", "ACTIVE", "FINISHED"}]
      /\ tConn \in [Transfers -> Conns \cup {None}]
  BY Types, Constants DEF Serves, Done
<1>2. /\ rest \in Seq(Transfers) /\ IsInjective(rest) /\ h \in Transfers
      /\ ToSet(rest) = ToSet(pipe) \ {h} /\ h \in ToSet(pipe)
  BY <1>1, TailOfInjective
<1>3. rest # <<>> => /\ Head(rest) \in ToSet(rest) /\ Head(rest) \in Transfers
  BY <1>2, TailOfInjective
<1>4. \A d \in Conns : PipelineOk(d)
  BY PipelineByPipeline DEF IInv
<1>5. tConn[h] = c /\ tState[h] = "ACTIVE"
  BY <1>1, <1>2, <1>4 DEF PipelineOk
<1>6. rest # <<>> => tConn[Head(rest)] = c /\ tState[Head(rest)] = "ENQUEUED" /\ Head(rest) # h
  BY <1>2, <1>3, <1>4 DEF PipelineOk
<1>7. /\ tState'[h] = "FINISHED" /\ tConn' = tConn
      /\ \A u \in Transfers \ {h} :
           tState'[u] = IF rest # <<>> /\ u = Head(rest) THEN "ACTIVE" ELSE tState[u]
      /\ master'[c].transfers = rest
      /\ master'[c].state = IF rest = <<>> THEN "IDLE" ELSE "BUSY"
  BY DEF Serves
<1> HIDE DEF rest, h, pipe
<1>8. (\A u \in Transfers : tState[u] = "ENABLED" <=> tConn[u] = None)'
  <2>1. \A u \in Transfers : tState[u] = "ENABLED" <=> tConn[u] = None
    BY DEF IInv, PipelinesOk
  <2> QED BY <1>1, <1>5, <1>6, <1>7, <2>1
<1>9. PipelineOk(c)'
  <2>1. \A u \in Transfers : u \in ToSet(pipe) <=> tConn[u] = c
                                                 /\ tState[u] \in {"ENQUEUED", "ACTIVE"}
    BY <1>4 DEF PipelineOk, pipe
  <2>2. \A u \in Transfers : tConn[u] = c /\ tState[u] = "ACTIVE" => u = h
    BY <1>4 DEF PipelineOk, pipe, h
  <2>3. \A u \in Transfers : u \in ToSet(rest)
                            <=> tConn'[u] = c /\ tState'[u] \in {"ENQUEUED", "ACTIVE"}
    BY <1>2, <1>3, <1>5, <1>6, <1>7, <2>1
  <2>4. \A u \in Transfers : tConn'[u] = c /\ tState'[u] = "ACTIVE"
                            <=> rest # <<>> /\ u = Head(rest)
    BY <1>3, <1>6, <1>7, <2>2
  <2> QED BY <1>2, <1>7, <2>3, <2>4 DEF PipelineOk
<1>10. ASSUME NEW d \in Conns \ {c} PROVE PipelineOk(d)'
  <2>1. master'[d].state = master[d].state /\ master'[d].transfers = master[d].transfers
    BY DEF Serves
  <2>2. \A u \in Transfers : tConn[u] = d => tState'[u] = tState[u]
    BY <1>5, <1>6, <1>7
  <2>3. PipelineOk(d)
    BY <1>4
  <2>4. \A u \in Transfers : u \in ToSet(master'[d].transfers)
                            <=> tConn'[u] = d /\ tState'[u] \in {"ENQUEUED", "ACTIVE"}
    BY <1>7, <2>1, <2>2, <2>3 DEF PipelineOk
  <2>5. \A u \in Transfers : tConn'[u] = d /\ tState'[u] = "ACTIVE"
                            <=> master'[d].transfers # <<>> /\ u = Head(master'[d].transfers)
    BY <1>7, <2>1, <2>2, <2>3 DEF PipelineOk
  <2> QED BY <1>7, <2>1, <2>3, <2>4, <2>5 DEF PipelineOk
<1>11. PipelinesOk'
  BY <1>8, <1>9, <1>10 DEF PipelinesOk, PipelineOk
<1>12. BytesOk'
  <2>1. \A u \in Transfers : tState'[u] = "ENABLED" => tState[u] = "ENABLED"
    BY <1>7
  <2> QED BY <2>1 DEF IInv, BytesOk, Serves
<1>13. PipesStep
  <2>1. \A u \in Transfers \ {h} : \/ tState'[u] = tState[u]
                                   \/ tState[u] = "ENQUEUED" /\ tState'[u] = "ACTIVE"
    BY <1>6, <1>7
  <2>2. /\ master[c].state = "BUSY" /\ master'[c].state \in {"IDLE", "BUSY"}
        /\ \A d \in Conns \ {c} : /\ master'[d].state = master[d].state
                                  /\ master'[d].transfers = master[d].transfers
    BY <1>7 DEF Serves, Done
  <2> QED BY <1>1, <1>2, <1>5, <1>7, <2>1, <2>2, ServeStep DEF pipe, h, rest
<1> QED BY <1>11, <1>12, <1>13

-----------------------------------------------------------------------------
(* Handlers in which c updates what it wants *)

\* The storage of c before it does so.
StOf(c, m, fs) == [master |-> [master EXCEPT ![c] = m], flow |-> [flow EXCEPT ![c] = fs]]

LEMMA StOfProperties ==
  ASSUME IInv, NEW c \in Conns, NEW m \in MasterStorage, NEW fs \in [Interfaces -> FlowStorage]
  PROVE  /\ StOf(c, m, fs) \in Storage
         /\ StOf(c, m, fs).master[c] = m /\ StOf(c, m, fs).flow[c] = fs
         /\ \A d \in Conns \ {c} : /\ StOf(c, m, fs).master[d] = master[d]
                                   /\ StOf(c, m, fs).flow[d] = flow[d]
<1>1. master \in [Conns -> MasterStorage] /\ flow \in [Conns -> [Interfaces -> FlowStorage]]
  BY Types
<1>2. StOf(c, m, fs) \in Storage
  BY <1>1 DEF StOf, Storage
<1> QED BY <1>1, <1>2 DEF StOf

\* What no new wish and no new share touches.
Carries(m, r) ==
  /\ r.state = m.state /\ r.interfaces = m.interfaces /\ r.subflows = m.subflows
  /\ r.transfers = m.transfers /\ r.outstandingTransferBytesSum = m.outstandingTransferBytesSum
  /\ r.transferredBytesSum = m.transferredBytesSum

UpdatesIn(c, m, fs, ms) ==
  /\ m \in MasterStorage /\ fs \in [Interfaces -> FlowStorage] /\ Updates(m, fs, ms)
  /\ \A j \in Interfaces : fs[j].availableBw = flow[c][j].availableBw
  /\ \A i \in ToSet(m.subflows) : fs[i].ssState # "NEW" => c \in ToSet(connections[i])
  /\ \A d \in Conns \ {c} : Untroubled(d)

LEMMA UpdateReadied ==
  ASSUME IInv, NEW c \in Conns, NEW m, NEW fs, NEW ms, UpdatesIn(c, m, fs, ms)
  PROVE  Updated(StOf(c, m, fs), c, ms, UpdateDesiredBw(StOf(c, m, fs), c))
<1> DEFINE st == StOf(c, m, fs)
<1>1. /\ st \in Storage /\ st.master[c] = m /\ st.flow[c] = fs
      /\ \A d \in Conns \ {c} : st.master[d] = master[d] /\ st.flow[d] = flow[d]
  BY StOfProperties DEF UpdatesIn
<1> HIDE DEF st
<1>2. OthersReady(st, c)
  BY <1>1, OthersAreReady DEF UpdatesIn
<1>3. UpdateReady(st, c, ms)
  BY <1>1, <1>2 DEF UpdateReady, UpdatesIn
<1>4. Updated(st, c, ms, UpdateDesiredBw(st, c))
  BY <1>3, UpdateProperties
<1> QED BY <1>4 DEF st

LEMMA UpdateStep ==
  ASSUME IInv, NEW c \in Conns, NEW m, NEW fs, NEW ms, UpdatesIn(c, m, fs, ms),
         Becomes(UpdateDesiredBw(StOf(c, m, fs), c)), event' = NoEvent,
         UNCHANGED <<now, outstandingBytes, size>>
  PROVE  OthersStep(c) /\ SelfUpdated(m, fs, ms, master'[c], flow'[c])
<1> DEFINE st == StOf(c, m, fs)
           r == UpdateDesiredBw(st, c)
<1>1. /\ st \in Storage /\ st.master[c] = m /\ st.flow[c] = fs
      /\ \A d \in Conns \ {c} : st.master[d] = master[d] /\ st.flow[d] = flow[d]
  BY StOfProperties DEF UpdatesIn
<1>2. Updated(st, c, ms, r)
  BY UpdateReadied
<1>3. master' = r.master /\ flow' = r.flow
  BY DEF Becomes
<1> HIDE DEF st, r
<1>4. /\ master' \in [Conns -> MasterStorage] /\ flow' \in [Conns -> [Interfaces -> FlowStorage]]
  BY <1>2, <1>3, StorageTypes DEF Updated
<1>5. /\ \A d \in Conns \ {c} : OtherKept(master[d], flow[d], master'[d], flow'[d])
      /\ \A d \in Conns, j \in Interfaces : flow'[d][j].availableBw <= Bandwidth[j]
      /\ SharesFit(flow')
  BY <1>1, <1>2, <1>3 DEF Updated
<1>6. SelfUpdated(m, fs, ms, master'[c], flow'[c])
  BY <1>1, <1>2, <1>3 DEF Updated
<1> QED BY <1>4, <1>5, <1>6 DEF OthersStep

LEMMA MasterUpdated ==
  ASSUME NEW m \in MasterStorage, NEW fs, NEW ms, NEW r, NEW rs, SelfUpdated(m, fs, ms, r, rs),
         m.state \in {"IDLE", "BUSY"}, now \in Nat,
         m.state = "IDLE" => m.idleTimestamp + IdleTimeout >= now,
         FlowSum(m, rs) = m.availableBw => MasterOk(m)
  PROVE  /\ r \in MasterStorage /\ Whole(r, rs) /\ Carries(m, r)
         /\ \A j \in Interfaces : FlowKept(fs[j], rs[j])
         /\ (ms = "BUSY" => Ticking(m, fs)) => Ticking(r, rs)
<1> DEFINE y == [m EXCEPT !.desiredBw = Desired(m)]
<1>1. /\ Renewed(y, rs, r) /\ Agree(r, rs) /\ \A i \in ToSet(m.subflows) : RoundOk(m.state, rs[i])
      /\ \A j \in Interfaces : FlowKept(fs[j], rs[j])
      /\ (ms = "BUSY" => Ticking(m, fs)) => Ticking(m, rs)
  BY DEF SelfUpdated
<1>2. /\ y.state = m.state /\ y.interfaces = m.interfaces /\ y.subflows = m.subflows
      /\ y.transfers = m.transfers /\ y.outstandingTransferBytesSum = m.outstandingTransferBytesSum
      /\ y.transferredBytesSum = m.transferredBytesSum /\ y.availableBw = m.availableBw
      /\ y.nextEvent = m.nextEvent /\ y.idleTimestamp = m.idleTimestamp
      /\ y.currTransferFinishTime = m.currTransferFinishTime /\ y.lastBwUpdate = m.lastBwUpdate
      /\ y.lastBwUpdateTransferredBytesSum = m.lastBwUpdateTransferredBytesSum
  BY DEF MasterStorage
<1> HIDE DEF y
<1>3. FlowSum(y, rs) = FlowSum(m, rs)
  BY <1>2 DEF FlowSum
<1>4. Untouched(y, r) /\ r \in MasterStorage
  BY <1>1 DEF Renewed
<1>5. Carries(m, r) /\ r.idleTimestamp = m.idleTimestamp
  BY <1>2, <1>4 DEF Untouched, Carries
<1>6. MasterOk(r)
  <2>1. CASE FlowSum(m, rs) = m.availableBw
    <3>1. r = y
      BY <1>1, <1>2, <1>3, <2>1 DEF Renewed
    <3>2. MasterOk(y)
      BY <1>2, <2>1 DEF MasterOk, CapacityOk, DeadlineOk, Left, Since
    <3> QED BY <3>1, <3>2
  <2>2. CASE FlowSum(m, rs) # m.availableBw
    <3>1. Fresh(r)
      BY <1>1, <1>2, <1>3, <2>2 DEF Renewed
    <3> QED BY <1>5, <3>1 DEF Fresh, MasterOk, Carries
  <2> QED BY <2>1, <2>2
<1>7. Whole(r, rs)
  BY <1>1, <1>5, <1>6 DEF Whole, Carries
<1>8. Ticking(m, rs) => Ticking(r, rs)
  BY <1>5 DEF Ticking, Carries
<1> QED BY <1>1, <1>4, <1>5, <1>7, <1>8

LEMMA SelfRolls ==
  ASSUME NEW c \in Conns, Ticking(master'[c], flow'[c])
  PROVE  Rolls(c)'
BY DEF Ticking, Rolls, Flows

LEMMA TicksBefore ==
  ASSUME NEW c \in Conns, Rolls(c), event = NoEvent
  PROVE  Ticking(master[c], flow[c])
<1>1. \A i \in Flows(c) : event # <<c, i>>
  BY Constants DEF NoEvent
<1> QED BY <1>1, RollsIsTicking

\* What c has of its own, when it has been told its new shares.
LEMMA OthersAsBefore ==
  ASSUME NEW c \in Conns, OthersStep(c)
  PROVE  \A d \in Conns \ {c} : /\ master'[d].state = master[d].state
                                /\ master'[d].transfers = master[d].transfers
                                /\ Flows(d)' = Flows(d) /\ (d \in Open' <=> d \in Open)
                                /\ SumsKept(d)
<1> SUFFICES ASSUME NEW d \in Conns \ {c}
             PROVE  /\ master'[d].state = master[d].state
                    /\ master'[d].transfers = master[d].transfers
                    /\ Flows(d)' = Flows(d) /\ (d \in Open' <=> d \in Open)
                    /\ SumsKept(d)
  OBVIOUS
<1>1. /\ SumsKept(d) /\ master'[d].state = master[d].state
      /\ master'[d].transfers = master[d].transfers /\ master'[d].subflows = master[d].subflows
  BY OthersKeepSums
<1> QED BY <1>1 DEF Open, Flows

LEMMA SumOfAny ==
  ASSUME IInv, NEW c \in Conns
  PROVE  SumOk(master[c], flow[c])
<1>1. /\ master[c] \in MasterStorage /\ flow[c] \in [Interfaces -> FlowStorage]
      /\ ShapeOk(master[c], flow[c])
      /\ \A i \in Interfaces : flow[c][i].availableBw <= Bandwidth[i]
      /\ \A i \in ToSet(master[c].subflows) : WishOk(master[c].state, flow[c][i])
  BY Types, SubflowFacts DEF Agree, Flows
<1> QED BY <1>1, SumOfFlows DEF WishOk

LEMMA AddTransferInv ==
  ASSUME IInv, NEW c \in Conns, NEW t \in Transfers, AddTransfer(c, t)
  PROVE  StepInv
<1> DEFINE pipe == master[c].transfers
           longer == Append(pipe, t)
           more == master[c].outstandingTransferBytesSum + outstandingBytes[t]
           m == [master[c] EXCEPT !.state = "BUSY", !.transfers = longer,
                                  !.outstandingTransferBytesSum = more]
           fs == flow[c]
           ms == master[c].state
<1>1. /\ event = NoEvent /\ ms \in {"IDLE", "BUSY"} /\ tState[t] = "ENABLED"
      /\ Becomes(UpdateDesiredBw(
           [St EXCEPT !.master[c].state = "BUSY", !.master[c].transfers = Append(@, t),
                      !.master[c].outstandingTransferBytesSum = @ + outstandingBytes[t]], c))
      /\ tState' = [tState EXCEPT ![t] = IF master[c].state = "IDLE" THEN "ACTIVE" ELSE "ENQUEUED"]
      /\ tConn' = [tConn EXCEPT ![t] = c]
      /\ event' = NoEvent /\ UNCHANGED <<now, event, connections, outstandingBytes, size>>
  BY DEF AddTransfer
<1>2. /\ master \in [Conns -> MasterStorage] /\ flow \in [Conns -> [Interfaces -> FlowStorage]]
      /\ master[c] \in MasterStorage /\ fs \in [Interfaces -> FlowStorage] /\ now \in Nat
      /\ pipe \in Seq(Transfers) /\ IsInjective(pipe)
      /\ outstandingBytes[t] \in Nat /\ Typed(master[c])
      /\ outstandingBytes \in [Transfers -> Nat] /\ connections \in [Interfaces -> Seq(Conns)]
  BY Types
<1>3. /\ Whole(master[c], fs) /\ c \in Open
      /\ \A d \in Conns : Untroubled(d)
  BY <1>1, Undisturbed DEF Untroubled, Open
<1>4. /\ longer \in Seq(Transfers) /\ longer # <<>> /\ more \in Nat
      /\ Head(longer) = (IF pipe = <<>> THEN t ELSE Head(pipe)) /\ Head(longer) \in Transfers
  <2>1. t \notin ToSet(pipe)
    <3>1. tConn[t] = None /\ None \notin Conns
      BY <1>1, Constants DEF IInv, PipelinesOk
    <3> QED BY <3>1 DEF IInv, PipelinesOk
  <2>2. /\ longer \in Seq(Transfers) /\ longer # <<>>
        /\ Head(longer) = IF pipe = <<>> THEN t ELSE Head(pipe)
    <3> HIDE DEF pipe
    <3>1. pipe \in Seq(Transfers) /\ IsInjective(pipe)
      BY <1>2
    <3>2. longer \in Seq(Transfers) /\ longer # <<>>
      BY <2>1, <3>1, AppendToInjective
    <3>3. pipe = <<>> => longer = <<t>>
      OBVIOUS
    <3>4. pipe # <<>> => Head(longer) = Head(pipe)
      BY <3>1
    <3> QED BY <3>2, <3>3, <3>4
  <2>3. Head(longer) \in Transfers
    <3> HIDE DEF longer
    <3> QED BY <2>2
  <2> QED BY <1>2, <2>2, <2>3, Types
<1>5. [St EXCEPT !.master[c].state = "BUSY", !.master[c].transfers = Append(@, t),
                 !.master[c].outstandingTransferBytesSum = @ + outstandingBytes[t]]
        = StOf(c, m, fs)
  <2>1. [St EXCEPT !.master[c].state = "BUSY", !.master[c].transfers = Append(@, t),
                   !.master[c].outstandingTransferBytesSum = @ + outstandingBytes[t]]
          = [St EXCEPT !.master = [master EXCEPT ![c] = m]]
    BY <1>2 DEF St
  <2>2. flow = [flow EXCEPT ![c] = fs]
    BY <1>2
  <2> QED BY <2>1, <2>2 DEF StOf, St
<1> HIDE DEF longer, more
<1>6. /\ m \in MasterStorage /\ m.state = "BUSY" /\ m.transfers = longer
      /\ m.outstandingTransferBytesSum = more
      /\ m.interfaces = master[c].interfaces /\ m.subflows = master[c].subflows
      /\ m.transferredBytesSum = master[c].transferredBytesSum
      /\ m.availableBw = master[c].availableBw /\ m.desiredBw = master[c].desiredBw
      /\ m.bwUpdateInProgress = master[c].bwUpdateInProgress
      /\ m.nextEvent = master[c].nextEvent /\ m.lastBwUpdate = master[c].lastBwUpdate
      /\ m.currTransferFinishTime = master[c].currTransferFinishTime
      /\ m.lastBwUpdateTransferredBytesSum = master[c].lastBwUpdateTransferredBytesSum
  BY <1>2, <1>4 DEF MasterStorage
<1> HIDE DEF m
<1>7. Typed(m) /\ ShapeOk(m, fs) /\ m.availableBw = FlowSum(m, fs) /\ ~m.bwUpdateInProgress
  <2>1. Left(m) \in Nat
    BY <1>2, <1>4, <1>6 DEF Left
  <2>2. Agree(master[c], fs)
    BY <1>3 DEF Whole
  <2>3. ShapeOk(m, fs)
    BY <1>1, <1>6, <2>2 DEF Agree, ShapeOk
  <2>4. m.availableBw = FlowSum(m, fs) /\ ~m.bwUpdateInProgress
    BY <1>6, <2>2 DEF Agree, FlowSum
  <2> QED BY <1>2, <1>6, <2>1, <2>3, <2>4 DEF Typed
<1>8. UpdatesIn(c, m, fs, ms)
  <2>1. /\ \A i \in Interfaces : WindowOk(fs[i])
        /\ \A i \in ToSet(m.subflows) : FlowOk(ms, fs[i])
        /\ m.desiredBw > 0 <=> ms = "BUSY"
    BY <1>3, <1>6 DEF Whole, Agree, FlowOk
  <2>2. \A i \in ToSet(m.subflows) : fs[i].ssState # "NEW" => c \in ToSet(connections[i])
    BY <1>3, <1>6, SubflowFacts DEF Flows
  <2>3. Updates(m, fs, ms)
    BY <1>1, <1>6, <1>7, <2>1 DEF Updates
  <2> QED BY <1>2, <1>3, <1>6, <2>2, <2>3 DEF UpdatesIn
<1>9. OthersStep(c) /\ SelfUpdated(m, fs, ms, master'[c], flow'[c])
  BY <1>1, <1>5, <1>8, UpdateStep
<1>10. FlowSum(m, flow'[c]) = m.availableBw => MasterOk(m)
  <2>1. CASE ms = "BUSY"
    <3>1. pipe # <<>>
      BY <2>1 DEF IInv, PipelinesOk
    <3>2. Left(m) = Left(master[c]) /\ Since(m) = Since(master[c])
      BY <1>4, <1>6, <3>1 DEF Left, Since
    <3>3. CapacityOk(master[c]) /\ DeadlineOk(master[c])
      BY <1>3, <2>1 DEF Whole, MasterOk
    <3>4. CapacityOk(m) /\ DeadlineOk(m)
      BY <1>6, <3>2, <3>3 DEF CapacityOk, DeadlineOk
    <3> QED BY <1>6, <3>4 DEF MasterOk
  <2>2. CASE ms = "IDLE"
    <3> DEFINE first == Head(m.interfaces)
               y == [m EXCEPT !.desiredBw = Desired(m)]
    <3>1. master[c].availableBw = 0
      <4>1. FlowSum(master[c], fs) = 0
        BY <2>2, SumOfAny DEF SumOk
      <4> QED BY <1>3, <4>1 DEF Whole, Agree
    <3>2. first \in Interfaces /\ fs[first].ssState # "NEW"
      <4>1. ShapeOk(master[c], fs)
        BY <1>3 DEF Whole, Agree
      <4>2. m.interfaces \in Paths
        BY <1>6, <1>7 DEF ShapeOk
      <4> QED BY <1>6, <2>2, <4>1, <4>2, PathProperties DEF ShapeOk
    <3>3. flow'[c][first].ssState # "NEW"
      BY <1>9, <3>2 DEF SelfUpdated, FlowKept
    <3>4. y.state = "BUSY" /\ y.interfaces = m.interfaces /\ y.subflows = m.subflows
      BY <1>6 DEF MasterStorage
    <3>5. SumOk(y, flow'[c])
      BY <1>9 DEF SelfUpdated
    <3> HIDE DEF y
    <3>6. FlowSum(y, flow'[c]) > 0
      BY <3>3, <3>4, <3>5 DEF SumOk
    <3>7. FlowSum(y, flow'[c]) = FlowSum(m, flow'[c])
      BY <3>4 DEF FlowSum
    <3> QED BY <1>6, <3>1, <3>6, <3>7
  <2> QED BY <1>1, <2>1, <2>2
<1>11. /\ Whole(master'[c], flow'[c]) /\ Carries(m, master'[c])
       /\ \A j \in Interfaces : FlowKept(fs[j], flow'[c][j])
       /\ (ms = "BUSY" => Ticking(m, fs)) => Ticking(master'[c], flow'[c])
  BY <1>2, <1>6, <1>9, <1>10, MasterUpdated
<1>12. StepDone
  BY <1>9, <1>11, StepOk
<1>13. \A d \in Conns \ {c} : /\ master'[d].state = master[d].state
                              /\ master'[d].transfers = master[d].transfers
                              /\ Flows(d)' = Flows(d) /\ (d \in Open' <=> d \in Open)
                              /\ SumsKept(d)
  BY <1>9, OthersAsBefore
<1>14. /\ master'[c].state = "BUSY" /\ master'[c].transfers = longer
       /\ master'[c].outstandingTransferBytesSum = more
       /\ master'[c].transferredBytesSum = master[c].transferredBytesSum
       /\ Flows(c)' = Flows(c) /\ c \in Open'
  BY <1>6, <1>11 DEF Carries, Flows, Open
<1>15. Sends(c, t)
  <2>1. ms = "IDLE" <=> pipe = <<>>
    BY <1>1 DEF IInv, PipelinesOk
  <2> QED BY <1>1, <1>13, <1>14, <2>1 DEF Sends, longer
<1>16. /\ PipelinesOk' /\ BytesOk' /\ PipesStep
       /\ tConn' \in [Transfers -> Conns \cup {None}]
       /\ tState' \in [Transfers -> {"ENABLED", "ENQUEUED", "ACTIVE", "FINISHED"}]
  BY <1>15, SentPipelines
<1>17. BytesConserved'
  <2>1. \A j \in Interfaces : flow'[c][j].transferredBytesSum = flow[c][j].transferredBytesSum
    BY <1>11 DEF FlowKept
  <2> QED BY <1>13, <1>14, <1>15, <2>1, SentBytes DEF more
<1>18. Listed'
  BY <1>1, <1>3, <1>13, <1>14, ListedKept DEF IInv
<1>19. IInv'
  BY <1>1, <1>2, <1>12, <1>16, <1>17, <1>18, AllOk
<1>20. Rolls(c) => Rolls(c)'
  <2> SUFFICES ASSUME Rolls(c) PROVE Rolls(c)'
    OBVIOUS
  <2>1. Ticking(master[c], fs)
    BY <1>1, TicksBefore
  <2>2. ms = "BUSY" => Ticking(m, fs)
    BY <1>6, <2>1 DEF Ticking
  <2> QED BY <1>11, <2>2, SelfRolls
<1>21. \A d \in Conns \ {c} : Rolls(d) => Rolls(d)'
  BY <1>3, <1>9, OthersRoll
<1> QED BY <1>16, <1>19, <1>20, <1>21 DEF StepInv

\* A connection that has not been connected has no sums, and no subflows.
LEMMA Unconnected ==
  ASSUME IInv, NEW c \in Conns, master[c].state = "NONE"
  PROVE  /\ master[c].outstandingTransferBytesSum = 0 /\ master[c].transferredBytesSum = 0
         /\ master[c].transfers = <<>> /\ c \notin Open
         /\ \A i \in Interfaces : flow[c][i] = NewFlow /\ c \notin ToSet(connections[i])
<1>1. \A t \in Transfers : tConn[t] # c
  BY DEF IInv, PipelinesOk
<1>2. On(c) = {}
  BY <1>1 DEF On
<1>3. SumsOk(c)
  BY SumsAreConserved DEF IInv
<1>4. master[c].outstandingTransferBytesSum = 0 /\ master[c].transferredBytesSum = 0
  BY <1>2, <1>3, SumOfNothing DEF SumsOk
<1>5. master[c].transfers = <<>>
  BY DEF IInv, PipelinesOk
<1>6. c \notin Open
  BY DEF Open
<1>7. ShapeOk(master[c], flow[c]) /\ \A i \in Interfaces : c \notin ToSet(connections[i])
  BY <1>6, SubflowFacts DEF Agree
<1>8. \A i \in Interfaces : flow[c][i] = NewFlow
  BY <1>7 DEF ShapeOk, ToSet
<1> QED BY <1>4, <1>5, <1>6, <1>7, <1>8

\* The subflow that Connect and HandshakeDone connect.
LEMMA ConnectedProperties ==
  ASSUME now \in Nat, NEW i \in Interfaces, NEW round \in Nat \ {0}
  PROVE  LET f == Connected(i, round)
         IN  /\ f \in FlowStorage /\ f.ssState = "NEW" /\ f.state = "IDLE" /\ f.cwnd = InitialCwnd
             /\ f.availableBw = 0 /\ f.desiredBw = 0 /\ f.transferredBytesSum = 0
             /\ f.nextEvent \in Nat /\ f.nextEvent >= now /\ f.nextEvent # None
             /\ WindowOk(f)
<1> DEFINE f == Connected(i, round)
           n == now + round * RTT[i]
<1>1. n \in Nat /\ n >= now /\ n # None
  <2>1. round * RTT[i] \in Nat
    BY Constants
  <2> QED BY <2>1, Constants
<1> HIDE DEF n
<1>2. InitialCwnd \in Nat
  BY Constants
<1>3. f = [NewFlow EXCEPT !.state = "IDLE", !.nextEvent = n]
  BY DEF Connected, n
<1>4. NewFlow \in FlowStorage
  BY NewStorage
<1> HIDE DEF f
<1>5. f \in FlowStorage
  BY <1>1, <1>3, <1>4 DEF FlowStorage
<1>6. /\ f.ssState = "NEW" /\ f.state = "IDLE" /\ f.cwnd = InitialCwnd /\ f.availableBw = 0
      /\ f.desiredBw = 0 /\ f.transferredBytesSum = 0 /\ f.nextEvent = n
  BY <1>3 DEF NewFlow
<1>7. WindowOk(f)
  BY <1>2, <1>6 DEF WindowOk
<1> QED BY <1>1, <1>5, <1>6, <1>7 DEF f

LEMMA ConnectInv ==
  ASSUME IInv, NEW c \in Conns, NEW t \in Transfers, Connect(c, t)
  PROVE  StepInv
<1>0. PICK path \in Paths : \E round \in Handshakes :
        LET i == Head(path)
            m == [NewMaster EXCEPT !.state = "BUSY", !.interfaces = path, !.subflows = <<i>>,
                                   !.transfers = <<t>>,
                                   !.outstandingTransferBytesSum = outstandingBytes[t]]
        IN  /\ connections' = [connections EXCEPT ![i] = Append(@, c)]
            /\ Becomes(UpdateDesiredBw([master |-> [master EXCEPT ![c] = m],
                                        flow |-> [flow EXCEPT ![c][i] = Connected(i, round)]], c))
  BY DEF Connect
<1> DEFINE i == Head(path)
           m == [NewMaster EXCEPT !.state = "BUSY", !.interfaces = path, !.subflows = <<i>>,
                                  !.transfers = <<t>>,
                                  !.outstandingTransferBytesSum = outstandingBytes[t]]
<1>1. PICK round \in Handshakes :
        /\ connections' = [connections EXCEPT ![i] = Append(@, c)]
        /\ Becomes(UpdateDesiredBw([master |-> [master EXCEPT ![c] = m],
                                    flow |-> [flow EXCEPT ![c][i] = Connected(i, round)]], c))
  BY <1>0
<1> DEFINE f == Connected(i, round)
           fs == [flow[c] EXCEPT ![i] = f]
<1>2. /\ event = NoEvent /\ event' = NoEvent /\ master[c].state = "NONE" /\ tState[t] = "ENABLED"
      /\ tState' = [tState EXCEPT ![t] = "ACTIVE"] /\ tConn' = [tConn EXCEPT ![t] = c]
      /\ UNCHANGED <<now, event, outstandingBytes, size>>
  BY DEF Connect
<1>3. /\ master \in [Conns -> MasterStorage] /\ flow \in [Conns -> [Interfaces -> FlowStorage]]
      /\ flow[c] \in [Interfaces -> FlowStorage] /\ now \in Nat
      /\ outstandingBytes[t] \in Nat \ {0} /\ connections \in [Interfaces -> Seq(Conns)]
      /\ \A j \in Interfaces : Bandwidth[j] \in Nat
  <2>1. outstandingBytes[t] = size[t]
    BY <1>2 DEF IInv, BytesOk
  <2> QED BY <2>1, Types, Constants
<1>4. /\ path \in Seq(Interfaces) /\ i \in Interfaces /\ i \in ToSet(path)
  BY PathProperties
<1>5. /\ f \in FlowStorage /\ f.ssState = "NEW" /\ f.state = "IDLE"
      /\ f.availableBw = 0 /\ f.desiredBw = 0 /\ f.transferredBytesSum = 0
      /\ f.nextEvent \in Nat /\ f.nextEvent >= now /\ f.nextEvent # None /\ WindowOk(f)
  <2>1. round \in Nat \ {0}
    BY Constants
  <2> QED BY <1>3, <1>4, <2>1, ConnectedProperties
<1>6. /\ master[c].outstandingTransferBytesSum = 0 /\ master[c].transferredBytesSum = 0
      /\ master[c].transfers = <<>> /\ c \notin Open
      /\ \A j \in Interfaces : flow[c][j] = NewFlow /\ c \notin ToSet(connections[j])
  BY <1>2, Unconnected
<1>7. /\ m \in MasterStorage /\ m.state = "BUSY" /\ m.interfaces = path /\ m.subflows = <<i>>
      /\ m.transfers = <<t>> /\ m.outstandingTransferBytesSum = outstandingBytes[t]
      /\ m.transferredBytesSum = 0 /\ m.availableBw = 0 /\ m.desiredBw = 0
      /\ ~m.bwUpdateInProgress /\ m.nextEvent = None /\ m.currTransferFinishTime = None
      /\ m.lastBwUpdate = 0 /\ m.lastBwUpdateTransferredBytesSum = 0
  <2>1. NewMaster \in MasterStorage
    BY NewStorage
  <2>2. <<i>> \in Seq(Interfaces) /\ <<t>> \in Seq(Transfers)
    BY <1>4
  <2>3. m \in MasterStorage
    <3> HIDE DEF i
    <3> QED BY <1>3, <2>1, <2>2 DEF MasterStorage
  <2>4. /\ m.state = "BUSY" /\ m.interfaces = path /\ m.subflows = <<i>> /\ m.transfers = <<t>>
        /\ m.outstandingTransferBytesSum = outstandingBytes[t]
        /\ m.transferredBytesSum = 0 /\ m.availableBw = 0 /\ m.desiredBw = 0
        /\ ~m.bwUpdateInProgress /\ m.nextEvent = None /\ m.currTransferFinishTime = None
        /\ m.lastBwUpdate = 0 /\ m.lastBwUpdateTransferredBytesSum = 0
    BY DEF NewMaster
  <2> QED BY <2>3, <2>4
<1>8. [master |-> [master EXCEPT ![c] = m], flow |-> [flow EXCEPT ![c][i] = Connected(i, round)]]
        = StOf(c, m, fs)
  BY <1>3 DEF StOf
<1>9. Becomes(UpdateDesiredBw(StOf(c, m, fs), c))
  BY <1>1, <1>8
<1>10. /\ connections'[i] = Append(connections[i], c)
       /\ \A j \in Interfaces \ {i} : connections'[j] = connections[j]
       /\ connections' = [connections EXCEPT ![i] = Append(connections[i], c)]
  BY <1>1, <1>3, <1>4
<1> HIDE DEF m, f, i
<1>11. /\ fs \in [Interfaces -> FlowStorage] /\ fs[i] = f
       /\ \A j \in Interfaces \ {i} : fs[j] = NewFlow
  BY <1>3, <1>4, <1>5, <1>6
<1> HIDE DEF fs
<1>12. ToSet(m.subflows) = {i}
  BY <1>7 DEF ToSet
<1>13. /\ \A j \in Interfaces : fs[j].availableBw = 0 /\ flow[c][j].availableBw = 0
       /\ \A j \in Interfaces : fs[j].transferredBytesSum = flow[c][j].transferredBytesSum
       /\ \A j \in Interfaces : WindowOk(fs[j])
  <2>1. NewFlow.availableBw = 0 /\ NewFlow.transferredBytesSum = 0 /\ WindowOk(NewFlow)
    BY NewStorage DEF NewFlow
  <2> QED BY <1>5, <1>6, <1>11, <2>1
<1>14. ShapeOk(m, fs)
  BY <1>4, <1>5, <1>7, <1>11, <1>12 DEF ShapeOk, i
<1>15. FlowOk("IDLE", fs[i])
  BY <1>5, <1>11 DEF FlowOk, WishOk, StateOk, RoundOk, Rounds, Progresses
<1>16. m.availableBw = FlowSum(m, fs)
  <2>1. SumOk(m, fs)
    <3>1. \A j \in Interfaces : fs[j].availableBw <= Bandwidth[j]
      BY <1>3, <1>13
    <3>2. \A j \in ToSet(m.subflows) : fs[j].availableBw > 0 <=> Progresses(m.state, fs[j])
      BY <1>5, <1>11, <1>12 DEF Progresses
    <3> QED BY <1>7, <1>11, <1>14, <3>1, <3>2, SumOfFlows
  <2>2. fs[Head(m.interfaces)].ssState = "NEW"
    BY <1>5, <1>7, <1>11 DEF i
  <2>3. FlowSum(m, fs) \in Nat /\ ~(FlowSum(m, fs) > 0)
    BY <1>7, <2>1, <2>2, SumOfBandwidths DEF SumOk
  <2> QED BY <1>7, <2>3
<1>17. UpdatesIn(c, m, fs, "IDLE")
  <2>1. Left(m) = outstandingBytes[t]
    BY <1>7 DEF Left
  <2>2. Updates(m, fs, "IDLE")
    BY <1>3, <1>7, <1>12, <1>13, <1>14, <1>15, <1>16, <2>1 DEF Updates, Typed
  <2>3. \A d \in Conns : Untroubled(d)
    BY <1>2 DEF Untroubled
  <2> QED BY <1>5, <1>7, <1>11, <1>12, <1>13, <2>2, <2>3 DEF UpdatesIn
<1>18. OthersStep(c) /\ SelfUpdated(m, fs, "IDLE", master'[c], flow'[c])
  BY <1>2, <1>9, <1>17, UpdateStep
<1>19. MasterOk(m)
  <2>1. Left(m) = outstandingBytes[t] /\ Since(m) = 0
    BY <1>7 DEF Left, Since
  <2>2. CapacityOk(m)
    <3>1. 0 * Second = 0 /\ 0 * (now - 0) = 0
      BY <1>3, Constants
    <3> QED BY <1>3, <1>7, <2>1, <3>1 DEF CapacityOk
  <2>3. DeadlineOk(m)
    BY <1>3, <1>7, <2>1 DEF DeadlineOk
  <2> QED BY <1>7, <2>2, <2>3 DEF MasterOk
<1>20. /\ Whole(master'[c], flow'[c]) /\ Carries(m, master'[c])
       /\ \A j \in Interfaces : FlowKept(fs[j], flow'[c][j])
       /\ Ticking(master'[c], flow'[c])
  <2>1. Ticking(m, fs)
    BY <1>5, <1>11, <1>12 DEF Ticking
  <2> QED BY <1>3, <1>7, <1>18, <1>19, <2>1, MasterUpdated
<1>21. StepDone
  BY <1>18, <1>20, StepOk
<1>22. \A d \in Conns \ {c} : /\ master'[d].state = master[d].state
                              /\ master'[d].transfers = master[d].transfers
                              /\ Flows(d)' = Flows(d) /\ (d \in Open' <=> d \in Open)
                              /\ SumsKept(d)
  BY <1>18, OthersAsBefore
<1>23. /\ master'[c].state = "BUSY" /\ master'[c].transfers = <<t>>
       /\ master'[c].outstandingTransferBytesSum = outstandingBytes[t]
       /\ master'[c].transferredBytesSum = 0 /\ Flows(c)' = {i} /\ c \in Open'
  BY <1>7, <1>12, <1>20 DEF Carries, Flows, Open
<1>24. Sends(c, t)
  <2>1. <<t>> = Append(<<>>, t)
    OBVIOUS
  <2> QED BY <1>2, <1>6, <1>22, <1>23, <2>1 DEF Sends
<1>25. /\ PipelinesOk' /\ BytesOk' /\ PipesStep
       /\ tConn' \in [Transfers -> Conns \cup {None}]
       /\ tState' \in [Transfers -> {"ENABLED", "ENQUEUED", "ACTIVE", "FINISHED"}]
  BY <1>24, SentPipelines
<1>26. BytesConserved'
  <2>1. \A j \in Interfaces : flow'[c][j].transferredBytesSum = flow[c][j].transferredBytesSum
    BY <1>13, <1>20 DEF FlowKept
  <2>2. /\ master'[c].outstandingTransferBytesSum
             = master[c].outstandingTransferBytesSum + outstandingBytes[t]
        /\ master'[c].transferredBytesSum = master[c].transferredBytesSum
    BY <1>3, <1>6, <1>23
  <2> QED BY <1>22, <1>24, <2>1, <2>2, SentBytes
<1>27. connections' \in [Interfaces -> Seq(Conns)]
  BY <1>3, <1>10
<1>28. Listed'
  <2> SUFFICES ASSUME NEW j \in Interfaces
               PROVE  IsInjective(connections'[j])
                      /\ ToSet(connections'[j]) = {d \in Open' : j \in Flows(d)'}
    BY DEF Listed
  <2>1. /\ connections[j] \in Seq(Conns) /\ IsInjective(connections[j])
        /\ ToSet(connections[j]) = {d \in Open : j \in Flows(d)}
    BY <1>3 DEF IInv, Listed
  <2>2. \A d \in Conns : d \in Open' <=> d \in Open \/ d = c
    BY <1>22, <1>23
  <2>3. Open' \subseteq Conns /\ Open \subseteq Conns
    BY DEF Open
  <2>4. CASE j = i
    <3>1. /\ IsInjective(connections'[j])
          /\ ToSet(connections'[j]) = ToSet(connections[j]) \cup {c}
      BY <1>6, <1>10, <2>1, <2>4, AppendToInjective
    <3> QED BY <1>6, <1>22, <1>23, <2>1, <2>2, <2>3, <2>4, <3>1
  <2>5. CASE j # i
    <3>1. connections'[j] = connections[j]
      BY <1>10, <2>5
    <3> QED BY <1>6, <1>22, <1>23, <2>1, <2>2, <2>3, <2>5, <3>1
  <2> QED BY <2>4, <2>5
<1>29. IInv'
  BY <1>21, <1>25, <1>26, <1>27, <1>28, AllOk
<1>30. Rolls(c)'
  BY <1>20, SelfRolls
<1>31. \A d \in Conns \ {c} : Rolls(d) => Rolls(d)'
  <2>1. \A d \in Conns : Untroubled(d)
    BY <1>2 DEF Untroubled
  <2> QED BY <1>18, <2>1, OthersRoll
<1> QED BY <1>25, <1>29, <1>30, <1>31 DEF StepInv

-----------------------------------------------------------------------------
(* The handlers of the event of a connection *)

LEMMA EventOfMaster ==
  ASSUME IInv, NEW c \in Conns, event = <<c, None>>
  PROVE  /\ \A d \in Conns \ {c} : Untroubled(d)
         /\ HandledOk(master[c]) /\ c \in Open /\ Agree(master[c], flow[c])
         /\ \A i \in Flows(c) : RoundOk(master[c].state, flow[c][i]) /\ event # <<c, i>>
         /\ Rolls(c) => Ticking(master[c], flow[c])
<1>1. \A d \in Conns \ {c} : Untroubled(d)
  BY DEF Untroubled
<1>2. \A i \in Flows(c) : i \in Interfaces /\ event # <<c, i>>
  BY SubflowFacts, Constants
<1>3. event # NoEvent
  BY Constants DEF NoEvent
<1>4. c \in Open /\ ConnOk(c)
  BY <1>3 DEF IInv, EventOk
<1>5. /\ Agree(master[c], flow[c]) /\ HandledOk(master[c])
      /\ \A i \in Flows(c) : RoundOk(master[c].state, flow[c][i])
  BY <1>2, <1>4 DEF ConnOk
<1>6. Rolls(c) => Ticking(master[c], flow[c])
  BY <1>2, RollsIsTicking
<1> QED BY <1>1, <1>2, <1>4, <1>5, <1>6

LEMMA DoneFacts ==
  ASSUME IInv, NEW c \in Conns, TransferDone(c)
  PROVE  /\ Done(c) /\ DoneOk(master[c]) /\ master[c].availableBw > 0
         /\ flow[c][Head(master[c].interfaces)].ssState # "NEW"
         /\ \A i \in Flows(c) : FlowOk("BUSY", flow[c][i])
<1>1. event = <<c, None>> /\ master[c].state = "BUSY"
      /\ outstandingBytes[Head(master[c].transfers)] = 0
  BY DEF TransferDone
<1>2. /\ HandledOk(master[c]) /\ Agree(master[c], flow[c])
      /\ \A i \in Flows(c) : RoundOk("BUSY", flow[c][i])
  BY <1>1, EventOfMaster
<1>3. DoneOk(master[c]) /\ master[c].availableBw > 0
  BY <1>1, <1>2 DEF HandledOk, DoneOk
<1>4. Done(c)
  BY <1>1 DEF Done, IInv, PipelinesOk
<1>5. flow[c][Head(master[c].interfaces)].ssState # "NEW"
  BY <1>1, <1>2, <1>3, SumOfAny DEF Agree, SumOk
<1>6. \A i \in Flows(c) : FlowOk("BUSY", flow[c][i])
  BY <1>1, <1>2 DEF Agree, FlowOk, Flows
<1> QED BY <1>3, <1>4, <1>5, <1>6

LEMMA GoIdleInv ==
  ASSUME IInv, NEW c \in Conns, GoIdle(c)
  PROVE  StepInv
<1> DEFINE pipe == master[c].transfers
           h == Head(pipe)
           m == [master[c] EXCEPT !.state = "IDLE", !.transfers = <<>>, !.idleTimestamp = now]
           fs == flow[c]
<1>1. /\ TransferDone(c) /\ event = <<c, None>> /\ Len(pipe) = 1
      /\ Becomes(UpdateDesiredBw([St EXCEPT !.master[c].state = "IDLE",
                                            !.master[c].transfers = <<>>,
                                            !.master[c].idleTimestamp = now], c))
      /\ tState' = [tState EXCEPT ![h] = "FINISHED"]
      /\ event' = NoEvent /\ UNCHANGED <<now, connections, outstandingBytes, tConn, size>>
  BY DEF GoIdle, TransferDone
<1>2. /\ master \in [Conns -> MasterStorage] /\ flow \in [Conns -> [Interfaces -> FlowStorage]]
      /\ master[c] \in MasterStorage /\ fs \in [Interfaces -> FlowStorage] /\ now \in Nat
      /\ pipe \in Seq(Transfers) /\ IsInjective(pipe)
      /\ connections \in [Interfaces -> Seq(Conns)] /\ tConn \in [Transfers -> Conns \cup {None}]
      /\ tState \in [Transfers -> {"ENABLED", "ENQUEUED", "ACTIVE", "FINISHED"}]
  BY Types
<1>3. /\ Done(c) /\ DoneOk(master[c]) /\ master[c].availableBw > 0
      /\ fs[Head(master[c].interfaces)].ssState # "NEW"
      /\ \A i \in Flows(c) : FlowOk("BUSY", fs[i])
      /\ master[c].state = "BUSY" /\ pipe # <<>>
  BY <1>1, DoneFacts DEF Done
<1>4. /\ \A d \in Conns \ {c} : Untroubled(d)
      /\ c \in Open /\ Agree(master[c], fs)
  BY <1>1, EventOfMaster
<1>5. h \in Transfers /\ Tail(pipe) = <<>>
  <2> DEFINE rest == Tail(pipe)
  <2>1. rest \in Seq(Transfers) /\ Len(rest) = 0 /\ h \in Transfers
    BY <1>1, <1>2, <1>3, TailOfInjective
  <2> HIDE DEF rest
  <2>2. rest = <<>>
    BY <2>1
  <2> QED BY <2>1, <2>2 DEF rest
<1>6. [St EXCEPT !.master[c].state = "IDLE", !.master[c].transfers = <<>>,
                 !.master[c].idleTimestamp = now] = StOf(c, m, fs)
  <2>1. [St EXCEPT !.master[c].state = "IDLE", !.master[c].transfers = <<>>,
                   !.master[c].idleTimestamp = now] = [St EXCEPT !.master = [master EXCEPT ![c] = m]]
    BY <1>2 DEF St
  <2>2. flow = [flow EXCEPT ![c] = fs]
    BY <1>2
  <2> QED BY <2>1, <2>2 DEF StOf, St
<1>7. /\ m \in MasterStorage /\ m.state = "IDLE" /\ m.transfers = <<>> /\ m.idleTimestamp = now
      /\ m.interfaces = master[c].interfaces /\ m.subflows = master[c].subflows
      /\ m.outstandingTransferBytesSum = master[c].outstandingTransferBytesSum
      /\ m.transferredBytesSum = master[c].transferredBytesSum
      /\ m.availableBw = master[c].availableBw /\ m.desiredBw = master[c].desiredBw
      /\ m.bwUpdateInProgress = master[c].bwUpdateInProgress
  <2>1. <<>> \in Seq(Transfers)
    OBVIOUS
  <2> QED BY <1>2, <2>1 DEF MasterStorage
<1> HIDE DEF m
<1>8. UpdatesIn(c, m, fs, "BUSY")
  <2>1. ShapeOk(m, fs)
    BY <1>3, <1>4, <1>7 DEF Agree, ShapeOk
  <2>2. m.availableBw = FlowSum(m, fs) /\ ~m.bwUpdateInProgress /\ m.desiredBw > 0
    BY <1>3, <1>4, <1>7 DEF Agree, FlowSum
  <2>3. /\ \A i \in Interfaces : WindowOk(fs[i])
        /\ \A i \in ToSet(m.subflows) : FlowOk("BUSY", fs[i])
    BY <1>3, <1>4, <1>7 DEF Agree, Flows
  <2>4. \A i \in ToSet(m.subflows) : fs[i].ssState # "NEW" => c \in ToSet(connections[i])
    BY <1>4, <1>7, SubflowFacts DEF Flows
  <2>5. Updates(m, fs, "BUSY")
    BY <1>2, <1>7, <2>1, <2>2, <2>3 DEF Updates, Typed
  <2> QED BY <1>2, <1>4, <1>7, <2>4, <2>5 DEF UpdatesIn
<1>9. OthersStep(c) /\ SelfUpdated(m, fs, "BUSY", master'[c], flow'[c])
  BY <1>1, <1>6, <1>8, UpdateStep
<1>10. FlowSum(m, flow'[c]) # m.availableBw
  <2> DEFINE y == [m EXCEPT !.desiredBw = Desired(m)]
  <2>1. y.state = "IDLE" /\ y.subflows = m.subflows /\ SumOk(y, flow'[c])
    BY <1>7, <1>9 DEF MasterStorage, SelfUpdated
  <2> HIDE DEF y
  <2>2. FlowSum(y, flow'[c]) = 0 /\ FlowSum(m, flow'[c]) = FlowSum(y, flow'[c])
    BY <2>1 DEF SumOk, FlowSum
  <2> QED BY <1>3, <1>7, <2>2
<1>11. /\ Whole(master'[c], flow'[c]) /\ Carries(m, master'[c])
       /\ \A j \in Interfaces : FlowKept(fs[j], flow'[c][j])
       /\ ("BUSY" = "BUSY" => Ticking(m, fs)) => Ticking(master'[c], flow'[c])
  <2>1. now + IdleTimeout >= now
    BY <1>2, Constants
  <2> QED BY <1>2, <1>7, <1>9, <1>10, <2>1, MasterUpdated
<1>12. StepDone
  BY <1>9, <1>11, StepOk
<1>13. \A d \in Conns \ {c} : /\ master'[d].state = master[d].state
                              /\ master'[d].transfers = master[d].transfers
                              /\ Flows(d)' = Flows(d) /\ (d \in Open' <=> d \in Open)
                              /\ SumsKept(d)
  BY <1>9, OthersAsBefore
<1>14. /\ master'[c].state = "IDLE" /\ master'[c].transfers = <<>>
       /\ Flows(c)' = Flows(c) /\ c \in Open' /\ SumsKept(c)
  BY <1>7, <1>11 DEF Carries, Flows, Open, SumsKept, FlowKept
<1>15. Serves(c)
  <2>1. /\ tState'[h] = "FINISHED" /\ \A u \in Transfers \ {h} : tState'[u] = tState[u]
        /\ tState' \in [Transfers -> {"ENABLED", "ENQUEUED", "ACTIVE", "FINISHED"}]
    BY <1>1, <1>2, <1>5
  <2> QED BY <1>1, <1>3, <1>5, <1>13, <1>14, <2>1 DEF Serves
<1>16. PipelinesOk' /\ BytesOk' /\ PipesStep
  BY <1>15, ServedPipelines
<1>17. BytesConserved'
  BY <1>1, <1>13, <1>14, BytesKept DEF IInv
<1>18. Listed'
  BY <1>1, <1>4, <1>13, <1>14, ListedKept DEF IInv
<1>19. IInv'
  BY <1>1, <1>2, <1>12, <1>15, <1>16, <1>17, <1>18, AllOk DEF Serves
<1>20. Rolls(c)'
  BY <1>7, <1>11, SelfRolls DEF Ticking
<1>21. \A d \in Conns \ {c} : Rolls(d) => Rolls(d)'
  BY <1>4, <1>9, OthersRoll
<1> QED BY <1>16, <1>19, <1>20, <1>21 DEF StepInv

\* A deadline that is calculated once more.
LEMMA RescheduledToo ==
  ASSUME NEW m \in MasterStorage, NEW fs, NEW u, NEW rs, SelfUpdated(m, fs, "BUSY", u, rs),
         Typed(m), m.state = "BUSY", rs[Head(m.interfaces)].ssState # "NEW",
         m.lastBwUpdate <= now, Since(m) * Second = m.availableBw * (now - m.lastBwUpdate)
  PROVE  LET r == ScheduleNextEvent(u)
         IN  /\ r \in MasterStorage /\ Whole(r, rs) /\ Carries(m, r)
             /\ \A j \in Interfaces : FlowKept(fs[j], rs[j])
             /\ Ticking(m, fs) => Ticking(r, rs)
<1> DEFINE y == [m EXCEPT !.desiredBw = Desired(m)]
           r == ScheduleNextEvent(u)
<1>1. /\ Renewed(y, rs, u) /\ Agree(u, rs) /\ SumOk(y, rs)
      /\ \A i \in ToSet(m.subflows) : RoundOk(m.state, rs[i])
      /\ \A j \in Interfaces : FlowKept(fs[j], rs[j])
      /\ Ticking(m, fs) => Ticking(m, rs)
  BY DEF SelfUpdated
<1>2. /\ y.state = m.state /\ y.interfaces = m.interfaces /\ y.subflows = m.subflows
      /\ y.transfers = m.transfers /\ y.outstandingTransferBytesSum = m.outstandingTransferBytesSum
      /\ y.transferredBytesSum = m.transferredBytesSum /\ y.availableBw = m.availableBw
      /\ y.lastBwUpdate = m.lastBwUpdate
      /\ y.lastBwUpdateTransferredBytesSum = m.lastBwUpdateTransferredBytesSum
  BY DEF MasterStorage
<1> HIDE DEF y
<1>3. Untouched(y, u) /\ u \in MasterStorage /\ u.availableBw = FlowSum(y, rs)
  BY <1>1 DEF Renewed
<1>4. Carries(m, u)
  BY <1>2, <1>3 DEF Untouched, Carries
<1>5. u.availableBw > 0 /\ u.state = "BUSY"
  BY <1>1, <1>2, <1>3, <1>4 DEF SumOk, Carries
<1>6. Typed(u)
  BY <1>3, <1>4 DEF Typed, Left, Carries
<1>7. u.lastBwUpdate <= now /\ Since(u) * Second = u.availableBw * (now - u.lastBwUpdate)
  <2>1. CASE FlowSum(y, rs) = y.availableBw
    <3>1. u = y
      BY <1>1, <2>1 DEF Renewed
    <3> QED BY <1>2, <3>1 DEF Since
  <2>2. CASE FlowSum(y, rs) # y.availableBw
    <3>1. Since(u) = 0 /\ u.lastBwUpdate = now
      BY <1>1, <1>5, <2>2 DEF Renewed
    <3>2. now \in Nat /\ u.availableBw \in Int
      <4>1. u.availableBw \in 0 .. Sum(Bandwidth, Interfaces)
        BY <1>3 DEF MasterStorage
      <4> QED BY <1>6, <4>1, SumOfBandwidths DEF Typed
    <3>3. 0 * Second = 0 /\ u.availableBw * (now - now) = 0
      <4> DEFINE bw == u.availableBw
      <4>1. bw \in Int
        BY <3>2
      <4> HIDE DEF bw
      <4>2. now - now = 0 /\ bw * 0 = 0 /\ 0 * Second = 0
        BY <3>2, <4>1, Constants
      <4> QED BY <4>2 DEF bw
    <3> QED BY <3>1, <3>2, <3>3
  <2> QED BY <2>1, <2>2
<1>8. /\ r \in MasterStorage /\ Untouched(u, r) /\ Fresh(r) /\ r.availableBw = u.availableBw
  BY <1>5, <1>6, <1>7, ScheduleProperties
<1> HIDE DEF r
<1>9. Carries(m, r)
  BY <1>4, <1>8 DEF Carries, Untouched
<1>10. MasterOk(r)
  BY <1>5, <1>8 DEF MasterOk, Fresh, Untouched
<1>11. Agree(r, rs)
  BY <1>1, <1>8 DEF Agree, ShapeOk, FlowSum, Untouched
<1>12. Whole(r, rs)
  BY <1>1, <1>9, <1>10, <1>11 DEF Whole, Carries
<1>13. Ticking(m, rs) => Ticking(r, rs)
  BY <1>9 DEF Ticking, Carries
<1> QED BY <1>1, <1>8, <1>9, <1>12, <1>13 DEF r

LEMMA StartNextInv ==
  ASSUME IInv, NEW c \in Conns, StartNext(c)
  PROVE  StepInv
<1> DEFINE pipe == master[c].transfers
           h == Head(pipe)
           n == pipe[2]
           rest == Tail(pipe)
           m == [master[c] EXCEPT !.transfers = rest]
           fs == flow[c]
           u == UpdateDesiredBw(StOf(c, m, fs), c)
<1>1. /\ master \in [Conns -> MasterStorage] /\ flow \in [Conns -> [Interfaces -> FlowStorage]]
      /\ master[c] \in MasterStorage /\ fs \in [Interfaces -> FlowStorage] /\ now \in Nat
      /\ pipe \in Seq(Transfers) /\ IsInjective(pipe) /\ outstandingBytes \in [Transfers -> Nat]
      /\ connections \in [Interfaces -> Seq(Conns)] /\ tConn \in [Transfers -> Conns \cup {None}]
      /\ tState \in [Transfers -> {"ENABLED", "ENQUEUED", "ACTIVE", "FINISHED"}]
  BY Types
<1>2. [St EXCEPT !.master[c].transfers = Tail(@)] = StOf(c, m, fs)
  <2>1. [St EXCEPT !.master[c].transfers = Tail(@)] = [St EXCEPT !.master = [master EXCEPT ![c] = m]]
    BY <1>1 DEF St
  <2>2. flow = [flow EXCEPT ![c] = fs]
    BY <1>1
  <2> HIDE DEF m, fs
  <2>3. [St EXCEPT !.master = [master EXCEPT ![c] = m]]
          = [master |-> [master EXCEPT ![c] = m], flow |-> flow]
    BY DEF St
  <2> QED BY <2>1, <2>2, <2>3 DEF StOf
<1>3. /\ TransferDone(c) /\ event = <<c, None>> /\ Len(pipe) > 1
      /\ Becomes([u EXCEPT !.master[c] = ScheduleNextEvent(@)])
      /\ tState' = [tState EXCEPT ![h] = "FINISHED", ![n] = "ACTIVE"]
      /\ event' = NoEvent /\ UNCHANGED <<now, connections, outstandingBytes, tConn, size>>
  BY <1>2 DEF StartNext, TransferDone
<1>4. /\ Done(c) /\ DoneOk(master[c]) /\ fs[Head(master[c].interfaces)].ssState # "NEW"
      /\ \A i \in Flows(c) : FlowOk("BUSY", fs[i])
      /\ master[c].state = "BUSY" /\ pipe # <<>>
  BY <1>3, DoneFacts DEF Done
<1>5. /\ \A d \in Conns \ {c} : Untroubled(d)
      /\ c \in Open /\ Agree(master[c], fs) /\ (Rolls(c) => Ticking(master[c], fs))
  BY <1>3, EventOfMaster
<1>6. /\ rest \in Seq(Transfers) /\ IsInjective(rest) /\ h \in Transfers
      /\ h \notin ToSet(rest) /\ Len(rest) = Len(pipe) - 1
      /\ \A i \in 1 .. Len(rest) : rest[i] = pipe[i + 1]
  BY <1>1, <1>4, TailOfInjective
<1> HIDE DEF rest
<1>7. rest # <<>> /\ n = Head(rest) /\ Head(rest) \in Transfers /\ n # h
  <2>1. rest # <<>> /\ Len(rest) >= 1
    BY <1>1, <1>3, <1>6
  <2>2. Head(rest) \in ToSet(rest) /\ Head(rest) \in Transfers
    BY <1>6, <2>1, TailOfInjective
  <2>3. rest[1] = pipe[2]
    BY <1>6, <2>1
  <2> QED BY <1>6, <2>1, <2>2, <2>3
<1>8. /\ m \in MasterStorage /\ m.state = "BUSY" /\ m.transfers = rest
      /\ m.interfaces = master[c].interfaces /\ m.subflows = master[c].subflows
      /\ m.outstandingTransferBytesSum = master[c].outstandingTransferBytesSum
      /\ m.transferredBytesSum = master[c].transferredBytesSum
      /\ m.availableBw = master[c].availableBw /\ m.desiredBw = master[c].desiredBw
      /\ m.bwUpdateInProgress = master[c].bwUpdateInProgress
      /\ m.lastBwUpdate = master[c].lastBwUpdate
      /\ m.lastBwUpdateTransferredBytesSum = master[c].lastBwUpdateTransferredBytesSum
  BY <1>1, <1>4, <1>6 DEF MasterStorage
<1> HIDE DEF m
<1>9. Typed(m)
  BY <1>1, <1>7, <1>8 DEF Typed, Left
<1>10. UpdatesIn(c, m, fs, "BUSY")
  <2>1. ShapeOk(m, fs)
    BY <1>4, <1>5, <1>8 DEF Agree, ShapeOk
  <2>2. m.availableBw = FlowSum(m, fs) /\ ~m.bwUpdateInProgress /\ m.desiredBw > 0
    BY <1>4, <1>5, <1>8 DEF Agree, FlowSum
  <2>3. /\ \A i \in Interfaces : WindowOk(fs[i])
        /\ \A i \in ToSet(m.subflows) : FlowOk("BUSY", fs[i])
    BY <1>4, <1>5, <1>8 DEF Agree, Flows
  <2>4. \A i \in ToSet(m.subflows) : fs[i].ssState # "NEW" => c \in ToSet(connections[i])
    BY <1>5, <1>8, SubflowFacts DEF Flows
  <2>5. Updates(m, fs, "BUSY")
    BY <1>8, <1>9, <2>1, <2>2, <2>3 DEF Updates
  <2> QED BY <1>1, <1>5, <1>8, <2>4, <2>5 DEF UpdatesIn
<1>11. Updated(StOf(c, m, fs), c, "BUSY", u)
  BY <1>10, UpdateReadied
<1> DEFINE st == StOf(c, m, fs)
<1>12. /\ st.master[c] = m /\ st.flow[c] = fs
       /\ \A d \in Conns \ {c} : st.master[d] = master[d] /\ st.flow[d] = flow[d]
  BY <1>1, <1>8, StOfProperties
<1> HIDE DEF u, st
<1>13. /\ u \in Storage /\ SelfUpdated(m, fs, "BUSY", u.master[c], u.flow[c])
       /\ \A d \in Conns \ {c} : OtherKept(master[d], flow[d], u.master[d], u.flow[d])
       /\ \A d \in Conns, j \in Interfaces : u.flow[d][j].availableBw <= Bandwidth[j]
       /\ SharesFit(u.flow)
  BY <1>11, <1>12 DEF Updated, st
<1>14. /\ master' = [u.master EXCEPT ![c] = ScheduleNextEvent(u.master[c])] /\ flow' = u.flow
  <2>1. [u EXCEPT !.master[c] = ScheduleNextEvent(@)]
          = [u EXCEPT !.master = [u.master EXCEPT ![c] = ScheduleNextEvent(u.master[c])]]
    BY <1>13 DEF Storage
  <2> QED BY <1>3, <1>13, <2>1 DEF Becomes, Storage
<1>15. /\ u.master \in [Conns -> MasterStorage] /\ u.flow \in [Conns -> [Interfaces -> FlowStorage]]
  BY <1>13, StorageTypes
<1> DEFINE r == ScheduleNextEvent(u.master[c])
<1>16. /\ r \in MasterStorage /\ Whole(r, flow'[c]) /\ Carries(m, r)
       /\ \A j \in Interfaces : FlowKept(fs[j], flow'[c][j])
       /\ Ticking(m, fs) => Ticking(r, flow'[c])
  <2>1. m.interfaces \in Paths
    BY <1>4, <1>5, <1>8 DEF Agree, ShapeOk
  <2>2. u.flow[c][Head(m.interfaces)].ssState # "NEW"
    BY <1>4, <1>8, <1>13, <2>1, PathProperties DEF SelfUpdated, FlowKept
  <2>3. m.lastBwUpdate <= now /\ Since(m) * Second = m.availableBw * (now - m.lastBwUpdate)
    BY <1>4, <1>8 DEF DoneOk, Since
  <2> QED BY <1>8, <1>9, <1>13, <1>14, <2>2, <2>3, RescheduledToo
<1> HIDE DEF r
<1>17. master' \in [Conns -> MasterStorage] /\ master'[c] = r
       /\ \A d \in Conns \ {c} : master'[d] = u.master[d]
  BY <1>14, <1>15, <1>16 DEF r
<1>18. OthersStep(c)
  BY <1>3, <1>13, <1>14, <1>15, <1>17 DEF OthersStep
<1>19. StepDone
  BY <1>16, <1>17, <1>18, StepOk
<1>20. \A d \in Conns \ {c} : /\ master'[d].state = master[d].state
                              /\ master'[d].transfers = master[d].transfers
                              /\ Flows(d)' = Flows(d) /\ (d \in Open' <=> d \in Open)
                              /\ SumsKept(d)
  BY <1>18, OthersAsBefore
<1>21. /\ master'[c].state = "BUSY" /\ master'[c].transfers = rest
       /\ Flows(c)' = Flows(c) /\ c \in Open' /\ SumsKept(c)
  BY <1>8, <1>16, <1>17 DEF Carries, Flows, Open, SumsKept, FlowKept
<1>22. Serves(c)
  <2>1. /\ tState'[h] = "FINISHED" /\ tState'[n] = "ACTIVE"
        /\ \A v \in Transfers \ {h, n} : tState'[v] = tState[v]
        /\ tState' \in [Transfers -> {"ENABLED", "ENQUEUED", "ACTIVE", "FINISHED"}]
    BY <1>1, <1>3, <1>6, <1>7
  <2>2. \A v \in Transfers \ {h} :
          tState'[v] = IF rest # <<>> /\ v = Head(rest) THEN "ACTIVE" ELSE tState[v]
    BY <1>7, <2>1
  <2> QED BY <1>3, <1>4, <1>7, <1>20, <1>21, <2>1, <2>2 DEF Serves, rest
<1>23. PipelinesOk' /\ BytesOk' /\ PipesStep
  BY <1>22, ServedPipelines
<1>24. BytesConserved'
  BY <1>3, <1>20, <1>21, BytesKept DEF IInv
<1>25. Listed'
  BY <1>3, <1>5, <1>20, <1>21, ListedKept DEF IInv
<1>26. IInv'
  BY <1>1, <1>3, <1>19, <1>22, <1>23, <1>24, <1>25, AllOk DEF Serves
<1>27. Rolls(c) => Rolls(c)'
  <2> SUFFICES ASSUME Rolls(c) PROVE Rolls(c)'
    OBVIOUS
  <2>1. Ticking(m, fs)
    BY <1>4, <1>5, <1>8 DEF Ticking
  <2> QED BY <1>16, <1>17, <2>1, SelfRolls
<1>28. \A d \in Conns \ {c} : Rolls(d) => Rolls(d)'
  BY <1>5, <1>18, OthersRoll
<1> QED BY <1>23, <1>26, <1>27, <1>28 DEF StepInv

\* A connection is closed with all its subflows.
LEMMA CloseInv ==
  ASSUME IInv, NEW c \in Conns, master[c].state = "IDLE", Close(c), event' = NoEvent,
         \A d \in Conns \ {c} : Untroubled(d)
  PROVE  StepInv
<1> DEFINE m == [master[c] EXCEPT !.state = "CLOSED", !.nextEvent = None]
           fs == [i \in Interfaces |-> IF i \in Flows(c)
                    THEN [flow[c][i] EXCEPT !.state = "CLOSED", !.nextEvent = None] ELSE flow[c][i]]
<1>1. /\ master \in [Conns -> MasterStorage] /\ flow \in [Conns -> [Interfaces -> FlowStorage]]
      /\ master[c] \in MasterStorage /\ flow[c] \in [Interfaces -> FlowStorage]
      /\ \A i \in Interfaces : flow[c][i] \in FlowStorage /\ connections[i] \in Seq(Conns)
      /\ connections \in [Interfaces -> Seq(Conns)] /\ tConn \in [Transfers -> Conns \cup {None}]
      /\ tState \in [Transfers -> {"ENABLED", "ENQUEUED", "ACTIVE", "FINISHED"}]
  BY Types
<1>2. /\ master' = [master EXCEPT ![c].state = "CLOSED", ![c].nextEvent = None]
      /\ flow' = [flow EXCEPT ![c] = [i \in Interfaces |-> IF i \in Flows(c)
                    THEN [@[i] EXCEPT !.state = "CLOSED", !.nextEvent = None] ELSE @[i]]]
      /\ connections' = [i \in Interfaces |-> IF i \in Flows(c) THEN RemoveFirst(connections[i], c)
                                              ELSE connections[i]]
      /\ UNCHANGED <<now, tState, outstandingBytes, tConn, size>>
  BY DEF Close, Flows
<1>3. /\ master' = [master EXCEPT ![c] = m] /\ flow' = [flow EXCEPT ![c] = fs]
  BY <1>1, <1>2
<1>4. /\ m \in MasterStorage /\ m.state = "CLOSED" /\ m.nextEvent = None
      /\ m.interfaces = master[c].interfaces /\ m.subflows = master[c].subflows
      /\ m.transfers = master[c].transfers
      /\ m.outstandingTransferBytesSum = master[c].outstandingTransferBytesSum
      /\ m.transferredBytesSum = master[c].transferredBytesSum
      /\ m.availableBw = master[c].availableBw /\ m.desiredBw = master[c].desiredBw
      /\ m.bwUpdateInProgress = master[c].bwUpdateInProgress
  BY <1>1 DEF MasterStorage
<1> HIDE DEF m
<1>5. /\ \A i \in Flows(c) \cap Interfaces :
           /\ fs[i] \in FlowStorage /\ fs[i].state = "CLOSED" /\ fs[i].nextEvent = None
           /\ fs[i].ssState = flow[c][i].ssState /\ fs[i].cwnd = flow[c][i].cwnd
           /\ fs[i].availableBw = flow[c][i].availableBw /\ fs[i].desiredBw = flow[c][i].desiredBw
           /\ fs[i].transferredBytesSum = flow[c][i].transferredBytesSum
      /\ \A i \in Interfaces \ Flows(c) : fs[i] = flow[c][i]
  BY <1>1, ZenonT(60) DEF FlowStorage
<1>6. fs \in [Interfaces -> FlowStorage]
  BY <1>1, <1>5
<1> HIDE DEF fs
<1>7. /\ master'[c] = m /\ flow'[c] = fs
      /\ \A d \in Conns \ {c} : master'[d] = master[d] /\ flow'[d] = flow[d]
      /\ master' \in [Conns -> MasterStorage] /\ flow' \in [Conns -> [Interfaces -> FlowStorage]]
  BY <1>1, <1>3, <1>4, <1>6
<1>8. /\ \A i \in Interfaces : /\ fs[i].ssState = flow[c][i].ssState
                               /\ fs[i].availableBw = flow[c][i].availableBw
                               /\ fs[i].transferredBytesSum = flow[c][i].transferredBytesSum
                               /\ fs[i].cwnd = flow[c][i].cwnd
                               /\ fs[i].desiredBw = flow[c][i].desiredBw
  BY <1>5
<1>9. Agree(master[c], flow[c]) /\ Flows(c) \subseteq Interfaces
  BY SubflowFacts
<1>10. Whole(m, fs)
  <2>1. ShapeOk(m, fs)
    <3>1. m.interfaces \in Paths /\ Head(m.interfaces) \in Interfaces
      BY <1>4, <1>9, PathProperties DEF Agree, ShapeOk
    <3> QED BY <1>4, <1>5, <1>8, <1>9, <3>1 DEF Agree, ShapeOk, Flows
  <2>2. m.availableBw = FlowSum(m, fs)
    <3>1. FlowSum(master[c], fs) = FlowSum(master[c], flow[c])
      BY <1>1, <1>6, <1>8, SameSum
    <3> QED BY <1>4, <1>9, <3>1 DEF Agree, FlowSum
  <2>3. \A i \in Interfaces : WindowOk(fs[i])
    BY <1>8, <1>9 DEF Agree, WindowOk
  <2>4. \A i \in ToSet(m.subflows) : /\ WishOk(m.state, fs[i]) /\ StateOk(m.state, fs[i])
                                     /\ RoundOk(m.state, fs[i])
    BY <1>4, <1>5, <1>8, <1>9 DEF Agree, Flows, WishOk, StateOk, RoundOk, Progresses
  <2>5. MasterOk(m)
    BY <1>4 DEF MasterOk
  <2> QED BY <1>4, <1>9, <2>1, <2>2, <2>3, <2>4, <2>5 DEF Whole, Agree
<1>11. OthersStep(c)
  <2>1. \A d \in Conns \ {c} : OtherKept(master[d], flow[d], master'[d], flow'[d])
    BY <1>1, <1>7, Undisturbed, WholeKept
  <2>2. \A d \in Conns, j \in Interfaces : flow'[d][j].availableBw = flow[d][j].availableBw
    BY <1>7, <1>8
  <2>3. \A d \in Conns, j \in Interfaces : flow'[d][j].availableBw <= Bandwidth[j]
    BY <2>2, SubflowFacts
  <2>4. SharesFit(flow')
    <3>1. ASSUME NEW j \in Interfaces PROVE ColumnSum(flow', j) = ColumnSum(flow, j)
      <4>1. [d \in Conns |-> flow'[d][j].availableBw] = [d \in Conns |-> flow[d][j].availableBw]
        BY <2>2
      <4> QED BY <4>1 DEF ColumnSum
    <3> QED BY <3>1 DEF SharesFit, IInv
  <2> QED BY <1>2, <1>7, <2>1, <2>3, <2>4 DEF OthersStep
<1>12. StepDone
  BY <1>7, <1>10, <1>11, StepOk
<1>13. \A d \in Conns : SumsKept(d)
  BY <1>4, <1>7, <1>8 DEF SumsKept
<1>14. BytesConserved'
  BY <1>2, <1>13, BytesKept DEF IInv
<1>15. PipelinesOk' /\ BytesOk'
  <2>1. PipelinesOk'
    BY <1>2, <1>4, <1>7, PipelinesKept DEF IInv
  <2>2. BytesOk'
    BY <1>2 DEF IInv, BytesOk
  <2> QED BY <2>1, <2>2
<1>16. PipesStep
  <2>1. master[c].transfers = <<>>
    BY DEF IInv, PipelinesOk
  <2> QED BY <1>2, <1>4, <1>7, <2>1, CloseStep, ZenonT(60)
<1>17. \A i \in Interfaces : c \in ToSet(connections[i]) <=> i \in Flows(c)
  BY SubflowFacts DEF Open
<1>18. Listed' /\ connections' \in [Interfaces -> Seq(Conns)]
  <2>1. ASSUME NEW i \in Interfaces
        PROVE  /\ IsInjective(connections'[i]) /\ connections'[i] \in Seq(Conns)
               /\ ToSet(connections'[i]) = {d \in Open' : i \in Flows(d)'}
    <3>1. /\ connections[i] \in Seq(Conns) /\ IsInjective(connections[i])
          /\ ToSet(connections[i]) = {d \in Open : i \in Flows(d)}
      BY <1>1 DEF IInv, Listed
    <3>2. Open' = Open \ {c} /\ \A d \in Conns \ {c} : Flows(d)' = Flows(d)
      BY <1>4, <1>7 DEF Open, Flows
    <3>3. Open \subseteq Conns
      BY DEF Open
    <3>4. CASE i \in Flows(c)
      <4>1. connections'[i] = RemoveFirst(connections[i], c)
        BY <1>2, <3>4
      <4>2. c \in ToSet(connections[i])
        BY <1>17, <3>4
      <4>3. /\ RemoveFirst(connections[i], c) \in Seq(Conns)
            /\ IsInjective(RemoveFirst(connections[i], c))
            /\ ToSet(RemoveFirst(connections[i], c)) = ToSet(connections[i]) \ {c}
        BY <3>1, <4>2, RemoveFirstProperties
      <4> QED BY <3>1, <3>2, <3>3, <4>1, <4>3
    <3>5. CASE i \notin Flows(c)
      <4>1. connections'[i] = connections[i]
        BY <1>2, <3>5
      <4> QED BY <3>1, <3>2, <3>3, <3>5, <4>1
    <3> QED BY <3>4, <3>5
  <2>2. connections' \in [Interfaces -> Seq(Conns)]
    <3> DEFINE g == connections'
    <3>1. g = [i \in Interfaces |-> g[i]]
      BY <1>2
    <3>2. \A i \in Interfaces : g[i] \in Seq(Conns)
      BY <2>1
    <3> HIDE DEF g
    <3>3. g \in [Interfaces -> Seq(Conns)]
      BY <3>1, <3>2
    <3> QED BY <3>3 DEF g
  <2> QED BY <2>1, <2>2 DEF Listed
<1>19. IInv'
  BY <1>1, <1>2, <1>12, <1>14, <1>15, <1>18, AllOk
<1>20. Rolls(c)'
  BY <1>4, <1>7 DEF Rolls
<1>21. \A d \in Conns \ {c} : Rolls(d) => Rolls(d)'
  BY <1>11, OthersRoll
<1> QED BY <1>16, <1>19, <1>20, <1>21 DEF StepInv

LEMMA CloseIdleInv ==
  ASSUME IInv, NEW c \in Conns, CloseIdle(c)
  PROVE  StepInv
<1>1. /\ master[c].state = "IDLE" /\ Close(c) /\ event = NoEvent /\ event' = NoEvent
  BY DEF CloseIdle
<1>2. \A d \in Conns : Untroubled(d)
  BY <1>1 DEF Untroubled
<1> QED BY <1>1, <1>2, CloseInv

LEMMA TimeOutInv ==
  ASSUME IInv, NEW c \in Conns, TimeOut(c)
  PROVE  StepInv
<1>1. /\ master[c].state = "IDLE" /\ Close(c) /\ event = <<c, None>> /\ event' = NoEvent
  BY DEF TimeOut
<1>2. \A d \in Conns \ {c} : Untroubled(d)
  BY <1>1, EventOfMaster
<1> QED BY <1>1, <1>2, CloseInv

-----------------------------------------------------------------------------
(* The handlers of the events of a subflow *)

\* The storage of c before it tells its subflow on i what it wants.
TellsIn(c, m, fs, i, ms) ==
  /\ m \in MasterStorage /\ fs \in [Interfaces -> FlowStorage] /\ i \in Interfaces
  /\ Typed(m) /\ m.state \in {"IDLE", "BUSY"} /\ (m.desiredBw > 0 <=> m.state = "BUSY")
  /\ ~m.bwUpdateInProgress /\ m.availableBw = FlowSum(m, fs) /\ MasterOk(m)
  /\ ShapeOk(m, fs) /\ i \in ToSet(m.subflows) /\ fs[i].ssState # "NEW"
  /\ \A j \in Interfaces : WindowOk(fs[j]) /\ fs[j].availableBw = flow[c][j].availableBw
  /\ WasOk(ms, fs[i]) /\ c \in ToSet(connections[i])
  /\ \A j \in ToSet(m.subflows) \ {i} : FlowOk(m.state, fs[j])
  /\ \A d \in Conns \ {c} : Untroubled(d)

LEMMA TellStep ==
  ASSUME IInv, NEW c \in Conns, NEW m, NEW fs, NEW i, NEW ms, TellsIn(c, m, fs, i, ms),
         Becomes(UpdateFlowDesiredBw(StOf(c, m, fs), c, i)), event' = NoEvent,
         UNCHANGED <<now, outstandingBytes, size>>
  PROVE  /\ OthersStep(c) /\ Whole(master'[c], flow'[c]) /\ Carries(m, master'[c])
         /\ \A j \in Interfaces \ {i} : flow'[c][j] = fs[j]
         /\ Tellable(m, fs[i], flow'[c][i], i)
<1> DEFINE st == StOf(c, m, fs)
           x == UpdateFlowDesiredBw(st, c, i)
           r == master'[c]
           rs == flow'[c]
           first == Head(m.interfaces)
<1>1. /\ m \in MasterStorage /\ fs \in [Interfaces -> FlowStorage] /\ i \in Interfaces
      /\ Typed(m) /\ m.state \in {"IDLE", "BUSY"} /\ (m.desiredBw > 0 <=> m.state = "BUSY")
      /\ ~m.bwUpdateInProgress /\ m.availableBw = FlowSum(m, fs) /\ MasterOk(m)
      /\ ShapeOk(m, fs) /\ i \in ToSet(m.subflows) /\ fs[i].ssState # "NEW"
      /\ \A j \in Interfaces : WindowOk(fs[j]) /\ fs[j].availableBw = flow[c][j].availableBw
      /\ WasOk(ms, fs[i]) /\ c \in ToSet(connections[i])
      /\ \A j \in ToSet(m.subflows) \ {i} : FlowOk(m.state, fs[j])
      /\ \A d \in Conns \ {c} : Untroubled(d)
  BY DEF TellsIn
<1>2. /\ st \in Storage /\ st.master[c] = m /\ st.flow[c] = fs
      /\ \A d \in Conns \ {c} : st.master[d] = master[d] /\ st.flow[d] = flow[d]
  BY <1>1, StOfProperties
<1>3. master' = x.master /\ flow' = x.flow
  BY DEF Becomes
<1> HIDE DEF st, x
<1>4. Tells(st, c, i, ms)
  <2>1. OthersReady(st, c)
    BY <1>1, <1>2, OthersAreReady
  <2> QED BY <1>1, <1>2, <2>1 DEF Tells, AddedUp
<1>5. Telling(st, c, i, x)
  BY <1>1, <1>4, TellingProperties DEF x
<1>6. /\ r = UpdateAvailableBw(m, rs) /\ rs \in [Interfaces -> FlowStorage]
      /\ \A j \in Interfaces \ {i} : rs[j] = fs[j]
      /\ Tellable(m, fs[i], rs[i], i)
      /\ flow' \in [Conns -> [Interfaces -> FlowStorage]]
      /\ \A d \in Conns \ {c} : OtherKept(master[d], flow[d], master'[d], flow'[d])
      /\ \A d \in Conns, j \in Interfaces : flow'[d][j].availableBw <= Bandwidth[j]
      /\ SharesFit(flow') /\ master' = [d \in Conns |-> master'[d]]
  BY <1>2, <1>3, <1>5 DEF Telling
<1> HIDE DEF r, rs
<1>7. /\ ToSet(m.subflows) \subseteq Interfaces /\ first \in ToSet(m.subflows)
      /\ m.interfaces \in Paths /\ fs[first].ssState # "NEW"
  BY <1>1, SubflowsOf
<1>8. /\ \A j \in Interfaces : rs[j].ssState = "NEW" <=> fs[j].ssState = "NEW"
      /\ \A j \in Interfaces : WindowOk(rs[j])
      /\ \A j \in ToSet(m.subflows) : FlowOk(m.state, rs[j])
  <2>1. /\ rs[i].ssState = "NEW" <=> fs[i].ssState = "NEW"
        /\ WindowOk(rs[i]) /\ FlowOk(m.state, rs[i])
    BY <1>6 DEF Tellable
  <2>2. ASSUME NEW j \in Interfaces PROVE rs[j].ssState = "NEW" <=> fs[j].ssState = "NEW"
    BY <1>6, <2>1
  <2>3. ASSUME NEW j \in Interfaces PROVE WindowOk(rs[j])
    BY <1>1, <1>6, <2>1
  <2>4. ASSUME NEW j \in ToSet(m.subflows) PROVE FlowOk(m.state, rs[j])
    BY <1>1, <1>6, <1>7, <2>1
  <2> QED BY <2>2, <2>3, <2>4
<1>9. ShapeOk(m, rs)
  BY <1>1, <1>6, <1>7, <1>8 DEF ShapeOk
<1>10. SumOk(m, rs) /\ Renewed(m, rs, r)
  <2>1. \A j \in ToSet(m.subflows) : rs[j].availableBw > 0 <=> Progresses(m.state, rs[j])
    BY <1>8 DEF FlowOk, WishOk
  <2>2. \A j \in Interfaces : rs[j].availableBw <= Bandwidth[j]
    BY <1>6 DEF rs
  <2> QED BY <1>1, <1>6, <1>7, <1>8, <1>9, <2>1, <2>2, RenewOf
<1>11. Agree(r, rs)
  BY <1>1, <1>8, <1>9, <1>10, AgreeOf DEF FlowOk
<1>12. Untouched(m, r) /\ r \in MasterStorage /\ Carries(m, r)
  BY <1>10 DEF Renewed, Untouched, Carries
<1>13. MasterOk(r)
  <2>1. CASE FlowSum(m, rs) = m.availableBw
    BY <1>1, <1>10, <2>1 DEF Renewed
  <2>2. CASE FlowSum(m, rs) # m.availableBw
    <3>1. Fresh(r)
      BY <1>10, <2>2 DEF Renewed
    <3> QED BY <1>1, <1>12, <3>1 DEF Fresh, MasterOk, Untouched
  <2> QED BY <2>1, <2>2
<1>14. Whole(r, rs)
  BY <1>8, <1>11, <1>12, <1>13 DEF Whole, Carries, FlowOk
<1>15. master' \in [Conns -> MasterStorage]
  <2>1. \A d \in Conns : master'[d] \in MasterStorage
    BY <1>6, <1>12 DEF r, OtherKept
  <2> QED BY <1>6, <2>1
<1>16. OthersStep(c)
  BY <1>6, <1>15 DEF OthersStep
<1> QED BY <1>6, <1>12, <1>14, <1>16 DEF r, rs

LEMMA EventOfFlow ==
  ASSUME IInv, NEW c \in Conns, NEW i \in Interfaces, event = <<c, i>>
  PROVE  /\ \A d \in Conns \ {c} : Untroubled(d)
         /\ MasterOk(master[c]) /\ c \in Open /\ Agree(master[c], flow[c])
         /\ i \in Flows(c) /\ HandledRound(master[c].state, flow[c][i])
         /\ \A j \in Flows(c) \ {i} : FlowOk(master[c].state, flow[c][j]) /\ event # <<c, j>>
         /\ c \in ToSet(connections[i])
<1>1. \A d \in Conns \ {c} : Untroubled(d)
  BY DEF Untroubled
<1>2. i # None /\ event # NoEvent /\ event # <<c, None>>
  BY Constants DEF NoEvent
<1>3. c \in Open /\ i \in Flows(c) /\ ConnOk(c)
  BY <1>2 DEF IInv, EventOk
<1>4. /\ Agree(master[c], flow[c]) /\ MasterOk(master[c])
      /\ HandledRound(master[c].state, flow[c][i])
      /\ \A j \in Flows(c) \ {i} : RoundOk(master[c].state, flow[c][j]) /\ event # <<c, j>>
  BY <1>2, <1>3 DEF ConnOk
<1>5. \A j \in Flows(c) \ {i} : FlowOk(master[c].state, flow[c][j])
  BY <1>4 DEF Agree, FlowOk, Flows
<1>6. c \in ToSet(connections[i])
  BY <1>3, SubflowFacts
<1> QED BY <1>1, <1>3, <1>4, <1>5, <1>6

\* The round has changed what c wants of its subflow on i.
NewWish(c, i) == NewDesiredBw(master[c], flow[c][i], i) # flow[c][i].desiredBw

LEMMA NextRoundInv ==
  ASSUME IInv, NEW c \in Conns, NEW i \in Interfaces, NextRound(c, i)
  PROVE  IInv' /\ PipesStep /\ (NewWish(c, i) => \A d \in Conns : Rolls(d) => Rolls(d)')
<1> DEFINE m == master[c]
           fs == flow[c]
<1>1. /\ event = <<c, i>> /\ m.state = "BUSY" /\ fs[i].ssState = "SS"
      /\ Becomes(UpdateFlowDesiredBw(St, c, i)) /\ event' = NoEvent
      /\ UNCHANGED <<now, connections, tState, outstandingBytes, tConn, size>>
  BY DEF NextRound
<1>2. /\ master \in [Conns -> MasterStorage] /\ flow \in [Conns -> [Interfaces -> FlowStorage]]
      /\ m \in MasterStorage /\ fs \in [Interfaces -> FlowStorage] /\ Typed(m)
      /\ connections \in [Interfaces -> Seq(Conns)] /\ tConn \in [Transfers -> Conns \cup {None}]
      /\ tState \in [Transfers -> {"ENABLED", "ENQUEUED", "ACTIVE", "FINISHED"}]
  BY Types
<1>3. St = StOf(c, m, fs)
  BY <1>2 DEF St, StOf
<1>4. /\ \A d \in Conns \ {c} : Untroubled(d)
      /\ MasterOk(m) /\ c \in Open /\ Agree(m, fs)
      /\ i \in Flows(c) /\ HandledRound(m.state, fs[i])
      /\ \A j \in Flows(c) \ {i} : FlowOk(m.state, fs[j]) /\ event # <<c, j>>
      /\ c \in ToSet(connections[i])
  BY <1>1, EventOfFlow
<1>5. TellsIn(c, m, fs, i, "BUSY")
  <2>1. WasOk("BUSY", fs[i])
    BY <1>1, <1>4 DEF Agree, WasOk, HandledRound, RoundOk, Rounds, Flows
  <2> QED BY <1>1, <1>2, <1>4, <2>1 DEF TellsIn, Agree, Flows
<1>6. /\ OthersStep(c) /\ Whole(master'[c], flow'[c]) /\ Carries(m, master'[c])
      /\ \A j \in Interfaces \ {i} : flow'[c][j] = fs[j]
      /\ Tellable(m, fs[i], flow'[c][i], i)
  BY <1>1, <1>3, <1>5, TellStep
<1>7. StepDone
  BY <1>6, StepOk
<1>8. \A d \in Conns \ {c} : /\ master'[d].state = master[d].state
                             /\ master'[d].transfers = master[d].transfers
                             /\ Flows(d)' = Flows(d) /\ (d \in Open' <=> d \in Open)
                             /\ SumsKept(d)
  BY <1>6, OthersAsBefore
<1>9. /\ master'[c].state = m.state /\ master'[c].transfers = m.transfers
      /\ Flows(c)' = Flows(c) /\ c \in Open' /\ SumsKept(c)
  BY <1>1, <1>6 DEF Carries, Flows, Open, SumsKept, Tellable
<1>10. PipelinesOk' /\ BytesOk' /\ BytesConserved'
  <2>1. PipelinesOk'
    BY <1>1, <1>8, <1>9, PipelinesKept DEF IInv
  <2>2. BytesOk'
    BY <1>1 DEF IInv, BytesOk
  <2>3. BytesConserved'
    BY <1>1, <1>8, <1>9, BytesKept DEF IInv
  <2> QED BY <2>1, <2>2, <2>3
<1>11. PipesStep
  BY <1>1, <1>8, <1>9, StutterStep
<1>12. Listed'
  BY <1>1, <1>4, <1>8, <1>9, ListedKept DEF IInv
<1>13. IInv'
  BY <1>1, <1>2, <1>7, <1>10, <1>12, AllOk
<1>14. ASSUME NewWish(c, i), Rolls(c) PROVE Rolls(c)'
  <2> SUFFICES ASSUME NEW j \in Flows(c), flow'[c][j].ssState = "SS", master'[c].state = "BUSY"
               PROVE  flow'[c][j].nextEvent # None
    BY <1>9 DEF Rolls
  <2>1. CASE j = i
    BY <1>1, <1>6, <1>14, <2>1 DEF Tellable, NewRound, NewWish
  <2>2. CASE j # i
    <3>1. flow'[c][j] = fs[j] /\ event # <<c, j>>
      BY <1>4, <1>6, <2>2, SubflowFacts
    <3> QED BY <1>1, <1>14, <3>1 DEF Rolls
  <2> QED BY <2>1, <2>2
<1>15. \A d \in Conns \ {c} : Rolls(d) => Rolls(d)'
  BY <1>4, <1>6, OthersRoll
<1> QED BY <1>11, <1>13, <1>14, <1>15

\* The subflows of a connection after a handshake.
Joined(c, i) ==
  [j \in Interfaces |-> IF j \in OthersOf(c, i) THEN Connected(j, 2)
                        ELSE IF j = i THEN [flow[c][i] EXCEPT !.ssState = "SS"]
                        ELSE flow[c][j]]
Joining(c, i) ==
  [master[c] EXCEPT !.subflows = IF OthersOf(c, i) # {} THEN master[c].interfaces ELSE @]

\* The handshake of f is done, and the other subflows are new ones in their handshakes.
FlowsJoined(c, i, fs) ==
  /\ fs \in [Interfaces -> FlowStorage]
  /\ fs[i].ssState = "SS" /\ fs[i].availableBw = 0 /\ fs[i].desiredBw = 0
  /\ fs[i].transferredBytesSum = flow[c][i].transferredBytesSum /\ fs[i].nextEvent = None
  /\ fs[i].state = flow[c][i].state /\ fs[i].cwnd = flow[c][i].cwnd
  /\ OthersOf(c, i) \subseteq Interfaces \ Flows(c)
  /\ \A j \in OthersOf(c, i) : fs[j] = Connected(j, 2) /\ flow[c][j] = NewFlow
  /\ \A j \in Interfaces \ (OthersOf(c, i) \cup {i}) : fs[j] = flow[c][j]

LEMMA JoinedFlows ==
  ASSUME IInv, NEW c \in Conns, NEW i \in Interfaces, event = <<c, i>>,
         flow[c][i].ssState = "NEW"
  PROVE  FlowsJoined(c, i, Joined(c, i))
<1> DEFINE others == OthersOf(c, i)
           m == master[c]
           f == [flow[c][i] EXCEPT !.ssState = "SS"]
           fs == Joined(c, i)
<1>1. /\ c \in Open /\ Agree(m, flow[c]) /\ i \in Flows(c)
      /\ HandledRound(m.state, flow[c][i]) /\ m \in MasterStorage
      /\ \A j \in Interfaces : flow[c][j] \in FlowStorage
      /\ now \in Nat /\ flow[c] \in [Interfaces -> FlowStorage]
  BY EventOfFlow, Types
<1>2. ShapeOk(m, flow[c]) /\ m.state # "NONE" /\ ToSet(m.subflows) = Flows(c)
  BY <1>1 DEF Agree, Open, Flows
<1>3. /\ Head(m.interfaces) = Head(m.subflows) /\ m.interfaces \in Paths
      /\ flow[c][Head(m.interfaces)].ssState = "NEW" => Flows(c) = {Head(m.interfaces)}
  BY <1>1, <1>2, SubflowsOf
<1>4. others \subseteq Interfaces \ Flows(c)
  <2>1. CASE i = Head(m.subflows)
    <3>1. Flows(c) = {i}
      BY <1>3, <2>1
    <3>2. others = ToSet(Tail(m.interfaces))
      BY <2>1 DEF OthersOf
    <3>3. ToSet(Tail(m.interfaces)) = ToSet(m.interfaces) \ {i} /\ ToSet(m.interfaces) \subseteq Interfaces
      BY <1>3, <2>1, PathProperties
    <3> QED BY <3>1, <3>2, <3>3
  <2>2. CASE i # Head(m.subflows)
    BY <2>2 DEF OthersOf
  <2> QED BY <2>1, <2>2
<1>5. i \notin others
  BY <1>1, <1>4
<1>6. \A j \in others : flow[c][j] = NewFlow
  BY <1>2, <1>4 DEF ShapeOk
<1>7. f \in FlowStorage
  BY <1>1 DEF FlowStorage
<1>8. /\ f.ssState = "SS" /\ f.availableBw = flow[c][i].availableBw
      /\ f.desiredBw = flow[c][i].desiredBw /\ f.nextEvent = flow[c][i].nextEvent
      /\ f.transferredBytesSum = flow[c][i].transferredBytesSum
      /\ f.state = flow[c][i].state /\ f.cwnd = flow[c][i].cwnd
  BY <1>1 DEF FlowStorage
<1>9. flow[c][i].availableBw = 0 /\ flow[c][i].desiredBw = 0 /\ flow[c][i].nextEvent = None
  <2>1. WishOk(m.state, flow[c][i])
    BY <1>1, <1>2 DEF Agree
  <2>2. flow[c][i].availableBw \in Nat /\ flow[c][i].desiredBw \in Nat
    BY <1>1, FlowTypes
  <2> QED BY <1>1, <2>1, <2>2 DEF WishOk, Progresses, HandledRound
<1>10. \A j \in others : Connected(j, 2) \in FlowStorage
  BY <1>1, <1>4, ConnectedProperties
<1>11. /\ fs = [j \in Interfaces |-> IF j \in others THEN Connected(j, 2)
                                     ELSE IF j = i THEN f ELSE flow[c][j]]
  BY DEF Joined
<1> HIDE DEF f, fs, others
<1>12. /\ fs \in [Interfaces -> FlowStorage]
  BY <1>1, <1>7, <1>10, <1>11
<1>13. /\ fs[i] = f
       /\ \A j \in others : fs[j] = Connected(j, 2)
       /\ \A j \in Interfaces \ (others \cup {i}) : fs[j] = flow[c][j]
  BY <1>4, <1>5, <1>11
<1>14. /\ fs[i].ssState = "SS" /\ fs[i].availableBw = 0 /\ fs[i].desiredBw = 0
       /\ fs[i].transferredBytesSum = flow[c][i].transferredBytesSum /\ fs[i].nextEvent = None
       /\ fs[i].state = flow[c][i].state /\ fs[i].cwnd = flow[c][i].cwnd
  BY <1>8, <1>9, <1>13
<1> HIDE DEF m
<1>15. FlowsJoined(c, i, fs)
  BY <1>4, <1>6, <1>12, <1>13, <1>14 DEF FlowsJoined, others
<1> QED BY <1>15 DEF fs

\* The list of subflows of o becomes that of m, which is all interfaces or what it was.
MasterJoins(c, i, o, m) ==
  /\ m \in MasterStorage /\ Carries([o EXCEPT !.subflows = m.subflows], m)
  /\ m.state = o.state /\ m.interfaces = o.interfaces /\ m.transfers = o.transfers
  /\ m.outstandingTransferBytesSum = o.outstandingTransferBytesSum
  /\ m.transferredBytesSum = o.transferredBytesSum /\ m.availableBw = o.availableBw
  /\ m.desiredBw = o.desiredBw /\ ~m.bwUpdateInProgress /\ Typed(m) /\ MasterOk(m)
  /\ ToSet(m.subflows) = Flows(c) \cup OthersOf(c, i)
  /\ \/ /\ i = Head(m.interfaces) /\ m.subflows = o.interfaces
        /\ Flows(c) = {i} /\ o.state = "BUSY"
     \/ /\ OthersOf(c, i) = {} /\ m.subflows = o.subflows /\ i # Head(m.interfaces)
        /\ flow[c][Head(m.interfaces)].ssState # "NEW"

LEMMA JoiningMaster ==
  ASSUME IInv, NEW c \in Conns, NEW i \in Interfaces, event = <<c, i>>,
         flow[c][i].ssState = "NEW"
  PROVE  MasterJoins(c, i, master[c], Joining(c, i))
<1> DEFINE m == Joining(c, i)
           o == master[c]
           others == OthersOf(c, i)
           p == o.interfaces
<1>1. /\ c \in Open /\ Agree(o, flow[c]) /\ i \in Flows(c) /\ MasterOk(o) /\ o \in MasterStorage
      /\ Typed(o) /\ o.state \in {"IDLE", "BUSY"}
  BY EventOfFlow, Types DEF Open
<1>2. ShapeOk(o, flow[c]) /\ o.state # "NONE" /\ ToSet(o.subflows) = Flows(c)
      /\ ~o.bwUpdateInProgress
  BY <1>1 DEF Agree, Flows
<1>3. /\ Head(p) = Head(o.subflows) /\ p \in Paths /\ o.subflows \in Seq(Interfaces)
      /\ flow[c][Head(p)].ssState = "NEW" => Flows(c) = {Head(p)}
  BY <1>1, <1>2, SubflowsOf
<1>4. /\ p \in Seq(Interfaces) /\ Len(p) > 1 /\ IsInjective(p)
      /\ Head(p) \in ToSet(p) /\ ToSet(Tail(p)) = ToSet(p) \ {Head(p)}
  BY <1>3, PathProperties
<1> HIDE DEF p
<1>5. \/ /\ i = Head(p) /\ others = ToSet(p) \ {i} /\ others # {} /\ Flows(c) = {i}
         /\ o.state = "BUSY"
      \/ /\ i # Head(p) /\ others = {} /\ flow[c][Head(p)].ssState # "NEW"
  <2>1. CASE i = Head(p)
    <3>1. others = ToSet(p) \ {i} /\ Flows(c) = {i}
      BY <1>3, <1>4, <2>1 DEF OthersOf, p
    <3>2. p[2] \in ToSet(p) /\ p[2] # p[1]
      BY <1>4 DEF IsInjective, ToSet
    <3>3. o.state # "IDLE"
      BY <1>2, <2>1 DEF ShapeOk, p
    <3> QED BY <1>1, <1>4, <2>1, <3>1, <3>2, <3>3
  <2>2. CASE i # Head(p)
    <3>1. others = {}
      BY <1>3, <2>2 DEF OthersOf
    <3>2. flow[c][Head(p)].ssState # "NEW"
      BY <1>1, <1>3, <2>2
    <3> QED BY <2>2, <3>1, <3>2
  <2> QED BY <2>1, <2>2
<1> DEFINE s == IF others # {} THEN p ELSE o.subflows
<1>6. s \in Seq(Interfaces) /\ m = [o EXCEPT !.subflows = s]
  BY <1>3, <1>4 DEF Joining, p
<1>7. ToSet(s) = Flows(c) \cup others
  BY <1>2, <1>4, <1>5
<1> HIDE DEF s, m, others
<1>8. /\ m \in MasterStorage /\ m.subflows = s
      /\ m.state = o.state /\ m.interfaces = o.interfaces /\ m.transfers = o.transfers
      /\ m.outstandingTransferBytesSum = o.outstandingTransferBytesSum
      /\ m.transferredBytesSum = o.transferredBytesSum /\ m.availableBw = o.availableBw
      /\ m.desiredBw = o.desiredBw /\ m.bwUpdateInProgress = o.bwUpdateInProgress
      /\ m.nextEvent = o.nextEvent /\ m.idleTimestamp = o.idleTimestamp
      /\ m.currTransferFinishTime = o.currTransferFinishTime /\ m.lastBwUpdate = o.lastBwUpdate
      /\ m.lastBwUpdateTransferredBytesSum = o.lastBwUpdateTransferredBytesSum
  BY <1>1, <1>6 DEF MasterStorage
<1>9. Typed(m)
  BY <1>1, <1>8 DEF Typed, Left
<1>10. MasterOk(m)
  BY <1>1, <1>8 DEF MasterOk, CapacityOk, DeadlineOk, Left, Since
<1>11. Carries([o EXCEPT !.subflows = m.subflows], m)
  BY <1>1, <1>6, <1>8 DEF Carries, MasterStorage
<1>12. \/ i = Head(m.interfaces) /\ m.subflows = o.interfaces /\ Flows(c) = {i} /\ o.state = "BUSY"
       \/ /\ others = {} /\ m.subflows = o.subflows /\ i # Head(m.interfaces)
          /\ flow[c][Head(m.interfaces)].ssState # "NEW"
  <2>1. m.interfaces = p /\ o.interfaces = p
    BY <1>8 DEF p
  <2>2. CASE others # {}
    <3>1. m.subflows = p
      BY <1>8, <2>2 DEF s
    <3> QED BY <1>5, <2>1, <2>2, <3>1
  <2>3. CASE others = {}
    <3>1. m.subflows = o.subflows
      BY <1>8, <2>3 DEF s
    <3> QED BY <1>5, <2>1, <2>3, <3>1
  <2> QED BY <2>2, <2>3
<1>13. ToSet(m.subflows) = Flows(c) \cup others
  BY <1>7, <1>8
<1> HIDE DEF o
<1>14. MasterJoins(c, i, o, m)
  <2>1. ~o.bwUpdateInProgress
    BY <1>2
  <2> QED BY <1>8, <1>9, <1>10, <1>11, <1>12, <1>13, <2>1 DEF MasterJoins, others
<1> QED BY <1>14 DEF o, m

LEMMA JoinTells ==
  ASSUME IInv, NEW c \in Conns, NEW i \in Interfaces, event = <<c, i>>,
         flow[c][i].ssState = "NEW"
  PROVE  TellsIn(c, Joining(c, i), Joined(c, i), i, "IDLE")
<1> DEFINE m == Joining(c, i)
           o == master[c]
           fs == Joined(c, i)
           others == OthersOf(c, i)
           first == Head(m.interfaces)
<1>1. /\ \A d \in Conns \ {c} : Untroubled(d)
      /\ c \in Open /\ Agree(o, flow[c]) /\ i \in Flows(c)
      /\ \A j \in Flows(c) \ {i} : FlowOk(o.state, flow[c][j])
      /\ c \in ToSet(connections[i]) /\ o.state \in {"IDLE", "BUSY"} /\ o \in MasterStorage
      /\ flow[c] \in [Interfaces -> FlowStorage] /\ now \in Nat
      /\ \A j \in Interfaces : flow[c][j] \in FlowStorage /\ Bandwidth[j] \in Nat
  BY EventOfFlow, Types, Constants DEF Open
<1>2. /\ fs \in [Interfaces -> FlowStorage]
      /\ fs[i].ssState = "SS" /\ fs[i].availableBw = 0 /\ fs[i].desiredBw = 0
      /\ fs[i].nextEvent = None /\ fs[i].cwnd = flow[c][i].cwnd
      /\ others \subseteq Interfaces \ Flows(c)
      /\ \A j \in others : fs[j] = Connected(j, 2) /\ flow[c][j] = NewFlow
      /\ \A j \in Interfaces \ (others \cup {i}) : fs[j] = flow[c][j]
  <2>1. FlowsJoined(c, i, Joined(c, i))
    BY JoinedFlows
  <2> HIDE DEF fs
  <2>2. FlowsJoined(c, i, fs)
    BY <2>1 DEF fs
  <2> QED BY <2>2 DEF FlowsJoined
<1>3. /\ m \in MasterStorage /\ m.state = o.state /\ m.interfaces = o.interfaces
      /\ m.availableBw = o.availableBw /\ m.desiredBw = o.desiredBw
      /\ ~m.bwUpdateInProgress /\ Typed(m) /\ MasterOk(m)
      /\ ToSet(m.subflows) = Flows(c) \cup others
      /\ \/ /\ i = first /\ m.subflows = o.interfaces /\ Flows(c) = {i} /\ o.state = "BUSY"
         \/ /\ others = {} /\ m.subflows = o.subflows /\ i # first
            /\ flow[c][first].ssState # "NEW"
  <2>1. MasterJoins(c, i, master[c], Joining(c, i))
    BY JoiningMaster
  <2>2. MasterJoins(c, i, o, m)
    BY <2>1
  <2> HIDE DEF m
  <2> QED BY <2>2 DEF MasterJoins
<1> HIDE DEF m, fs, others
<1>4. \A j \in others : /\ fs[j].ssState = "NEW" /\ fs[j].state = "IDLE" /\ fs[j].availableBw = 0
                        /\ fs[j].desiredBw = 0 /\ WindowOk(fs[j]) /\ fs[j].nextEvent >= now
                        /\ fs[j].nextEvent # None
  BY <1>1, <1>2, ConnectedProperties
<1>5. first \in Interfaces /\ m.interfaces \in Paths
  BY <1>1, <1>3, PathProperties DEF Agree, ShapeOk
<1>6. \A j \in Interfaces : WindowOk(fs[j]) /\ fs[j].availableBw = flow[c][j].availableBw
  <2>1. NewFlow.availableBw = 0
    BY DEF NewFlow
  <2>2. flow[c][i].availableBw = 0 /\ WindowOk(fs[i])
    <3>1. WishOk(o.state, flow[c][i]) /\ WindowOk(flow[c][i])
      BY <1>1 DEF Agree, Flows
    <3>2. flow[c][i].availableBw \in Nat
      BY <1>1, FlowTypes
    <3> QED BY <1>2, <3>1, <3>2 DEF WishOk, Progresses, WindowOk
  <2>3. \A j \in Interfaces : WindowOk(flow[c][j])
    BY <1>1 DEF Agree
  <2> QED BY <1>2, <1>4, <2>1, <2>2, <2>3
<1>7. ShapeOk(m, fs)
  <2>1. ShapeOk(o, flow[c]) /\ o.state # "NONE"
    BY <1>1 DEF Agree
  <2>2. \A j \in Interfaces : j \notin ToSet(m.subflows) => fs[j] = NewFlow
    BY <1>1, <1>2, <1>3, <2>1 DEF ShapeOk, Flows
  <2>3. fs[first].ssState # "NEW"
    BY <1>2, <1>3, <1>5
  <2>4. m.subflows = m.interfaces
    BY <1>3, <2>1 DEF ShapeOk
  <2> QED BY <1>3, <1>5, <2>1, <2>2, <2>3, <2>4 DEF ShapeOk
<1>8. m.availableBw = FlowSum(m, fs)
  <2>1. CASE i = first
    <3> DEFINE x == [m EXCEPT !.state = "IDLE"]
    <3>1. /\ x \in MasterStorage /\ x.state = "IDLE" /\ x.interfaces = m.interfaces
          /\ x.subflows = m.subflows
      BY <1>3 DEF MasterStorage
    <3> HIDE DEF x
    <3>2. ShapeOk(x, fs)
      BY <1>2, <1>3, <1>7, <2>1, <3>1 DEF ShapeOk
    <3>3. \A j \in ToSet(x.subflows) : fs[j].availableBw = 0
      BY <1>2, <1>3, <1>4, <2>1, <3>1
    <3>4. \A j \in Interfaces : fs[j].availableBw <= Bandwidth[j]
      BY <1>6, SubflowFacts
    <3>5. SumOk(x, fs)
      BY <1>2, <3>1, <3>2, <3>3, <3>4, SumOfFlows DEF Progresses
    <3>6. FlowSum(m, fs) = 0
      BY <3>1, <3>5 DEF SumOk, FlowSum
    <3>7. o.availableBw = 0
      <4>1. FlowSum(o, flow[c]) \in Nat /\ ~(FlowSum(o, flow[c]) > 0)
        <5>1. flow[c][Head(o.interfaces)].ssState = "NEW"
          BY <1>3, <2>1
        <5> QED BY <1>3, <2>1, <5>1, SumOfAny, SumOfBandwidths DEF SumOk
      <4> QED BY <1>1, <4>1 DEF Agree
    <3> QED BY <1>3, <3>6, <3>7
  <2>2. CASE i # first
    <3>1. FlowSum(m, fs) = FlowSum(m, flow[c])
      BY <1>1, <1>2, <1>3, <1>6, SameSum
    <3>2. FlowSum(m, flow[c]) = FlowSum(o, flow[c])
      BY <1>3, <2>2 DEF FlowSum
    <3> QED BY <1>1, <1>3, <3>1, <3>2 DEF Agree
  <2> QED BY <2>1, <2>2
<1>9. WasOk("IDLE", fs[i])
  BY <1>2, <1>6 DEF WasOk, WishOk, RoundOk, Progresses
<1>10. ASSUME NEW j \in ToSet(m.subflows) \ {i} PROVE FlowOk(m.state, fs[j])
  <2>1. CASE j \in others
    <3>1. m.state = "BUSY"
      BY <1>3, <2>1
    <3> QED BY <1>4, <2>1, <3>1 DEF FlowOk, WishOk, StateOk, RoundOk, Rounds, Progresses
  <2>2. CASE j \notin others
    <3>1. j \in Flows(c) \ {i} /\ fs[j] = flow[c][j]
      BY <1>2, <1>3, <2>2, SubflowFacts
    <3> QED BY <1>1, <1>3, <3>1
  <2> QED BY <2>1, <2>2
<1>11. TellsIn(c, m, fs, i, "IDLE")
  <2>1. m.desiredBw > 0 <=> m.state = "BUSY"
    BY <1>1, <1>3 DEF Agree
  <2>2. i \in ToSet(m.subflows) /\ fs[i].ssState # "NEW" /\ m.state \in {"IDLE", "BUSY"}
    BY <1>1, <1>2, <1>3
  <2> QED BY <1>1, <1>2, <1>3, <1>6, <1>7, <1>8, <1>9, <1>10, <2>1, <2>2 DEF TellsIn
<1> QED BY <1>11 DEF m, fs

LEMMA HandshakeDoneInv ==
  ASSUME IInv, NEW c \in Conns, NEW i \in Interfaces, HandshakeDone(c, i)
  PROVE  StepInv
<1> DEFINE m == Joining(c, i)
           o == master[c]
           fs == Joined(c, i)
           others == OthersOf(c, i)
<1>1. /\ event = <<c, i>> /\ flow[c][i].ssState = "NEW" /\ event' = NoEvent
      /\ connections' = [j \in Interfaces |-> IF j \in others THEN Append(connections[j], c)
                                              ELSE connections[j]]
      /\ UNCHANGED <<now, tState, outstandingBytes, tConn, size>>
  BY DEF HandshakeDone
<1>2. /\ master \in [Conns -> MasterStorage] /\ flow \in [Conns -> [Interfaces -> FlowStorage]]
      /\ connections \in [Interfaces -> Seq(Conns)] /\ tConn \in [Transfers -> Conns \cup {None}]
      /\ tState \in [Transfers -> {"ENABLED", "ENQUEUED", "ACTIVE", "FINISHED"}]
  BY Types
<1>3. Becomes(UpdateFlowDesiredBw(StOf(c, m, fs), c, i))
  <2>1. [St EXCEPT !.master[c] = m, !.flow[c] = fs] = StOf(c, m, fs)
    <3> HIDE DEF m, fs
    <3> DEFINE ms == [master EXCEPT ![c] = m]
               fl == [flow EXCEPT ![c] = fs]
    <3>1. /\ [St EXCEPT !.master[c] = m] = [St EXCEPT !.master = ms]
          /\ [St EXCEPT !.master = ms].flow = flow
      BY DEF St
    <3> HIDE DEF ms
    <3>2. [St EXCEPT !.master = ms] = [master |-> ms, flow |-> flow]
      BY DEF St
    <3>3. [[master |-> ms, flow |-> flow] EXCEPT !.flow[c] = fs] = [master |-> ms, flow |-> fl]
      OBVIOUS
    <3>4. [St EXCEPT !.master[c] = m, !.flow[c] = fs] = [[St EXCEPT !.master[c] = m] EXCEPT !.flow[c] = fs]
      OBVIOUS
    <3>5. [St EXCEPT !.master[c] = m, !.flow[c] = fs] = [master |-> ms, flow |-> fl]
      BY <3>1, <3>2, <3>3, <3>4
    <3> QED BY <3>5 DEF StOf, ms
  <2>2. Becomes(UpdateFlowDesiredBw([St EXCEPT !.master[c] = m, !.flow[c] = fs], c, i))
    BY DEF HandshakeDone, Joined, Joining
  <2> HIDE DEF m, fs
  <2> QED BY <2>1, <2>2
<1>4. /\ \A d \in Conns \ {c} : Untroubled(d)
      /\ c \in Open /\ i \in Flows(c) /\ o.state \in {"IDLE", "BUSY"} /\ o.desiredBw \in Nat
      /\ \A j \in Flows(c) \ {i} : event # <<c, j>>
  <2>1. o \in MasterStorage
    BY <1>2
  <2> QED BY <1>1, <2>1, EventOfFlow DEF Open, MasterStorage
<1>5. FlowsJoined(c, i, fs)
  BY <1>1, JoinedFlows
<1>6. MasterJoins(c, i, o, m)
  BY <1>1, JoiningMaster
<1>7. TellsIn(c, m, fs, i, "IDLE")
  BY <1>1, JoinTells
<1> HIDE DEF m, fs
<1>8. /\ fs \in [Interfaces -> FlowStorage]
      /\ fs[i].ssState = "SS" /\ fs[i].desiredBw = 0 /\ WindowOk(fs[i])
      /\ fs[i].transferredBytesSum = flow[c][i].transferredBytesSum
      /\ others \subseteq Interfaces \ Flows(c) /\ i \notin others
      /\ \A j \in others : fs[j] = Connected(j, 2) /\ flow[c][j] = NewFlow
      /\ \A j \in Interfaces \ (others \cup {i}) : fs[j] = flow[c][j]
  BY <1>4, <1>5, <1>7 DEF FlowsJoined, TellsIn
<1>9. /\ m \in MasterStorage /\ m.state = o.state /\ m.transfers = o.transfers
      /\ m.outstandingTransferBytesSum = o.outstandingTransferBytesSum
      /\ m.transferredBytesSum = o.transferredBytesSum /\ m.desiredBw = o.desiredBw
      /\ ToSet(m.subflows) = Flows(c) \cup others
      /\ m.desiredBw > 0 <=> m.state = "BUSY"
  BY <1>6, <1>7 DEF MasterJoins, TellsIn
<1> HIDE DEF others
<1>10. /\ OthersStep(c) /\ Whole(master'[c], flow'[c]) /\ Carries(m, master'[c])
       /\ \A j \in Interfaces \ {i} : flow'[c][j] = fs[j]
       /\ Tellable(m, fs[i], flow'[c][i], i)
  BY <1>1, <1>3, <1>7, TellStep
<1>11. StepDone
  BY <1>10, StepOk
<1>12. \A d \in Conns \ {c} : /\ master'[d].state = master[d].state
                              /\ master'[d].transfers = master[d].transfers
                              /\ Flows(d)' = Flows(d) /\ (d \in Open' <=> d \in Open)
                              /\ SumsKept(d)
  BY <1>10, OthersAsBefore
<1>13. /\ master'[c].state = o.state /\ master'[c].transfers = o.transfers
       /\ Flows(c)' = Flows(c) \cup others /\ c \in Open'
  BY <1>4, <1>9, <1>10 DEF Carries, Flows, Open
<1>14. SumsKept(c)
  <2>1. NewFlow.transferredBytesSum = 0
    BY DEF NewFlow
  <2>2. ASSUME NEW j \in others PROVE fs[j].transferredBytesSum = 0
    <3>1. j \in Interfaces /\ now \in Nat /\ 2 \in Nat \ {0}
      BY <1>8, Types
    <3>2. Connected(j, 2).transferredBytesSum = 0
      BY <3>1, ConnectedProperties
    <3> QED BY <1>8, <3>2
  <2>3. ASSUME NEW j \in Interfaces
        PROVE  flow'[c][j].transferredBytesSum = flow[c][j].transferredBytesSum
    <3>1. CASE j = i
      BY <1>8, <1>10, <3>1 DEF Tellable
    <3>2. CASE j \in others
      BY <1>8, <1>10, <2>1, <2>2, <3>2
    <3>3. CASE j \notin others /\ j # i
      BY <1>8, <1>10, <3>3
    <3> QED BY <3>1, <3>2, <3>3
  <2> QED BY <1>9, <1>10, <2>3 DEF SumsKept, Carries
<1>15. PipelinesOk' /\ BytesOk' /\ BytesConserved'
  <2>1. PipelinesOk'
    BY <1>1, <1>12, <1>13, PipelinesKept DEF IInv
  <2>2. BytesOk'
    BY <1>1 DEF IInv, BytesOk
  <2>3. BytesConserved'
    BY <1>1, <1>12, <1>14, BytesKept DEF IInv
  <2> QED BY <2>1, <2>2, <2>3
<1>16. PipesStep
  BY <1>1, <1>12, <1>13, StutterStep
<1>17. connections' \in [Interfaces -> Seq(Conns)]
  BY <1>1, <1>2
<1>18. Listed'
  <2> SUFFICES ASSUME NEW j \in Interfaces
               PROVE  IsInjective(connections'[j])
                      /\ ToSet(connections'[j]) = {d \in Open' : j \in Flows(d)'}
    BY DEF Listed
  <2>1. /\ connections[j] \in Seq(Conns) /\ IsInjective(connections[j])
        /\ ToSet(connections[j]) = {d \in Open : j \in Flows(d)}
    BY <1>2 DEF IInv, Listed
  <2>2. \A d \in Conns : d \in Open' <=> d \in Open
    BY <1>4, <1>12, <1>13
  <2>3. Open' \subseteq Conns /\ Open \subseteq Conns
    BY DEF Open
  <2>4. CASE j \in others
    <3>1. c \notin ToSet(connections[j])
      BY <1>8, <2>1, <2>4
    <3>2. connections'[j] = Append(connections[j], c)
      BY <1>1, <2>4
    <3>3. /\ IsInjective(connections'[j])
          /\ ToSet(connections'[j]) = ToSet(connections[j]) \cup {c}
      BY <2>1, <3>1, <3>2, AppendToInjective
    <3> QED BY <1>4, <1>12, <1>13, <2>1, <2>2, <2>3, <2>4, <3>3
  <2>5. CASE j \notin others
    <3>1. connections'[j] = connections[j]
      BY <1>1, <2>5
    <3>2. \A d \in Conns : j \in Flows(d)' <=> j \in Flows(d)
      BY <1>12, <1>13, <2>5
    <3> QED BY <2>1, <2>2, <2>3, <3>1, <3>2
  <2> QED BY <2>4, <2>5
<1>19. IInv'
  BY <1>1, <1>2, <1>11, <1>15, <1>17, <1>18, AllOk
<1>20. ASSUME Rolls(c) PROVE Rolls(c)'
  <2> SUFFICES ASSUME NEW j \in Flows(c) \cup others, flow'[c][j].ssState = "SS",
                      master'[c].state = "BUSY"
               PROVE  flow'[c][j].nextEvent # None
    BY <1>13 DEF Rolls
  <2>0. j \in Interfaces /\ o.state = "BUSY"
    BY <1>8, <1>13, SubflowFacts
  <2>1. CASE j = i
    <3>1. NewDesiredBw(m, fs[i], i) \in Nat /\ NewDesiredBw(m, fs[i], i) > 0
      <4>1. Progresses(m.state, fs[i])
        BY <1>8, <1>9, <2>0 DEF Progresses
      <4>2. fs[i] \in FlowStorage
        BY <1>8
      <4> QED BY <1>4, <1>8, <1>9, <4>1, <4>2, WishProperties
    <3>2. NewRound(m, fs[i], i)
      BY <1>8, <3>1 DEF NewRound
    <3> QED BY <1>9, <1>10, <2>0, <2>1, <3>2 DEF Tellable
  <2>2. CASE j \in others
    <3>1. now \in Nat /\ 2 \in Nat \ {0}
      BY Types
    <3>2. Connected(j, 2).ssState = "NEW"
      BY <2>0, <3>1, ConnectedProperties
    <3>3. flow'[c][j] = Connected(j, 2)
      BY <1>8, <1>10, <2>0, <2>2
    <3> QED BY <3>2, <3>3
  <2>3. CASE j # i /\ j \notin others
    <3>1. flow'[c][j] = flow[c][j] /\ event # <<c, j>> /\ j \in Flows(c)
      BY <1>4, <1>8, <1>10, <2>0, <2>3
    <3> QED BY <1>20, <2>0, <3>1 DEF Rolls
  <2> QED BY <2>1, <2>2, <2>3
<1>21. \A d \in Conns \ {c} : Rolls(d) => Rolls(d)'
  BY <1>4, <1>10, OthersRoll
<1> QED BY <1>16, <1>19, <1>20, <1>21 DEF StepInv

-----------------------------------------------------------------------------
(* Progress of time *)

\* What a connection with the bandwidth bw, that was set at u, is allowed from n to t.
LEMMA TickArithmetic ==
  ASSUME NEW bw \in Nat, NEW since \in Int, NEW S \in Nat \ {0}, NEW u \in Nat, NEW n \in Nat,
         NEW t \in Nat, u <= n, n <= t, since * S <= bw * (n - u)
  PROVE  /\ (bw * (t - n)) \div S \in Nat
         /\ (since + (bw * (t - n)) \div S) * S <= bw * (t - u)
         /\ (bw * (t - u)) \div S \in Int
         /\ (bw * (t - n)) \div S <= (bw * (t - u)) \div S - since
<1> DEFINE a == bw * (t - n)
           b == bw * (n - u)
           d == bw * (t - u)
<1>1. a \in Nat /\ b \in Nat /\ d \in Nat
  <2>1. t - n \in Nat /\ n - u \in Nat /\ t - u \in Nat
    OBVIOUS
  <2> HIDE DEF a, b, d
  <2> QED BY <2>1 DEF a, b, d
<1>2. d = a + b
  <2>1. bw * ((t - n) + (n - u)) = bw * (t - n) + bw * (n - u)
    OBVIOUS
  <2>2. (t - n) + (n - u) = t - u
    OBVIOUS
  <2> QED BY <2>1, <2>2
<1>3. since * S <= b
  OBVIOUS
<1> HIDE DEF a, b, d
<1> DEFINE q == a \div S
<1>4. q \in Nat /\ q * S <= a /\ d \div S \in Nat
  BY <1>1, Division
<1> HIDE DEF q
<1>5. (since + q) * S <= d
  <2>1. (since + q) * S = since * S + q * S /\ since * S \in Int /\ q * S \in Int
    BY <1>4
  <2> QED BY <1>1, <1>2, <1>3, <1>4, <2>1
<1>6. since + q <= d \div S
  BY <1>1, <1>4, <1>5, DivisionIsGreatest
<1>7. q <= d \div S - since
  <2> DEFINE e == d \div S
  <2>1. e \in Nat /\ since + q <= e
    BY <1>4, <1>6
  <2> HIDE DEF e
  <2>2. q <= e - since
    BY <1>4, <2>1
  <2> QED BY <2>2 DEF e
<1> QED BY <1>4, <1>5, <1>7 DEF q, a, d

\* It never gets more before its deadline than is left of its transfer.
LEMMA NotMoreThanLeft ==
  ASSUME NEW bw \in Nat, NEW since \in Int, NEW S \in Nat \ {0}, NEW u \in Nat, NEW end \in Nat,
         NEW t \in Nat, t <= end, NEW out \in Nat, NEW q \in Nat,
         (since + q) * S <= bw * (t - u), (since + out) * S = bw * (end - u)
  PROVE  q <= out
<1>1. bw * (t - u) <= bw * (end - u)
  <2>1. bw * (end - t) \in Nat
    <3>1. end - t \in Nat
      OBVIOUS
    <3> QED BY <3>1
  <2>2. bw * (end - u) = bw * (end - t) + bw * (t - u)
    <3>1. end - u = (end - t) + (t - u)
      OBVIOUS
    <3>2. bw * ((end - t) + (t - u)) = bw * (end - t) + bw * (t - u)
      OBVIOUS
    <3> QED BY <3>1, <3>2
  <2>3. bw * (t - u) \in Int /\ bw * (end - u) \in Int
    OBVIOUS
  <2> DEFINE x == bw * (end - t)
             y == bw * (t - u)
             z == bw * (end - u)
  <2>4. x \in Nat /\ y \in Int /\ z = x + y
    BY <2>1, <2>2, <2>3
  <2> HIDE DEF x, y, z
  <2>5. y <= z
    BY <2>4
  <2> QED BY <2>5 DEF y, z
<1>2. (since + q) * S <= (since + out) * S
  <2>1. (since + q) * S \in Int /\ bw * (t - u) \in Int /\ bw * (end - u) \in Int
    OBVIOUS
  <2> QED BY <1>1, <2>1
<1> SUFFICES ASSUME q > out PROVE FALSE
  OBVIOUS
<1>3. (since + q) * S >= (since + out + 1) * S
  OBVIOUS
<1>4. (since + out + 1) * S = (since + out) * S + S /\ (since + out) * S \in Int
  OBVIOUS
<1>5. (since + q) * S \in Int
  OBVIOUS
<1> QED BY <1>2, <1>3, <1>4, <1>5

\* What happens until time.
Elapses(time) ==
  /\ event = NoEvent /\ time \in Nat /\ time >= now /\ NoneBefore(time) /\ now' = time
  /\ outstandingBytes' = TickedBytes(time) /\ UNCHANGED <<connections, tState, tConn, size>>
  /\ event' # NoEvent => event' \in Pending /\ TimeOf(event') = time

\* What the active transfer of c gets, and what its subflow on i counts.
Gets(c, time) ==
  IF master[c].state = "BUSY" /\ time # now THEN TickBytes(master[c], time) ELSE 0
FlowGets(c, i, time) ==
  IF flow[c][i].state = "BUSY" /\ flow[c][i].ssState # "NEW" /\ time # now
  THEN (flow[c][i].availableBw * (time - now)) \div Second ELSE 0

Allowed(m, b, time) ==
  /\ b \in 0 .. Left(m)
  /\ (Since(m) + b) * Second <= m.availableBw * (time - m.lastBwUpdate)
  /\ (m.availableBw * (time - now)) \div Second <= b
  /\ m.availableBw = 0 => b = 0
  /\ m.availableBw > 0 /\ time = m.nextEvent => b = Left(m)

LEMMA GetsProperties ==
  ASSUME IInv, NEW c \in Conns, master[c].state = "BUSY", NEW time, Elapses(time)
  PROVE  Allowed(master[c], Gets(c, time), time)
<1> DEFINE m == master[c]
           bw == m.availableBw
           u == m.lastBwUpdate
           since == Since(m)
           out == Left(m)
           end == m.nextEvent
           naive == (bw * (time - now)) \div Second
           most == (bw * (time - u)) \div Second
           allowed == m.lastBwUpdateTransferredBytesSum - m.transferredBytesSum + most
           low == Min({naive, allowed})
           bytes == Max({0, low})
           b == Gets(c, time)
<1>1. /\ m \in MasterStorage /\ now \in Nat /\ out \in Nat /\ m.state = "BUSY"
  BY Types DEF Typed
<1>2. MasterOk(m)
  <2>1. Untroubled(c)
    BY DEF Elapses, Untroubled
  <2> QED BY <2>1, Undisturbed DEF Whole
<1>3. /\ bw \in Nat /\ u \in Nat /\ since \in Int /\ end \in Nat \cup {None}
      /\ m.lastBwUpdateTransferredBytesSum \in Nat /\ m.transferredBytesSum \in Nat
      /\ since = m.transferredBytesSum - m.lastBwUpdateTransferredBytesSum
  <2>1. bw \in 0 .. Sum(Bandwidth, Interfaces)
    BY <1>1 DEF MasterStorage
  <2>2. /\ u \in Nat /\ end \in Nat \cup {None}
        /\ m.lastBwUpdateTransferredBytesSum \in Nat /\ m.transferredBytesSum \in Nat
    BY <1>1 DEF MasterStorage
  <2> QED BY <2>1, <2>2, SumOfBandwidths DEF Since
<1>4. /\ u <= now /\ since * Second <= bw * (now - u)
      /\ IF bw = 0 THEN end = None /\ m.currTransferFinishTime = None
         ELSE /\ end = m.currTransferFinishTime /\ end \in Nat
              /\ (since + out) * Second = bw * (end - u)
              /\ end = now => out = 0
  BY <1>1, <1>2 DEF MasterOk, CapacityOk, DeadlineOk
<1>5. time \in Nat /\ now <= time /\ Second \in Nat \ {0}
  BY <1>1, Constants DEF Elapses
<1>6. end # None => time <= end
  <2>1. <<c, None>> \in Conns \X (Interfaces \cup {None}) /\ TimeOf(<<c, None>>) = end
    BY DEF TimeOf
  <2> QED BY <2>1 DEF Elapses, NoneBefore, Pending
<1>7. TickBytes(m, time) = IF time = m.currTransferFinishTime \/ bytes > out THEN out ELSE bytes
  BY DEF TickBytes, Left
<1>8. b = IF time # now THEN TickBytes(m, time) ELSE 0
  BY <1>1 DEF Gets
<1>9. allowed = most - since
  <2>1. most \in Int
    <3>1. bw * (time - u) \in Int
      BY <1>3, <1>5
    <3> QED BY <1>5, <3>1
  <2> HIDE DEF most, since
  <2> QED BY <1>3, <2>1
<1> HIDE DEF m, bw, u, since, out, end, b
<1>10. /\ naive \in Nat /\ (since + naive) * Second <= bw * (time - u)
       /\ most \in Int /\ naive <= most - since
  <2>1. /\ bw \in Nat /\ since \in Int /\ Second \in Nat \ {0} /\ u \in Nat /\ now \in Nat
        /\ time \in Nat /\ u <= now /\ now <= time /\ since * Second <= bw * (now - u)
    BY <1>1, <1>3, <1>4, <1>5
  <2> HIDE DEF allowed, low, bytes
  <2>2. /\ (bw * (time - now)) \div Second \in Nat
        /\ (since + (bw * (time - now)) \div Second) * Second <= bw * (time - u)
        /\ (bw * (time - u)) \div Second \in Int
        /\ (bw * (time - now)) \div Second <= (bw * (time - u)) \div Second - since
    BY ONLY <2>1, TickArithmetic
  <2> QED BY <2>2
<1>11. bw = 0 => naive = 0
  <2> SUFFICES ASSUME bw = 0 PROVE naive = 0
    OBVIOUS
  <2>1. bw * (time - now) = 0
    BY <1>1, <1>5
  <2> QED BY <1>5, <2>1
<1>12. time = now => naive = 0
  <2> SUFFICES ASSUME time = now PROVE naive = 0
    OBVIOUS
  <2>1. bw * (time - now) = 0
    BY <1>1, <1>3, <1>5
  <2> QED BY <1>5, <2>1
<1>13. naive <= out
  <2>1. CASE bw = 0
    BY <1>1, <1>11, <2>1
  <2>2. CASE bw # 0
    <3>1. end \in Nat /\ time <= end /\ (since + out) * Second = bw * (end - u)
      BY <1>4, <1>6, <2>2, Constants
    <3> HIDE DEF naive
    <3> QED BY <1>1, <1>3, <1>5, <1>10, <3>1, NotMoreThanLeft
  <2> QED BY <2>1, <2>2
<1> HIDE DEF naive, most, allowed
<1>14. low = naive
  <2>1. naive \in Int /\ allowed \in Int /\ naive <= allowed
    BY <1>3, <1>9, <1>10
  <2> QED BY <2>1 DEF Min
<1>15. bytes = naive
  BY <1>10, <1>14 DEF Max
<1> HIDE DEF low, bytes
<1>16. b = IF time # now /\ time = m.currTransferFinishTime THEN out ELSE naive
  BY <1>1, <1>7, <1>8, <1>10, <1>12, <1>13, <1>15
<1>17. b \in 0 .. out /\ naive <= b
  BY <1>1, <1>10, <1>13, <1>16
<1>18. bw = 0 => b = 0
  BY <1>4, <1>5, <1>11, <1>16, Constants
<1>19. bw > 0 /\ time = end => b = out
  BY <1>1, <1>3, <1>4, <1>10, <1>13, <1>16
<1>20. (since + b) * Second <= bw * (time - u)
  <2>1. CASE b = naive
    BY <1>10, <2>1
  <2>2. CASE b # naive
    <3>1. b = out /\ time = m.currTransferFinishTime
      BY <1>16, <2>2
    <3>2. bw # 0
      BY <1>4, <1>5, <3>1, Constants
    <3>3. time = end /\ (since + b) * Second = bw * (time - u)
      BY <1>4, <3>1, <3>2
    <3>4. bw * (time - u) \in Int
      BY <1>3, <1>5
    <3> QED BY <3>3, <3>4
  <2> QED BY <2>1, <2>2
<1>21. Allowed(m, b, time)
  BY <1>17, <1>18, <1>19, <1>20 DEF Allowed, bw, u, since, out, end, naive
<1> QED BY <1>21 DEF m, b

\* The bytes that are left of a transfer are no more than those of its connection.
LEMMA PartOfSum ==
  ASSUME IInv, NEW c \in Conns, NEW t \in Transfers, tConn[t] = c
  PROVE  outstandingBytes[t] <= master[c].outstandingTransferBytesSum
<1> DEFINE on == On(c)
           rest == on \ {t}
<1>1. IsFiniteSet(on) /\ IsFiniteSet(rest) /\ t \in on
  BY Constants, FS_Subset DEF On
<1>2. \A u \in Transfers : outstandingBytes[u] \in Nat
  BY Types
<1>3. master[c].outstandingTransferBytesSum = SumFunctionOnSet(outstandingBytes, on)
  BY SumsAreConserved DEF IInv, SumsOk
<1>4. \A u \in on : outstandingBytes[u] \in Int
  BY <1>2 DEF On
<1>5. \A u \in rest : outstandingBytes[u] \in Nat
  BY <1>2 DEF On
<1> HIDE DEF on
<1>6. SumFunctionOnSet(outstandingBytes, on)
        = outstandingBytes[t] + SumFunctionOnSet(outstandingBytes, rest)
  BY <1>1, <1>4, SumWithout
<1> HIDE DEF rest
<1>7. SumFunctionOnSet(outstandingBytes, rest) \in Nat
  BY <1>1, <1>5, SumOfNaturals
<1> QED BY <1>2, <1>3, <1>6, <1>7

\* The active transfer of a busy connection.
LEMMA ActiveOf ==
  ASSUME IInv, NEW c \in Conns, master[c].state = "BUSY"
  PROVE  LET h == Head(master[c].transfers)
         IN  /\ h \in Transfers /\ tConn[h] = c /\ tState[h] = "ACTIVE"
             /\ Left(master[c]) = outstandingBytes[h] /\ Left(master[c]) \in Nat
             /\ Left(master[c]) <= master[c].outstandingTransferBytesSum
<1> DEFINE h == Head(master[c].transfers)
<1>1. master[c].transfers # <<>> /\ master[c].transfers \in Seq(Transfers)
  BY Types DEF IInv, PipelinesOk
<1>2. h \in Transfers
  BY <1>1
<1>3. tConn[h] = c /\ tState[h] = "ACTIVE"
  BY <1>1, <1>2 DEF IInv, PipelinesOk
<1>4. outstandingBytes[h] \in Nat /\ outstandingBytes[h] <= master[c].outstandingTransferBytesSum
  BY <1>2, <1>3, PartOfSum, Types
<1> QED BY <1>2, <1>3, <1>4 DEF Left

\* A master that gets b bytes, and a subflow that counts b bytes.
MasterMoves(m, r, b) ==
  /\ r \in MasterStorage /\ r.state = m.state /\ r.interfaces = m.interfaces
  /\ r.subflows = m.subflows /\ r.transfers = m.transfers /\ r.availableBw = m.availableBw
  /\ r.desiredBw = m.desiredBw /\ r.bwUpdateInProgress = m.bwUpdateInProgress
  /\ r.idleTimestamp = m.idleTimestamp /\ r.currTransferFinishTime = m.currTransferFinishTime
  /\ r.lastBwUpdate = m.lastBwUpdate
  /\ r.lastBwUpdateTransferredBytesSum = m.lastBwUpdateTransferredBytesSum
  /\ r.transferredBytesSum = m.transferredBytesSum + b
  /\ r.outstandingTransferBytesSum = m.outstandingTransferBytesSum - b
FlowMoves(f, r, b) ==
  /\ r \in FlowStorage /\ r.state = f.state /\ r.ssState = f.ssState /\ r.cwnd >= f.cwnd
  /\ r.availableBw = f.availableBw /\ r.desiredBw = f.desiredBw
  /\ r.transferredBytesSum = f.transferredBytesSum + b /\ b \in Nat

LEMMA MasterTicked ==
  ASSUME IInv, NEW c \in Conns, NEW time, Elapses(time)
  PROVE  /\ MasterMoves(master[c], TickedMasters(time)[c], Gets(c, time))
         /\ TickedMasters(time)[c].nextEvent = master[c].nextEvent
<1> DEFINE m == master[c]
           r == TickedMasters(time)[c]
           b == Gets(c, time)
<1>1. m \in MasterStorage /\ m.transferredBytesSum \in Nat /\ m.outstandingTransferBytesSum \in Nat
  BY Types
<1>2. CASE ~(m.state = "BUSY" /\ time # now)
  <2>1. r = m /\ b = 0
    BY <1>2 DEF TickedMasters, TickMaster, Gets
  <2> HIDE DEF r, m, b
  <2>2. MasterMoves(m, r, b) /\ r.nextEvent = m.nextEvent
    BY <1>1, <2>1 DEF MasterMoves
  <2> QED BY <2>2 DEF m, r, b
<1>3. CASE m.state = "BUSY" /\ time # now
  <2> DEFINE y == m.transferredBytesSum + b
             z == m.outstandingTransferBytesSum - b
  <2>1. r = [m EXCEPT !.transferredBytesSum = y, !.outstandingTransferBytesSum = z]
    BY <1>3 DEF TickedMasters, TickMaster, Gets
  <2>2. b \in 0 .. Left(m)
    BY <1>3, GetsProperties DEF Allowed
  <2>3. Left(m) \in Nat /\ Left(m) <= m.outstandingTransferBytesSum
    BY <1>3, ActiveOf
  <2> HIDE DEF r, m, b
  <2>4. y \in Nat /\ z \in Nat
    BY <1>1, <2>2, <2>3
  <2>5. y = m.transferredBytesSum + b /\ z = m.outstandingTransferBytesSum - b
    OBVIOUS
  <2> HIDE DEF y, z
  <2>6. r \in MasterStorage
    BY <1>1, <2>1, <2>4 DEF MasterStorage
  <2>7. /\ r.state = m.state /\ r.interfaces = m.interfaces
        /\ r.subflows = m.subflows /\ r.transfers = m.transfers /\ r.availableBw = m.availableBw
        /\ r.desiredBw = m.desiredBw /\ r.bwUpdateInProgress = m.bwUpdateInProgress
        /\ r.idleTimestamp = m.idleTimestamp
        /\ r.currTransferFinishTime = m.currTransferFinishTime /\ r.lastBwUpdate = m.lastBwUpdate
        /\ r.lastBwUpdateTransferredBytesSum = m.lastBwUpdateTransferredBytesSum
        /\ r.nextEvent = m.nextEvent /\ r.transferredBytesSum = y
        /\ r.outstandingTransferBytesSum = z
    BY <1>1, <2>1 DEF MasterStorage
  <2>8. MasterMoves(m, r, b) /\ r.nextEvent = m.nextEvent
    BY <2>5, <2>6, <2>7 DEF MasterMoves
  <2> QED BY <2>8 DEF m, r, b
<1> QED BY <1>2, <1>3

LEMMA FlowTicked ==
  ASSUME IInv, NEW c \in Conns, NEW i \in Interfaces, NEW time, Elapses(time)
  PROVE  /\ FlowMoves(flow[c][i], TickedFlows(time)[c][i], FlowGets(c, i, time))
         /\ TickedFlows(time)[c][i].nextEvent = flow[c][i].nextEvent
         /\ flow[c][i].state # "BUSY" => TickedFlows(time)[c][i] = flow[c][i]
<1> DEFINE f == flow[c][i]
           r == TickedFlows(time)[c][i]
           b == FlowGets(c, i, time)
<1>1. /\ f \in FlowStorage /\ f.transferredBytesSum \in Nat /\ f.cwnd \in Nat
      /\ f.availableBw \in Nat
  <2>1. f \in FlowStorage
    BY Types
  <2> QED BY <2>1 DEF FlowStorage
<1>2. now \in Nat /\ time \in Nat /\ time >= now /\ Second \in Nat \ {0}
  BY Types, Constants DEF Elapses
<1>3. CASE ~(f.state = "BUSY" /\ f.ssState # "NEW" /\ time # now)
  <2>1. r = f /\ b = 0
    BY <1>3 DEF TickedFlows, TickFlow, FlowGets
  <2> HIDE DEF f, r, b
  <2>2. FlowMoves(f, r, b) /\ r.nextEvent = f.nextEvent /\ r = f
    BY <1>1, <2>1 DEF FlowMoves
  <2> QED BY <2>2 DEF f, r, b
<1>4. CASE f.state = "BUSY" /\ f.ssState # "NEW" /\ time # now
  <2> DEFINE y == f.transferredBytesSum + b
             w == IF f.ssState = "SS" THEN f.cwnd + b ELSE f.cwnd
  <2>1. r = [f EXCEPT !.transferredBytesSum = y, !.cwnd = w]
    BY <1>4 DEF TickedFlows, TickFlow, FlowGets
  <2>2. b \in Nat
    <3> DEFINE a == f.availableBw * (time - now)
    <3>1. a \in Nat
      <4>1. time - now \in Nat
        BY <1>2
      <4> HIDE DEF f
      <4> QED BY <1>1, <4>1
    <3>2. b = a \div Second
      BY <1>4 DEF FlowGets
    <3> HIDE DEF a, b
    <3> QED BY <1>2, <3>1, <3>2, Division
  <2> HIDE DEF f, r, b
  <2>3. y \in Nat /\ w \in Nat /\ w >= f.cwnd /\ y = f.transferredBytesSum + b
    BY <1>1, <2>2
  <2> HIDE DEF y, w
  <2>4. r \in FlowStorage
    BY <1>1, <2>1, <2>3 DEF FlowStorage
  <2>5. /\ r.state = f.state /\ r.ssState = f.ssState /\ r.cwnd = w
        /\ r.availableBw = f.availableBw /\ r.desiredBw = f.desiredBw
        /\ r.transferredBytesSum = y /\ r.nextEvent = f.nextEvent
    BY <1>1, <2>1 DEF FlowStorage
  <2>6. FlowMoves(f, r, b) /\ r.nextEvent = f.nextEvent
    BY <2>2, <2>3, <2>4, <2>5 DEF FlowMoves
  <2> QED BY <1>4, <2>6 DEF f, r, b
<1> QED BY <1>3, <1>4

\* What a tick does; the event that is taken is gone.
MovesMaster(d, time) ==
  /\ MasterMoves(master[d], master'[d], Gets(d, time))
  /\ master'[d].nextEvent = IF event' = <<d, None>> THEN None ELSE master[d].nextEvent
MovesFlow(d, i, time) ==
  /\ FlowMoves(flow[d][i], flow'[d][i], FlowGets(d, i, time))
  /\ flow'[d][i].nextEvent = IF event' = <<d, i>> THEN None ELSE flow[d][i].nextEvent
  /\ flow[d][i].state # "BUSY" /\ event' # <<d, i>> => flow'[d][i] = flow[d][i]
Moves(time) ==
  /\ Elapses(time)
  /\ master' \in [Conns -> MasterStorage] /\ flow' \in [Conns -> [Interfaces -> FlowStorage]]
  /\ \A d \in Conns : MovesMaster(d, time) /\ \A i \in Interfaces : MovesFlow(d, i, time)

\* Only connections and subflows that are open have events, and none lies in the past.
LEMMA PendingFacts ==
  ASSUME IInv, event = NoEvent, NEW e \in Pending
  PROVE  /\ e = <<e[1], e[2]>> /\ e[1] \in Open /\ TimeOf(e) \in Nat /\ TimeOf(e) >= now
         /\ e[2] = None \/ e[2] \in Flows(e[1])
<1> DEFINE c == e[1]
           i == e[2]
<1>1. e = <<c, i>> /\ c \in Conns /\ i \in Interfaces \cup {None} /\ TimeOf(e) # None
  BY DEF Pending
<1>2. Whole(master[c], flow[c])
  BY <1>1, Undisturbed DEF Untroubled
<1>3. master[c] \in MasterStorage
  BY <1>1, Types
<1>4. CASE i = None
  <2>1. TimeOf(e) = master[c].nextEvent
    BY <1>4 DEF TimeOf
  <2>2. master[c].nextEvent \in Nat /\ master[c].state \in {"NONE", "IDLE", "BUSY", "CLOSED"}
    BY <1>1, <1>3, <2>1 DEF MasterStorage
  <2>3. MasterOk(master[c])
    BY <1>2 DEF Whole
  <2>4. master[c].state \in {"IDLE", "BUSY"} /\ master[c].nextEvent >= now
    BY <1>1, <2>1, <2>2, <2>3 DEF MasterOk, DeadlineOk
  <2> QED BY <1>1, <1>4, <2>1, <2>2, <2>4 DEF Open
<1>5. CASE i # None
  <2>1. TimeOf(e) = flow[c][i].nextEvent /\ i \in Interfaces
    BY <1>1, <1>5 DEF TimeOf
  <2>2. flow[c][i] \in FlowStorage
    BY <1>1, <2>1, Types
  <2>3. flow[c][i].nextEvent \in Nat
    BY <1>1, <2>1, <2>2 DEF FlowStorage
  <2>4. i \in Flows(c)
    <3> SUFFICES ASSUME i \notin Flows(c) PROVE FALSE
      OBVIOUS
    <3>1. flow[c][i] = NewFlow
      BY <1>2, <2>1 DEF Whole, Agree, ShapeOk, Flows
    <3> QED BY <1>1, <2>1, <3>1 DEF NewFlow
  <2>5. RoundOk(master[c].state, flow[c][i])
    BY <1>2, <2>4 DEF Whole, Flows
  <2> QED BY <1>1, <2>1, <2>3, <2>4, <2>5 DEF RoundOk, Open
<1> QED BY <1>4, <1>5

\* The subflows of a connection together count no more than it gets.
LEMMA FlowsGetLess ==
  ASSUME IInv, NEW c \in Conns, NEW time, Elapses(time),
         \A i \in Interfaces : FlowGets(c, i, time) \in Nat
  PROVE  /\ SumFunctionOnSet([i \in Interfaces |-> FlowGets(c, i, time)], Interfaces)
              <= Gets(c, time)
         /\ Gets(c, time) \in Nat
<1> DEFINE m == master[c]
           g == [i \in Interfaces |-> FlowGets(c, i, time)]
           w == [i \in Interfaces |-> flow[c][i].availableBw]
           total == SumFunctionOnSet(g, Interfaces)
           rest == Interfaces \ Flows(c)
<1>1. \A i \in Interfaces : g[i] \in Nat /\ flow[c][i].availableBw \in Nat
  BY FlowTypes, Types
<1>2. Agree(m, flow[c]) /\ Flows(c) \subseteq Interfaces /\ IsFiniteSet(Interfaces)
  BY SubflowFacts, Constants
<1>3. \A i \in rest : flow[c][i] = NewFlow
  BY <1>2 DEF Agree, ShapeOk, Flows
<1>4. now \in Nat /\ time \in Nat /\ time >= now /\ Second \in Nat \ {0}
  BY Types, Constants DEF Elapses
<1>5. CASE m.state # "BUSY" \/ time = now
  <2>1. ASSUME NEW i \in Interfaces PROVE g[i] = 0
    <3>1. CASE time = now
      BY <3>1 DEF FlowGets
    <3>2. CASE m.state # "BUSY"
      <4>1. CASE i \in Flows(c)
        BY <1>2, <3>2, <4>1, SubflowFacts DEF StateOk, FlowGets
      <4>2. CASE i \notin Flows(c)
        BY <1>3, <4>2 DEF NewFlow, FlowGets
      <4> QED BY <4>1, <4>2
    <3> QED BY <1>5, <3>1, <3>2
  <2>2. 0 * Cardinality(Interfaces) = 0
    BY <1>2, FS_CardinalityType
  <2> HIDE DEF g
  <2>3. total = 0
    BY <1>2, <2>1, <2>2, SumOfConstant
  <2>4. Gets(c, time) = 0
    BY <1>5 DEF Gets
  <2> QED BY <2>3, <2>4 DEF g
<1>6. CASE m.state = "BUSY" /\ time # now
  <2> DEFINE dt == time - now
             bw == m.availableBw
  <2>1. dt \in Nat
    BY <1>4
  <2> HIDE DEF dt
  <2>2. ASSUME NEW i \in Interfaces PROVE g[i] \in Int /\ w[i] \in Int /\ g[i] * Second <= w[i] * dt
    <3> DEFINE v == flow[c][i].availableBw
               a == v * dt
    <3>1. v \in Nat /\ w[i] = v /\ g[i] \in Nat
      BY <1>1
    <3>2. g[i] = a \div Second \/ g[i] = 0
      BY DEF FlowGets, dt
    <3> HIDE DEF v, g, w
    <3>3. a \in Nat
      BY <2>1, <3>1
    <3> HIDE DEF a
    <3>4. g[i] * Second <= a
      BY <1>4, <3>2, <3>3, Division
    <3> QED BY <3>1, <3>4 DEF a
  <2>3. SumFunctionOnSet(w, Interfaces) = bw
    <3>1. FlowSum(m, flow[c]) = SumFunctionOnSet(w, Flows(c))
      BY DEF FlowSum, Sum, Flows
    <3>2. \A i \in rest : w[i] = 0
      BY <1>3 DEF NewFlow
    <3>3. IsFiniteSet(rest) /\ IsFiniteSet(Flows(c)) /\ rest \cup Flows(c) = Interfaces
          /\ Flows(c) \cap rest = {} /\ Flows(c) \cup rest = Interfaces
      BY <1>2, FS_Subset
    <3>4. \A i \in Flows(c) \cup rest : w[i] \in Int
      BY <2>2, <3>3
    <3>5. 0 * Cardinality(rest) = 0
      BY <3>3, FS_CardinalityType
    <3> HIDE DEF w, rest
    <3>6. SumFunctionOnSet(w, rest) = 0
      BY <3>2, <3>3, <3>5, SumOfConstant
    <3>7. SumFunctionOnSet(w, Interfaces)
            = SumFunctionOnSet(w, Flows(c)) + SumFunctionOnSet(w, rest)
      BY <3>3, <3>4, SumOfUnion
    <3>8. SumFunctionOnSet(w, Flows(c)) \in Int
      BY <3>3, <3>4, SumType
    <3> QED BY <1>2, <3>1, <3>6, <3>7, <3>8 DEF Agree
  <2>4. bw \in Nat
    <3>1. m \in MasterStorage
      BY Types
    <3> QED BY <3>1, SumOfBandwidths DEF MasterStorage
  <2> HIDE DEF bw
  <2>5. total * Second <= bw * dt /\ total \in Nat
    <3>1. \A i \in Interfaces : g[i] \in Nat
      BY <1>1
    <3> HIDE DEF g, w
    <3>2. total * Second <= SumFunctionOnSet(w, Interfaces) * dt
      BY <1>2, <1>4, <2>1, <2>2, SumScaled
    <3>3. total \in Nat
      BY <1>2, <3>1, SumOfNaturals
    <3> QED BY <2>3, <3>2, <3>3
  <2> HIDE DEF total
  <2>6. total <= (bw * dt) \div Second
    <3> DEFINE a == bw * dt
    <3>1. a \in Nat /\ total * Second <= a
      BY <2>1, <2>4, <2>5
    <3> HIDE DEF a
    <3>2. total <= a \div Second
      BY <1>4, <2>5, <3>1, DivisionIsGreatest
    <3> QED BY <3>2 DEF a
  <2>7. /\ (bw * dt) \div Second <= Gets(c, time) /\ Gets(c, time) \in 0 .. Left(m)
        /\ Left(m) \in Nat
    BY <1>6, GetsProperties, ActiveOf DEF Allowed, bw, dt
  <2>8. (bw * dt) \div Second \in Int
    <3>1. bw * dt \in Nat
      BY <2>1, <2>4
    <3> HIDE DEF bw, dt
    <3> QED BY <1>4, <3>1, Division
  <2> QED BY <2>5, <2>6, <2>7, <2>8 DEF total
<1> QED BY <1>5, <1>6

\* What is left of the transfers.
LEMMA BytesTicked ==
  ASSUME IInv, NEW time, Elapses(time)
  PROVE  /\ outstandingBytes' \in [Transfers -> Nat]
         /\ \A t \in Transfers : tState[t] # "ACTIVE" => outstandingBytes'[t] = outstandingBytes[t]
         /\ \A c \in Conns : master[c].state = "BUSY" =>
              outstandingBytes'[Head(master[c].transfers)] = Left(master[c]) - Gets(c, time)
<1>1. /\ outstandingBytes \in [Transfers -> Nat] /\ tConn \in [Transfers -> Conns \cup {None}]
      /\ \A t \in Transfers : outstandingBytes[t] \in Nat
      /\ outstandingBytes' = TickedBytes(time)
  BY Types DEF Elapses
<1>2. ASSUME NEW t \in Transfers, tState[t] # "ACTIVE"
      PROVE  outstandingBytes'[t] = outstandingBytes[t]
  BY <1>1, <1>2 DEF TickedBytes
<1>3. ASSUME NEW t \in Transfers, tState[t] = "ACTIVE"
      PROVE  /\ tConn[t] \in Conns /\ master[tConn[t]].state = "BUSY"
             /\ t = Head(master[tConn[t]].transfers)
             /\ outstandingBytes'[t] = outstandingBytes[t] - Gets(tConn[t], time)
  <2>1. tConn[t] \in Conns
    <3>1. tConn[t] # None
      BY <1>3 DEF IInv, PipelinesOk
    <3> QED BY <1>1, <3>1
  <2>2. /\ master[tConn[t]].transfers # <<>> /\ t = Head(master[tConn[t]].transfers)
        /\ master[tConn[t]].state = "BUSY"
    BY <1>3, <2>1 DEF IInv, PipelinesOk
  <2>3. outstandingBytes'[t] = outstandingBytes[t] - Gets(tConn[t], time)
    <3>1. CASE time = now
      BY <1>1, <3>1 DEF TickedBytes, Gets
    <3>2. CASE time # now
      BY <1>1, <1>3, <2>2, <3>2 DEF TickedBytes, Gets
    <3> QED BY <3>1, <3>2
  <2> QED BY <2>1, <2>2, <2>3
<1>4. ASSUME NEW c \in Conns, master[c].state = "BUSY"
      PROVE  outstandingBytes'[Head(master[c].transfers)] = Left(master[c]) - Gets(c, time)
  <2> DEFINE h == Head(master[c].transfers)
  <2>1. h \in Transfers /\ tConn[h] = c /\ tState[h] = "ACTIVE" /\ Left(master[c]) = outstandingBytes[h]
    BY <1>4, ActiveOf
  <2> HIDE DEF h
  <2>2. outstandingBytes'[h] = outstandingBytes[h] - Gets(c, time)
    BY <1>3, <2>1
  <2> QED BY <2>1, <2>2 DEF h
<1>5. ASSUME NEW t \in Transfers PROVE outstandingBytes'[t] \in Nat
  <2>1. CASE tState[t] = "ACTIVE"
    <3> DEFINE c == tConn[t]
               b == Gets(c, time)
    <3>1. /\ c \in Conns /\ master[c].state = "BUSY" /\ t = Head(master[c].transfers)
          /\ outstandingBytes'[t] = outstandingBytes[t] - b
      BY <1>3, <2>1
    <3> HIDE DEF c
    <3>2. b \in 0 .. Left(master[c]) /\ Left(master[c]) = outstandingBytes[t]
      BY <3>1, GetsProperties, ActiveOf DEF Allowed
    <3> HIDE DEF b
    <3> QED BY <1>1, <3>1, <3>2
  <2>2. CASE tState[t] # "ACTIVE"
    BY <1>1, <1>2, <2>2
  <2> QED BY <2>1, <2>2
<1>6. outstandingBytes' \in [Transfers -> Nat]
  <2>1. outstandingBytes' = [t \in Transfers |-> outstandingBytes'[t]]
    BY <1>1 DEF TickedBytes
  <2> QED BY <1>5, <2>1
<1> QED BY <1>2, <1>4, <1>6

\* The sums of a connection.
LEMMA SumsTicked ==
  ASSUME IInv, NEW c \in Conns, NEW time, Moves(time)
  PROVE  SumsOk(c)'
<1> DEFINE on == On(c)
           f == outstandingBytes
           g == outstandingBytes'
           p == Got
           q == Got'
           b == Gets(c, time)
           h == Head(master[c].transfers)
           busy == master[c].state = "BUSY"
           x == FlowBytes(c)
           y == FlowBytes(c)'
           z == [i \in Interfaces |-> FlowGets(c, i, time)]
<1>1. Elapses(time) /\ MovesMaster(c, time) /\ \A i \in Interfaces : MovesFlow(c, i, time)
  BY DEF Moves
<1>2. /\ \A t \in Transfers : size[t] \in Nat /\ f[t] \in Nat
      /\ size' = size /\ tConn' = tConn
  BY <1>1, Types DEF Elapses
<1>3. /\ g \in [Transfers -> Nat]
      /\ \A t \in Transfers : tState[t] # "ACTIVE" => g[t] = f[t]
      /\ busy => g[h] = Left(master[c]) - b
  BY <1>1, BytesTicked
<1>4. SumsOk(c) /\ IsFiniteSet(on) /\ on \subseteq Transfers /\ on' = on
  BY <1>2, SumsAreConserved, Constants, FS_Subset DEF IInv, On
<1>5. \A t \in Transfers : p[t] = size[t] - f[t] /\ q[t] = size[t] - g[t]
  BY <1>2 DEF Got
<1>6. \A t \in on : f[t] \in Int /\ g[t] \in Int /\ p[t] \in Int /\ q[t] \in Int
  BY <1>2, <1>3, <1>4, <1>5
<1>7. \A t \in on : ~(busy /\ t = h) => g[t] = f[t] /\ q[t] = p[t]
  <2> SUFFICES ASSUME NEW t \in on, ~(busy /\ t = h) PROVE g[t] = f[t] /\ q[t] = p[t]
    OBVIOUS
  <2>1. tState[t] # "ACTIVE"
    BY DEF IInv, PipelinesOk, On
  <2> QED BY <1>3, <1>4, <1>5, <2>1
<1>8. busy => h \in on /\ Left(master[c]) = f[h]
  BY ActiveOf DEF On
<1>9. \A i \in Interfaces : FlowMoves(flow[c][i], flow'[c][i], FlowGets(c, i, time))
  BY <1>1 DEF MovesFlow
<1>10. \A i \in Interfaces : /\ z[i] \in Nat /\ y[i] = x[i] + z[i] /\ x[i] \in Int /\ y[i] \in Int
  <2>1. \A i \in Interfaces : flow[c][i] \in FlowStorage
    BY Types
  <2> QED BY <1>9, <2>1 DEF FlowMoves, FlowBytes, FlowStorage
<1>11. b \in Nat /\ SumFunctionOnSet(z, Interfaces) <= b
  BY <1>1, <1>10, FlowsGetLess
<1>12. /\ master'[c].transferredBytesSum = master[c].transferredBytesSum + b
       /\ master'[c].outstandingTransferBytesSum = master[c].outstandingTransferBytesSum - b
       /\ master[c].transferredBytesSum \in Nat /\ master[c].outstandingTransferBytesSum \in Nat
  BY <1>1, Types DEF MovesMaster, MasterMoves
<1>13. ~busy => b = 0
  BY DEF Gets
<1>14. /\ master[c].outstandingTransferBytesSum = SumFunctionOnSet(f, on)
       /\ master[c].transferredBytesSum = SumFunctionOnSet(p, on)
       /\ SumFunctionOnSet(x, Interfaces) <= master[c].transferredBytesSum
  BY <1>4 DEF SumsOk
<1>15. IsFiniteSet(Interfaces)
  BY Constants
<1> HIDE DEF busy, x, y, z, p, q, b, h, on
<1> DEFINE k == g
<1>16. /\ \A t \in on : f[t] \in Int /\ k[t] \in Int /\ p[t] \in Int /\ q[t] \in Int
       /\ \A t \in on : ~(busy /\ t = h) => k[t] = f[t] /\ q[t] = p[t]
  BY <1>6, <1>7
<1>17. busy => k[h] = f[h] - b /\ q[h] = p[h] + b /\ h \in on
  <2> SUFFICES ASSUME busy PROVE k[h] = f[h] - b /\ q[h] = p[h] + b /\ h \in on
    OBVIOUS
  <2>1. h \in on /\ h \in Transfers /\ k[h] = f[h] - b
    BY <1>3, <1>4, <1>8
  <2>2. p[h] = size[h] - f[h] /\ q[h] = size[h] - k[h] /\ size[h] \in Nat /\ f[h] \in Nat
    BY <1>2, <1>5, <2>1
  <2> HIDE DEF k
  <2> QED BY <1>11, <2>1, <2>2
<1> HIDE DEF k
<1>18. /\ SumFunctionOnSet(k, on) = SumFunctionOnSet(f, on) - b
       /\ SumFunctionOnSet(q, on) = SumFunctionOnSet(p, on) + b
  <2>1. SumFunctionOnSet(f, on) \in Int /\ SumFunctionOnSet(p, on) \in Int
    BY <1>4, <1>16, SumType
  <2>2. CASE ~busy
    <3>1. \A t \in on : k[t] = f[t] /\ q[t] = p[t]
      BY <1>16, <2>2
    <3>2. SumFunctionOnSet(k, on) = SumFunctionOnSet(f, on)
      BY <1>4, <3>1, SumOfEqual
    <3>3. SumFunctionOnSet(q, on) = SumFunctionOnSet(p, on)
      BY <1>4, <3>1, SumOfEqual
    <3> QED BY <1>13, <2>1, <2>2, <3>2, <3>3
  <2>3. CASE busy
    <3>1. \A t \in on \ {h} : f[t] = k[t] /\ p[t] = q[t]
      BY <1>16
    <3>2. SumFunctionOnSet(k, on) = SumFunctionOnSet(f, on) - f[h] + k[h]
      BY <1>4, <1>16, <1>17, <2>3, <3>1, SumWithChange
    <3>3. SumFunctionOnSet(q, on) = SumFunctionOnSet(p, on) - p[h] + q[h]
      BY <1>4, <1>16, <1>17, <2>3, <3>1, SumWithChange
    <3>4. f[h] \in Int /\ p[h] \in Int
      BY <1>16, <1>17, <2>3
    <3> QED BY <1>11, <1>17, <2>1, <2>3, <3>2, <3>3, <3>4
  <2> QED BY <2>2, <2>3
<1>19. SumFunctionOnSet(y, Interfaces) <= master[c].transferredBytesSum + b
  <2>1. SumFunctionOnSet(y, Interfaces)
          = SumFunctionOnSet(x, Interfaces) + SumFunctionOnSet(z, Interfaces)
    BY <1>10, <1>15, SumOfSums
  <2>2. SumFunctionOnSet(x, Interfaces) \in Int /\ SumFunctionOnSet(z, Interfaces) \in Int
    BY <1>10, <1>15, SumType
  <2> QED BY <1>11, <1>12, <1>14, <2>1, <2>2
<1> QED BY <1>4, <1>12, <1>14, <1>18, <1>19 DEF SumsOk, k, q, y, on

LEMMA MasterStaysOk ==
  ASSUME IInv, NEW c \in Conns, NEW time, Moves(time)
  PROVE  (IF event = <<c, None>> THEN HandledOk(master[c]) ELSE MasterOk(master[c]))'
<1> DEFINE m == master[c]
           r == master'[c]
           b == Gets(c, time)
           bw == m.availableBw
           u == m.lastBwUpdate
           since == Since(m)
           out == Left(m)
           end == m.nextEvent
           left == outstandingBytes'[Head(r.transfers)]
           taken == event' = <<c, None>>
<1>1. Elapses(time) /\ MovesMaster(c, time)
  BY DEF Moves
<1>2. /\ time \in Nat /\ now \in Nat /\ now' = time /\ m \in MasterStorage
      /\ r.state = m.state /\ r.transfers = m.transfers /\ r.availableBw = bw
      /\ r.idleTimestamp = m.idleTimestamp /\ r.currTransferFinishTime = m.currTransferFinishTime
      /\ r.lastBwUpdate = u /\ r.nextEvent = IF taken THEN None ELSE end
      /\ r.lastBwUpdateTransferredBytesSum = m.lastBwUpdateTransferredBytesSum
      /\ r.transferredBytesSum = m.transferredBytesSum + b
  BY <1>1, Types DEF MovesMaster, MasterMoves, Elapses
<1>3. MasterOk(m)
  <2>1. Untroubled(c)
    BY <1>1 DEF Elapses, Untroubled
  <2> QED BY <2>1, Undisturbed DEF Whole
<1>4. end # None => time <= end
  <2>1. <<c, None>> \in Conns \X (Interfaces \cup {None}) /\ TimeOf(<<c, None>>) = end
    BY DEF TimeOf
  <2> QED BY <1>1, <2>1 DEF Elapses, NoneBefore, Pending
<1>5. taken => end = time /\ end # None /\ m.state \in {"IDLE", "BUSY"}
  <2> SUFFICES ASSUME taken PROVE end = time /\ end # None /\ m.state \in {"IDLE", "BUSY"}
    OBVIOUS
  <2>1. event' # NoEvent
    BY Constants DEF NoEvent
  <2>2. event' \in Pending /\ TimeOf(event') = time /\ TimeOf(event') = end /\ end # None
    BY <1>1, <2>1 DEF Elapses, TimeOf, Pending
  <2>3. event'[1] \in Open /\ event'[1] = c
    BY <1>1, <2>2, PendingFacts DEF Elapses
  <2> QED BY <2>2, <2>3 DEF Open
<1>6. CASE m.state = "BUSY"
  <2>1. Allowed(m, b, time) /\ out \in Nat
    BY <1>1, <1>6, GetsProperties, ActiveOf
  <2>2. left = out - b
    BY <1>1, <1>2, <1>6, BytesTicked
  <2>3. /\ bw \in Nat /\ u \in Nat /\ since \in Int /\ end \in Nat \cup {None}
        /\ m.lastBwUpdateTransferredBytesSum \in Nat /\ m.transferredBytesSum \in Nat
        /\ since = m.transferredBytesSum - m.lastBwUpdateTransferredBytesSum
    <3>1. bw \in 0 .. Sum(Bandwidth, Interfaces)
      BY <1>2 DEF MasterStorage
    <3>2. /\ u \in Nat /\ end \in Nat \cup {None}
          /\ m.lastBwUpdateTransferredBytesSum \in Nat /\ m.transferredBytesSum \in Nat
      BY <1>2 DEF MasterStorage
    <3> QED BY <3>1, <3>2, SumOfBandwidths DEF Since
  <2>4. /\ u <= now
        /\ IF bw = 0 THEN end = None /\ m.currTransferFinishTime = None /\ out > 0
           ELSE /\ end = m.currTransferFinishTime /\ end \in Nat
                /\ (since + out) * Second = bw * (end - u)
    BY <1>3, <1>6 DEF MasterOk, CapacityOk, DeadlineOk
  <2>5. /\ b \in 0 .. out /\ (since + b) * Second <= bw * (time - u)
        /\ bw = 0 => b = 0
        /\ bw > 0 /\ time = end => b = out
    BY <2>1 DEF Allowed
  <2>6. b \in Nat /\ Left(master[c])' = out - b
    BY <2>1, <2>2, <2>5 DEF Left
  <2>7. Since(master[c])' = since + b
    <3>1. Since(master[c])' = m.transferredBytesSum + b - m.lastBwUpdateTransferredBytesSum
      <4>1. /\ r.transferredBytesSum = m.transferredBytesSum + b
            /\ r.lastBwUpdateTransferredBytesSum = m.lastBwUpdateTransferredBytesSum
        BY <1>2
      <4>2. Since(master[c])' = r.transferredBytesSum - r.lastBwUpdateTransferredBytesSum
        BY DEF Since
      <4> HIDE DEF r, m, b
      <4> QED BY <2>3, <2>6, <4>1, <4>2
    <3> HIDE DEF b, since
    <3> QED BY <2>3, <2>6, <3>1
  <2>8. now' = time /\ now <= time
    BY <1>1, <1>2 DEF Elapses
  <2> HIDE DEF b, bw, u, since, out, end, left
  <2>9. CapacityOk(master[c])'
    <3>1. u <= time
      BY <1>2, <2>3, <2>4, <2>8
    <3> QED BY <1>2, <2>5, <2>7, <2>8, <3>1 DEF CapacityOk
  <2>10. ASSUME ~taken PROVE DeadlineOk(master[c])'
    <3>1. master'[c].availableBw = bw /\ master'[c].nextEvent = end
      BY <1>2, <2>10
    <3>2. CASE bw = 0
      <4>1. end = None /\ master'[c].currTransferFinishTime = None /\ out - b > 0
        BY <1>2, <2>1, <2>4, <2>5, <3>2
      <4> QED BY <2>6, <3>1, <3>2, <4>1 DEF DeadlineOk
    <3>3. CASE bw # 0
      <4>1. /\ end = master'[c].currTransferFinishTime /\ end \in Nat
            /\ (since + out) * Second = bw * (end - u)
        BY <1>2, <2>4, <3>3
      <4>2. since + b + (out - b) = since + out
        BY <2>1, <2>3, <2>6
      <4>3. end >= time
        BY <1>2, <1>4, <4>1, Constants
      <4>4. end = time => out - b = 0
        BY <2>1, <2>3, <2>5, <3>3
      <4>5. /\ (Since(master[c])' + Left(master[c])') * Second = bw * (end - u)
            /\ end >= now' /\ (end = now' => Left(master[c])' = 0)
        BY <2>6, <2>7, <2>8, <4>1, <4>2, <4>3, <4>4
      <4> QED BY <1>2, <3>1, <3>3, <4>1, <4>5 DEF DeadlineOk
    <3> QED BY <3>2, <3>3
  <2>11. ASSUME taken PROVE DoneOk(master[c])'
    <3>1. end = time /\ end # None /\ bw # 0
      BY <1>5, <2>4, <2>11
    <3>2. b = out /\ (since + b) * Second = bw * (time - u)
      BY <2>3, <2>4, <2>5, <3>1
    <3>3. out - b = 0 /\ bw > 0 /\ u <= time
      BY <1>2, <2>1, <2>3, <2>4, <2>8, <3>1, <3>2
    <3> QED BY <1>2, <2>6, <2>7, <2>8, <3>2, <3>3 DEF DoneOk
  <2> QED BY <1>2, <1>6, <2>9, <2>10, <2>11 DEF MasterOk, HandledOk
<1>7. CASE m.state # "BUSY"
  <2>1. m.state = "IDLE" => m.nextEvent = m.idleTimestamp + IdleTimeout /\ m.nextEvent >= now
    BY <1>3 DEF MasterOk
  <2>2. m.state \notin {"IDLE", "BUSY"} => end = None
    BY <1>3 DEF MasterOk
  <2>3. end \in Nat \cup {None}
    BY <1>2 DEF MasterStorage
  <2>4. m.state = "IDLE" => end >= time /\ end = m.idleTimestamp + IdleTimeout
    BY <1>2, <1>4, <2>1, <2>3, Constants
  <2>5. CASE taken
    BY <1>2, <1>5, <1>7, <2>5 DEF HandledOk
  <2>6. CASE ~taken
    BY <1>2, <1>7, <2>2, <2>4, <2>6 DEF MasterOk
  <2> QED BY <2>5, <2>6
<1> QED BY <1>6, <1>7

LEMMA FlowsStayOk ==
  ASSUME IInv, NEW c \in Conns, NEW time, Moves(time)
  PROVE  /\ Agree(master'[c], flow'[c])
         /\ \A i \in Flows(c) : (IF event = <<c, i>> THEN HandledRound(master[c].state, flow[c][i])
                                 ELSE RoundOk(master[c].state, flow[c][i]))'
<1> DEFINE m == master[c]
           r == master'[c]
           fs == flow[c]
           rs == flow'[c]
<1>1. /\ Elapses(time) /\ MovesMaster(c, time) /\ \A i \in Interfaces : MovesFlow(c, i, time)
      /\ rs \in [Interfaces -> FlowStorage]
  BY DEF Moves
<1>2. /\ m \in MasterStorage /\ time \in Nat /\ now' = time
      /\ fs \in [Interfaces -> FlowStorage] /\ \A i \in Interfaces : fs[i] \in FlowStorage
  BY <1>1, Types DEF Elapses
<1>3. Whole(m, fs)
  <2>1. Untroubled(c)
    BY <1>1 DEF Elapses, Untroubled
  <2> QED BY <2>1, Undisturbed
<1>4. /\ r.state = m.state /\ r.interfaces = m.interfaces /\ r.subflows = m.subflows
      /\ r.availableBw = m.availableBw /\ r.desiredBw = m.desiredBw
      /\ r.bwUpdateInProgress = m.bwUpdateInProgress
  BY <1>1 DEF MovesMaster, MasterMoves
<1>5. ASSUME NEW i \in Interfaces
      PROVE  /\ rs[i].state = fs[i].state /\ rs[i].ssState = fs[i].ssState
             /\ rs[i].cwnd >= fs[i].cwnd /\ rs[i].cwnd \in Nat /\ fs[i].cwnd \in Nat
             /\ rs[i].availableBw = fs[i].availableBw /\ rs[i].desiredBw = fs[i].desiredBw
             /\ rs[i].nextEvent = IF event' = <<c, i>> THEN None ELSE fs[i].nextEvent
             /\ fs[i].nextEvent \in Nat \cup {None}
             /\ fs[i].state # "BUSY" /\ event' # <<c, i>> => rs[i] = fs[i]
  BY <1>1, <1>2 DEF MovesFlow, FlowMoves, FlowStorage
<1>6. Flows(c) \subseteq Interfaces /\ ToSet(m.subflows) = Flows(c)
  BY SubflowFacts DEF Flows
<1>7. ASSUME NEW i \in Interfaces, event' = <<c, i>>
      PROVE  /\ fs[i].nextEvent = time /\ fs[i].nextEvent # None /\ i \in Flows(c)
             /\ c \in Open
  <2>1. event' # NoEvent /\ i # None
    BY <1>7, Constants DEF NoEvent
  <2>2. event' \in Pending /\ TimeOf(event') = time
    BY <1>1, <2>1 DEF Elapses
  <2>3. TimeOf(event') = fs[i].nextEvent /\ fs[i].nextEvent # None
    BY <1>7, <2>1, <2>2 DEF TimeOf, Pending
  <2>4. event'[1] \in Open /\ (event'[2] = None \/ event'[2] \in Flows(event'[1]))
    BY <1>1, <2>2, PendingFacts DEF Elapses
  <2> QED BY <1>7, <2>1, <2>2, <2>3, <2>4
<1>8. ASSUME NEW i \in Interfaces, fs[i].nextEvent # None PROVE time <= fs[i].nextEvent
  <2>1. /\ <<c, i>> \in Conns \X (Interfaces \cup {None})
        /\ TimeOf(<<c, i>>) = fs[i].nextEvent
    BY Constants DEF TimeOf
  <2> QED BY <1>1, <1>8, <2>1 DEF Elapses, NoneBefore, Pending
<1> HIDE DEF m, r, fs, rs
<1>9. Agree(r, rs)
  <2>1. ShapeOk(r, rs)
    <3>1. ShapeOk(m, fs)
      BY <1>3 DEF Whole, Agree
    <3>2. m.state # "NONE" => Head(m.interfaces) \in Interfaces
      BY <3>1, PathProperties DEF ShapeOk
    <3>3. ASSUME NEW i \in Interfaces, i \notin ToSet(m.subflows) PROVE rs[i] = NewFlow
      <4>1. fs[i] = NewFlow /\ i \notin Flows(c)
        BY <1>6, <3>1, <3>3 DEF ShapeOk
      <4> QED BY <1>5, <1>7, <4>1 DEF NewFlow
    <3> QED BY <1>4, <1>5, <3>1, <3>2, <3>3 DEF ShapeOk
  <2>2. FlowSum(r, rs) = FlowSum(m, fs)
    <3>1. FlowSum(m, rs) = FlowSum(m, fs)
      BY <1>1, <1>2, <1>5, SameSum DEF rs, fs
    <3> QED BY <1>4, <3>1 DEF FlowSum
  <2>3. \A i \in Interfaces : WindowOk(rs[i])
    <3>1. \A i \in Interfaces : WindowOk(fs[i])
      BY <1>3 DEF Whole, Agree
    <3> QED BY <1>5, <3>1, Constants DEF WindowOk
  <2>4. \A i \in ToSet(m.subflows) : WishOk(m.state, rs[i]) /\ StateOk(m.state, rs[i])
    <3>1. \A i \in ToSet(m.subflows) : WishOk(m.state, fs[i]) /\ StateOk(m.state, fs[i])
      BY <1>3 DEF Whole, Agree
    <3> QED BY <1>5, <1>6, <3>1 DEF WishOk, StateOk, Progresses
  <2> QED BY <1>3, <1>4, <2>1, <2>2, <2>3, <2>4 DEF Whole, Agree
<1>10. ASSUME NEW i \in Flows(c)
       PROVE  /\ event' = <<c, i>> => HandledRound(r.state, rs[i])
              /\ event' # <<c, i>> => /\ rs[i].nextEvent # None =>
                                           /\ rs[i].nextEvent >= now'
                                           /\ r.state \in {"IDLE", "BUSY"} /\ Rounds(r.state, rs[i])
                                      /\ rs[i].ssState = "NEW" /\ r.state \in {"IDLE", "BUSY"}
                                           => rs[i].nextEvent # None
  <2>1. RoundOk(m.state, fs[i]) /\ i \in Interfaces
    BY <1>3, <1>6 DEF Whole
  <2>2. CASE event' = <<c, i>>
    BY <1>4, <1>5, <1>7, <2>1, <2>2 DEF HandledRound, RoundOk, Rounds
  <2>3. CASE event' # <<c, i>>
    BY <1>2, <1>4, <1>5, <1>8, <2>1, <2>3, Constants DEF RoundOk, Rounds
  <2> QED BY <2>2, <2>3
<1>11. Flows(c)' = Flows(c)
  BY <1>4, <1>6 DEF Flows, r
<1>12. ASSUME NEW i \in Flows(c)
       PROVE  (IF event = <<c, i>> THEN HandledRound(master[c].state, flow[c][i])
               ELSE RoundOk(master[c].state, flow[c][i]))'
  BY <1>10 DEF r, rs, RoundOk
<1> QED BY <1>9, <1>11, <1>12 DEF r, rs

LEMMA MovesInv ==
  ASSUME IInv, NEW time, Moves(time)
  PROVE  StepInv
<1>1. /\ Elapses(time)
      /\ master' \in [Conns -> MasterStorage] /\ flow' \in [Conns -> [Interfaces -> FlowStorage]]
      /\ \A d \in Conns : MovesMaster(d, time) /\ \A i \in Interfaces : MovesFlow(d, i, time)
  BY DEF Moves
<1>2. /\ event = NoEvent /\ time \in Nat /\ now' = time /\ UNCHANGED <<connections, tState, tConn, size>>
      /\ event' # NoEvent => event' \in Pending
  BY <1>1 DEF Elapses
<1>3. /\ connections \in [Interfaces -> Seq(Conns)] /\ tConn \in [Transfers -> Conns \cup {None}]
      /\ tState \in [Transfers -> {"ENABLED", "ENQUEUED", "ACTIVE", "FINISHED"}]
      /\ size \in [Transfers -> Sizes] /\ flow \in [Conns -> [Interfaces -> FlowStorage]]
      /\ \A c \in Conns : master[c] \in MasterStorage /\ flow[c] \in [Interfaces -> FlowStorage]
      /\ \A c \in Conns, i \in Interfaces : flow[c][i].availableBw <= Bandwidth[i]
      /\ \A c \in Conns : ~master[c].bwUpdateInProgress
  BY Types DEF IInv, TypeOK
<1>4. \A d \in Conns : /\ master'[d].state = master[d].state
                       /\ master'[d].transfers = master[d].transfers
                       /\ master'[d].subflows = master[d].subflows
                       /\ master'[d].bwUpdateInProgress = master[d].bwUpdateInProgress
  BY <1>1 DEF MovesMaster, MasterMoves
<1>5. \A d \in Conns, i \in Interfaces :
        /\ flow'[d][i].availableBw = flow[d][i].availableBw
        /\ flow'[d][i].ssState = flow[d][i].ssState
        /\ event' # <<d, i>> => flow'[d][i].nextEvent = flow[d][i].nextEvent
  BY <1>1 DEF MovesFlow, FlowMoves
<1>6. Open' = Open /\ \A d \in Conns : Flows(d)' = Flows(d)
  BY <1>4 DEF Open, Flows
<1>7. /\ outstandingBytes' \in [Transfers -> Nat]
      /\ \A t \in Transfers : tState[t] # "ACTIVE" => outstandingBytes'[t] = outstandingBytes[t]
  BY <1>1, BytesTicked
<1>8. StepDone
  <2>1. ASSUME NEW d \in Conns PROVE ConnOk(d)' /\ ~master'[d].bwUpdateInProgress
    <3>1. (IF event = <<d, None>> THEN HandledOk(master[d]) ELSE MasterOk(master[d]))'
      BY MasterStaysOk
    <3>2. /\ Agree(master'[d], flow'[d])
          /\ \A i \in Flows(d) : (IF event = <<d, i>> THEN HandledRound(master[d].state, flow[d][i])
                                  ELSE RoundOk(master[d].state, flow[d][i]))'
      BY FlowsStayOk
    <3>3. Agree(master[d], flow[d])'
      BY <3>2 DEF Agree, ShapeOk, FlowSum
    <3>4. (\A i \in Flows(d) : IF event = <<d, i>> THEN HandledRound(master[d].state, flow[d][i])
                               ELSE RoundOk(master[d].state, flow[d][i]))'
      BY <1>6, <3>2
    <3> QED BY <1>3, <1>4, <3>1, <3>3, <3>4 DEF ConnOk
  <2>2. SharesFit(flow)'
    <3> SUFFICES ASSUME NEW i \in Interfaces PROVE ColumnSum(flow', i) <= Bandwidth[i]
      BY DEF SharesFit, ColumnSum
    <3>1. [c \in Conns |-> flow'[c][i].availableBw] = [c \in Conns |-> flow[c][i].availableBw]
      BY <1>5
    <3> QED BY <3>1 DEF IInv, SharesFit, ColumnSum
  <2>3. /\ EventOk'
        /\ event' \in (Conns \X (Interfaces \cup {None})) \cup {NoEvent}
    <3>1. CASE event' = NoEvent
      BY <3>1 DEF EventOk
    <3>2. CASE event' # NoEvent
      <4>1. event' \in Pending
        BY <1>2, <3>2
      <4>2. /\ event'[1] \in Open /\ (event'[2] = None \/ event'[2] \in Flows(event'[1]))
            /\ event' \in Conns \X (Interfaces \cup {None})
        BY <1>2, <4>1, PendingFacts DEF Pending
      <4>3. event'[1] \in Conns
        BY <4>2 DEF Open
      <4>4. master'[event'[1]].subflows = master[event'[1]].subflows
        BY <1>4, <4>3
      <4> QED BY <1>6, <4>2, <4>4 DEF EventOk, Flows
    <3> QED BY <3>1, <3>2
  <2>4. \A d \in Conns, j \in Interfaces : flow'[d][j].availableBw <= Bandwidth[j]
    BY <1>3, <1>5
  <2> QED BY <1>1, <1>2, <1>3, <1>7, <2>1, <2>2, <2>3, <2>4 DEF StepDone
<1>9. Listed'
  BY <1>2, <1>6, ListedKept DEF IInv
<1>10. PipelinesOk'
  BY <1>2, <1>4, PipelinesKept DEF IInv
<1>11. BytesOk'
  BY <1>2, <1>7 DEF IInv, BytesOk
<1>12. BytesConserved'
  <2>1. \A c \in Conns : SumsOk(c)'
    BY SumsTicked
  <2> QED BY <2>1 DEF BytesConserved, SumsOk, On, Got, FlowBytes
<1>13. IInv'
  BY <1>2, <1>3, <1>8, <1>9, <1>10, <1>11, <1>12, AllOk
<1>14. PipesStep
  BY <1>2, <1>4, StutterStep
<1>15. ASSUME NEW d \in Conns, Rolls(d) PROVE Rolls(d)'
  <2> SUFFICES ASSUME NEW i \in Flows(d), flow'[d][i].ssState = "SS",
                      master'[d].state = "BUSY", event' # <<d, i>>
               PROVE  flow'[d][i].nextEvent # None
    BY <1>6 DEF Rolls
  <2>1. i \in Interfaces /\ event # <<d, i>>
    BY <1>2, SubflowFacts, Constants DEF NoEvent
  <2> QED BY <1>4, <1>5, <1>15, <2>1 DEF Rolls
<1> QED BY <1>13, <1>14, <1>15 DEF StepInv

LEMMA TickedTypes ==
  ASSUME IInv, NEW time, Elapses(time)
  PROVE  /\ TickedMasters(time) \in [Conns -> MasterStorage]
         /\ TickedFlows(time) \in [Conns -> [Interfaces -> FlowStorage]]
<1> DEFINE ms == TickedMasters(time)
           fs == TickedFlows(time)
<1>1. master \in [Conns -> MasterStorage] /\ flow \in [Conns -> [Interfaces -> FlowStorage]]
  BY Types
<1>2. ms = [c \in Conns |-> ms[c]]
  BY <1>1 DEF TickedMasters
<1>3. fs = [c \in Conns |-> [i \in Interfaces |-> fs[c][i]]]
  BY <1>1 DEF TickedFlows
<1>4. \A c \in Conns : ms[c] \in MasterStorage
  BY MasterTicked DEF MasterMoves
<1>5. \A c \in Conns, i \in Interfaces : fs[c][i] \in FlowStorage
  BY FlowTicked DEF FlowMoves
<1> HIDE DEF ms, fs
<1>6. ms \in [Conns -> MasterStorage] /\ fs \in [Conns -> [Interfaces -> FlowStorage]]
  BY <1>2, <1>3, <1>4, <1>5
<1> QED BY <1>6 DEF ms, fs

LEMMA OtherEventInv ==
  ASSUME IInv, NEW time \in OtherTimes, OtherEvent(time)
  PROVE  StepInv
<1>1. time \in Nat /\ now \in Nat
  BY TimesAssumption, Types
<1>2. Elapses(time) /\ event' = NoEvent /\ master' = TickedMasters(time) /\ flow' = TickedFlows(time)
  BY <1>1 DEF OtherEvent, Elapses, Pass
<1>3. \A d \in Conns : MovesMaster(d, time)
  BY <1>2, MasterTicked, Constants DEF MovesMaster, NoEvent
<1>4. \A d \in Conns, i \in Interfaces : MovesFlow(d, i, time)
  BY <1>2, FlowTicked, Constants DEF MovesFlow, NoEvent
<1>5. Moves(time)
  BY <1>2, <1>3, <1>4, TickedTypes DEF Moves
<1> QED BY <1>5, MovesInv

LEMMA TakeEventInv ==
  ASSUME IInv, NEW e \in Pending, TakeEvent(e)
  PROVE  StepInv
<1> DEFINE time == TimeOf(e)
           ms == TickedMasters(time)
           fs == TickedFlows(time)
           c == e[1]
           i == e[2]
<1>1. /\ event = NoEvent /\ event' = e /\ Pass(time)
      /\ IF i = None THEN master' = [ms EXCEPT ![c].nextEvent = None] /\ flow' = fs
         ELSE master' = ms /\ flow' = [fs EXCEPT ![c][i].nextEvent = None]
  BY DEF TakeEvent
<1>2. /\ e = <<c, i>> /\ c \in Open /\ time \in Nat /\ time >= now
      /\ i = None \/ i \in Flows(c)
  BY <1>1, PendingFacts
<1>3. c \in Conns /\ (i = None \/ i \in Interfaces) /\ e # NoEvent
  <2>1. c \in Conns
    BY <1>2 DEF Open
  <2>2. i = None \/ i \in Interfaces
    BY <1>2, <2>1, SubflowFacts
  <2> QED BY <1>2, <2>1, <2>2, Constants DEF NoEvent
<1>4. Elapses(time)
  BY <1>1, <1>2 DEF Elapses, Pass
<1> HIDE DEF time, ms, fs, c, i
<1>5. ms \in [Conns -> MasterStorage] /\ fs \in [Conns -> [Interfaces -> FlowStorage]]
  BY <1>4, TickedTypes DEF ms, fs
<1>6. \A d \in Conns : /\ MasterMoves(master[d], ms[d], Gets(d, time))
                       /\ ms[d].nextEvent = master[d].nextEvent
  BY <1>4, MasterTicked DEF ms
<1>7. \A d \in Conns, j \in Interfaces :
        /\ FlowMoves(flow[d][j], fs[d][j], FlowGets(d, j, time))
        /\ fs[d][j].nextEvent = flow[d][j].nextEvent
        /\ flow[d][j].state # "BUSY" => fs[d][j] = flow[d][j]
  BY <1>4, FlowTicked DEF fs
<1>8. CASE i = None
  <2> DEFINE r == [ms[c] EXCEPT !.nextEvent = None]
  <2>1. master' = [ms EXCEPT ![c] = r] /\ flow' = fs /\ ms[c] \in MasterStorage
    BY <1>1, <1>3, <1>5, <1>8
  <2>2. r \in MasterStorage
    BY <2>1 DEF MasterStorage
  <2>3. MasterMoves(master[c], r, Gets(c, time)) /\ r.nextEvent = None
    <3>1. MasterMoves(master[c], ms[c], Gets(c, time))
      BY <1>3, <1>6
    <3> QED BY <2>1, <2>2, <3>1 DEF MasterMoves, MasterStorage
  <2> HIDE DEF r
  <2>4. master'[c] = r /\ (\A d \in Conns \ {c} : master'[d] = ms[d])
        /\ master' \in [Conns -> MasterStorage]
    BY <1>3, <1>5, <2>1, <2>2
  <2>5. \A d \in Conns : event' = <<d, None>> <=> d = c
    BY <1>1, <1>2, <1>8
  <2>6. \A d \in Conns, j \in Interfaces : event' # <<d, j>>
    BY <1>1, <1>2, <1>8, Constants
  <2>7. \A d \in Conns : MovesMaster(d, time)
    BY <1>6, <2>3, <2>4, <2>5 DEF MovesMaster
  <2>8. \A d \in Conns, j \in Interfaces : MovesFlow(d, j, time)
    BY <1>7, <2>1, <2>6 DEF MovesFlow
  <2>9. Moves(time)
    BY <1>4, <1>5, <2>1, <2>4, <2>7, <2>8 DEF Moves
  <2> QED BY <2>9, MovesInv
<1>9. CASE i # None
  <2> DEFINE r == [fs[c][i] EXCEPT !.nextEvent = None]
             rs == [fs[c] EXCEPT ![i] = r]
  <2>0. i \in Interfaces
    BY <1>3, <1>9
  <2>1. flow' = [fs EXCEPT ![c] = rs] /\ master' = ms /\ fs[c][i] \in FlowStorage
    BY <1>1, <1>3, <1>5, <1>9, <2>0
  <2>2. r \in FlowStorage
    BY <2>1 DEF FlowStorage
  <2>3. FlowMoves(flow[c][i], r, FlowGets(c, i, time)) /\ r.nextEvent = None
    <3>1. FlowMoves(flow[c][i], fs[c][i], FlowGets(c, i, time))
      BY <1>3, <1>7, <2>0
    <3> QED BY <2>1, <2>2, <3>1 DEF FlowMoves, FlowStorage
  <2> HIDE DEF r
  <2>4. rs \in [Interfaces -> FlowStorage] /\ rs[i] = r
        /\ \A j \in Interfaces \ {i} : rs[j] = fs[c][j]
    BY <1>3, <1>5, <2>0, <2>2
  <2> HIDE DEF rs
  <2>5. flow'[c] = rs /\ (\A d \in Conns \ {c} : flow'[d] = fs[d])
        /\ flow' \in [Conns -> [Interfaces -> FlowStorage]]
    BY <1>3, <1>5, <2>1, <2>4
  <2>6. \A d \in Conns, j \in Interfaces : event' = <<d, j>> <=> d = c /\ j = i
    BY <1>1, <1>2
  <2>7. \A d \in Conns : event' # <<d, None>>
    BY <1>1, <1>2, <1>9
  <2>8. \A d \in Conns : MovesMaster(d, time)
    BY <1>6, <2>1, <2>7 DEF MovesMaster
  <2>9. ASSUME NEW d \in Conns, NEW j \in Interfaces PROVE MovesFlow(d, j, time)
    <3>1. CASE d = c /\ j = i
      BY <2>3, <2>4, <2>5, <2>6, <3>1 DEF MovesFlow
    <3>2. CASE ~(d = c /\ j = i)
      <4>1. flow'[d][j] = fs[d][j]
        BY <2>4, <2>5, <3>2
      <4> QED BY <1>7, <2>6, <3>2, <4>1 DEF MovesFlow
    <3> QED BY <3>1, <3>2
  <2>10. Moves(time)
    BY <1>4, <1>5, <2>1, <2>5, <2>8, <2>9 DEF Moves
  <2> QED BY <2>10, MovesInv
<1> QED BY <1>8, <1>9

-----------------------------------------------------------------------------
(* Every step *)

LEMMA StutterInv == ASSUME IInv, UNCHANGED vars PROVE StepInv
<1>1. /\ now' = now /\ event' = event /\ master' = master /\ flow' = flow
      /\ connections' = connections /\ tState' = tState /\ outstandingBytes' = outstandingBytes
      /\ tConn' = tConn /\ size' = size
  BY DEF vars
<1>2. TypeOK'
  BY <1>1 DEF IInv, TypeOK
<1>3. Listed'
  BY <1>1 DEF IInv, Listed, Open, Flows
<1>4. PipelinesOk'
  BY <1>1, PipelinesKept DEF IInv
<1>5. BytesOk'
  BY <1>1 DEF IInv, BytesOk
<1>6. BytesConserved'
  BY <1>1, BytesKept DEF IInv, SumsKept
<1>7. SharesFit(flow)'
  BY <1>1 DEF IInv, SharesFit, ColumnSum
<1>8. EventOk'
  <2>1. Open' = Open
    BY <1>1 DEF Open
  <2> QED BY <1>1, <2>1 DEF IInv, EventOk, Flows
<1>9. ASSUME NEW c \in Conns PROVE ConnOk(c)'
  <2>1. ConnOk(c)
    BY DEF IInv
  <2>2. Agree(master[c], flow[c])'
    BY <1>1, <2>1 DEF ConnOk, Agree, ShapeOk, FlowSum
  <2>3. HandledOk(master[c]) => HandledOk(master[c])'
    BY <1>1 DEF HandledOk, DoneOk, Left, Since
  <2>4. MasterOk(master[c]) => MasterOk(master[c])'
    BY <1>1 DEF MasterOk, CapacityOk, DeadlineOk, Left, Since
  <2>5. ASSUME NEW i \in Interfaces
        PROVE  RoundOk(master[c].state, flow[c][i]) => RoundOk(master[c].state, flow[c][i])'
    BY <1>1 DEF RoundOk
  <2>6. Flows(c)' = Flows(c) /\ Flows(c) \subseteq Interfaces
    BY <1>1, SubflowFacts DEF Flows
  <2>7. (\A i \in Flows(c) : IF event = <<c, i>> THEN HandledRound(master[c].state, flow[c][i])
                             ELSE RoundOk(master[c].state, flow[c][i]))'
    BY <1>1, <2>1, <2>5, <2>6 DEF ConnOk, HandledRound
  <2> QED BY <1>1, <2>1, <2>2, <2>3, <2>4, <2>7 DEF ConnOk
<1>10. IInv'
  BY <1>2, <1>3, <1>4, <1>5, <1>6, <1>7, <1>8, <1>9 DEF IInv
<1>11. PipesStep
  BY <1>1, StutterStep
<1>12. \A d \in Conns : Rolls(d) => Rolls(d)'
  BY <1>1 DEF Rolls, Flows
<1> QED BY <1>10, <1>11, <1>12 DEF StepInv

\* A round of slow start changes what a connection wants.
Round == \A c \in Conns, i \in Interfaces : NextRound(c, i) => NewWish(c, i)

LEMMA NextInv ==
  ASSUME IInv, [Next]_vars
  PROVE  IInv' /\ PipesStep /\ (Round => \A d \in Conns : Rolls(d) => Rolls(d)')
<1> DEFINE Rolled == Round => \A d \in Conns : Rolls(d) => Rolls(d)'
           Goal == IInv' /\ PipesStep /\ Rolled
<1>0. StepInv => Goal
  BY DEF StepInv
<1>1. ASSUME NEW c \in Conns, NEW i \in Interfaces, NextRound(c, i) PROVE Goal
  <2>1. IInv' /\ PipesStep /\ (NewWish(c, i) => \A d \in Conns : Rolls(d) => Rolls(d)')
    BY <1>1, NextRoundInv
  <2>2. Round => NewWish(c, i)
    BY <1>1 DEF Round
  <2> QED BY <2>1, <2>2
<1> HIDE DEF Goal
<1>2. ASSUME NEW c \in Conns, NEW t \in Transfers, Connect(c, t) PROVE Goal
  BY <1>0, <1>2, ConnectInv
<1>3. ASSUME NEW c \in Conns, NEW t \in Transfers, AddTransfer(c, t) PROVE Goal
  BY <1>0, <1>3, AddTransferInv
<1>4. ASSUME NEW c \in Conns, CloseIdle(c) PROVE Goal
  BY <1>0, <1>4, CloseIdleInv
<1>5. ASSUME NEW e \in Pending, TakeEvent(e) PROVE Goal
  BY <1>0, <1>5, TakeEventInv
<1>6. ASSUME NEW c \in Conns, GoIdle(c) PROVE Goal
  BY <1>0, <1>6, GoIdleInv
<1>7. ASSUME NEW c \in Conns, StartNext(c) PROVE Goal
  BY <1>0, <1>7, StartNextInv
<1>8. ASSUME NEW c \in Conns, TimeOut(c) PROVE Goal
  BY <1>0, <1>8, TimeOutInv
<1>9. ASSUME NEW c \in Conns, NEW i \in Interfaces, HandshakeDone(c, i) PROVE Goal
  BY <1>0, <1>9, HandshakeDoneInv
<1>10. ASSUME NEW time \in OtherTimes, OtherEvent(time) PROVE Goal
  BY <1>0, <1>10, OtherEventInv
<1>11. ASSUME UNCHANGED vars PROVE Goal
  BY <1>0, <1>11, StutterInv
<1>12. Goal
  BY <1>1, <1>2, <1>3, <1>4, <1>5, <1>6, <1>7, <1>8, <1>9, <1>10, <1>11 DEF Next, Run
<1> QED BY <1>12 DEF Goal

\* The inductive invariant: the interfaces list the subflows of the open connections, the
\* pipelines hold what was sent and is not finished, a subflow has a share if and only if it
\* transfers something, a connection has the sum of them, its deadline is exact, and it and its
\* subflows have only events that their states ask for.
THEOREM InvariantHolds == Spec => []IInv
<1>1. Init => IInv
  BY InitInv
<1>2. IInv /\ [Next]_vars => IInv'
  BY NextInv
<1> QED BY <1>1, <1>2, PTL DEF Spec

\* The variables keep their types: no sum of bytes and no bandwidth becomes negative, the
\* bandwidth of a connection is no more than its interfaces have together, a subflow has no
\* more than its interface, and bwUpdateInProgress is never left set.
THEOREM TypeCorrect == Spec => []TypeOK
<1>1. IInv => TypeOK
  BY DEF IInv
<1> QED BY <1>1, InvariantHolds, PTL

\* Master and subflows count bytes separately and truncate separately, but the sums of the
\* master are those of its transfers, and its subflows together never count more.
THEOREM BytesAreConserved == Spec => []BytesConserved
<1>1. IInv => BytesConserved
  BY DEF IInv
<1> QED BY <1>1, InvariantHolds, PTL

LEMMA SharesOfAll == IInv => SharesAddUp
<1> SUFFICES ASSUME IInv PROVE SharesAddUp
  OBVIOUS
<1>1. ASSUME NEW c \in Open
      PROVE  /\ master[c].availableBw
                  = SumFunctionOnSet([i \in Interfaces |-> flow[c][i].availableBw], Flows(c))
             /\ master[c].state = "IDLE" =>
                  \A i \in Flows(c) : /\ flow[c][i].state = "IDLE"
                                      /\ flow[c][i].desiredBw = 0 /\ flow[c][i].availableBw = 0
  <2>1. c \in Conns
    BY DEF Open
  <2>2. /\ Agree(master[c], flow[c]) /\ Flows(c) \subseteq Interfaces
        /\ \A i \in Flows(c) : WishOk(master[c].state, flow[c][i]) /\ StateOk(master[c].state, flow[c][i])
    BY <2>1, SubflowFacts
  <2>3. \A i \in Flows(c) : flow[c][i].desiredBw \in Nat /\ flow[c][i].availableBw \in Nat
    BY <2>1, <2>2, Types, FlowTypes
  <2>4. master[c].availableBw
          = SumFunctionOnSet([i \in Interfaces |-> flow[c][i].availableBw], Flows(c))
    BY <2>2 DEF Agree, FlowSum, Sum, Flows
  <2>5. ASSUME master[c].state = "IDLE", NEW i \in Flows(c)
        PROVE  flow[c][i].state = "IDLE" /\ flow[c][i].desiredBw = 0 /\ flow[c][i].availableBw = 0
    BY <2>2, <2>3, <2>5 DEF WishOk, StateOk, Progresses
  <2> QED BY <2>4, <2>5
<1> QED BY <1>1 DEF SharesAddUp, IdleFlows

\* While a connection tells its subflows what it wants it does not listen to them, and others
\* may change their shares at any time: still it always has the sum of their bandwidths, and
\* none while it is idle (setAvailableBw and updateAvailableBw of the master).
THEOREM SharesDoAddUp == Spec => []SharesAddUp
BY SharesOfAll, InvariantHolds, PTL

LEMMA DeadlinesKept == IInv => DoneAtDeadline
<1> SUFFICES ASSUME IInv, NEW c \in Open, master[c].state = "BUSY"
             PROVE  LET out == outstandingBytes[Head(master[c].transfers)]
                    IN  IF event = <<c, None>> THEN out = 0 ELSE out = 0 => master[c].nextEvent = now
  BY DEF DoneAtDeadline
<1> DEFINE m == master[c]
           out == Left(m)
           bw == m.availableBw
           u == m.lastBwUpdate
           end == m.nextEvent
           since == Since(m)
<1>1. c \in Conns
  BY DEF Open
<1>2. ConnOk(c) /\ m \in MasterStorage /\ now \in Nat
  BY <1>1, Types DEF IInv
<1>3. CASE event = <<c, None>>
  <2>1. out = 0
    BY <1>2, <1>3 DEF ConnOk, HandledOk, DoneOk
  <2> QED BY <1>3, <2>1 DEF Left
<1>4. CASE event # <<c, None>>
  <2> SUFFICES ASSUME out = 0 PROVE end = now
    BY <1>4 DEF Left
  <2>1. CapacityOk(m) /\ DeadlineOk(m)
    BY <1>2, <1>4 DEF ConnOk, MasterOk
  <2>2. /\ u <= now /\ since * Second <= bw * (now - u) /\ bw # 0 /\ end \in Nat /\ end >= now
        /\ (since + 0) * Second = bw * (end - u)
    BY <2>1 DEF CapacityOk, DeadlineOk
  <2>3. bw \in Nat /\ u \in Nat /\ since \in Int
    <3>1. bw \in 0 .. Sum(Bandwidth, Interfaces)
      BY <1>2 DEF MasterStorage
    <3>2. u \in Nat /\ m.lastBwUpdateTransferredBytesSum \in Nat /\ m.transferredBytesSum \in Nat
      BY <1>2 DEF MasterStorage
    <3> QED BY <3>1, <3>2, SumOfBandwidths DEF Since
  <2> HIDE DEF bw, u, end, since
  <2>4. bw * (end - u) <= bw * (now - u)
    BY <2>2, <2>3, Constants
  <2>5. bw * (end - u) = bw * (now - u) + bw * (end - now)
    <3>1. end - u = (now - u) + (end - now)
      BY <1>2, <2>2, <2>3
    <3>2. bw * ((now - u) + (end - now)) = bw * (now - u) + bw * (end - now)
      BY <1>2, <2>2, <2>3
    <3> QED BY <3>1, <3>2
  <2>6. bw * (now - u) \in Int /\ bw * (end - now) \in Int
    BY <1>2, <2>2, <2>3
  <2>7. bw * (end - now) <= 0
    <3> DEFINE x == bw * (end - u)
               y == bw * (now - u)
               z == bw * (end - now)
    <3>1. x <= y /\ x = y + z /\ y \in Int /\ z \in Int
      BY <2>4, <2>5, <2>6
    <3> HIDE DEF x, y, z
    <3>2. z <= 0
      BY <3>1
    <3> QED BY <3>2 DEF z
  <2>8. end - now <= 0
    <3> SUFFICES ASSUME end - now >= 1 PROVE FALSE
      BY <1>2, <2>2
    <3>1. bw * (end - now) >= 1
      BY <1>2, <2>2, <2>3
    <3> QED BY <1>2, <2>2, <2>3, <2>6, <2>7, <3>1
  <2> QED BY <1>2, <2>2, <2>8
<1> QED BY <1>3, <1>4

\* When the event of a busy connection comes, nothing of its active transfer is left (the
\* assertion of mptcpConnection.py:128), whatever was truncated and however often its subflows
\* have changed their shares since; and no transfer has all its bytes before that.
THEOREM DeadlinesAreExact == Spec => []DoneAtDeadline
BY DeadlinesKept, InvariantHolds, PTL

LEMMA BandwidthKept == IInv => WithinBandwidth
<1> SUFFICES ASSUME IInv PROVE WithinBandwidth
  OBVIOUS
<1>1. ASSUME NEW c \in Open, master[c].state = "BUSY"
      PROVE  (master[c].transferredBytesSum - master[c].lastBwUpdateTransferredBytesSum) * Second
               <= master[c].availableBw * (now - master[c].lastBwUpdate)
  <2> DEFINE x == Since(master[c]) * Second
             y == master[c].availableBw * (now - master[c].lastBwUpdate)
  <2>1. c \in Conns
    BY DEF Open
  <2>2. ConnOk(c)
    BY <2>1 DEF IInv
  <2>3. x <= y \/ x = y
    BY <1>1, <2>2 DEF ConnOk, HandledOk, DoneOk, MasterOk, CapacityOk
  <2>4. y \in Int
    <3>1. master[c] \in MasterStorage /\ now \in Nat
      BY <2>1, Types
    <3>2. master[c].availableBw \in 0 .. Sum(Bandwidth, Interfaces) /\ master[c].lastBwUpdate \in Nat
      BY <3>1 DEF MasterStorage
    <3> QED BY <3>1, <3>2, SumOfBandwidths
  <2> HIDE DEF y
  <2>5. x <= y
    BY <2>3, <2>4
  <2> QED BY <2>5 DEF y, Since
<1>2. \A i \in Interfaces :
        SumFunctionOnSet([c \in Conns |-> flow[c][i].availableBw], Conns) <= Bandwidth[i]
  BY DEF IInv, SharesFit, ColumnSum, Sum
<1> QED BY <1>1, <1>2 DEF WithinBandwidth

\* Although a transfer gets at its deadline whatever is left of it, a connection never transfers
\* more than its bandwidth allows since that was set; and the shares of an interface are no more
\* than the interface has, whoever connects, closes, goes idle or leaves slow start.
THEOREM BandwidthIsLimited == Spec => []WithinBandwidth
BY BandwidthKept, InvariantHolds, PTL

\* Time never runs backwards (the assertion of eventSimulator.py:236), be the next event that of
\* a connection or that of a subflow.
THEOREM TimeIsMonotone == Spec => [][now' >= now]_vars
<1>1. IInv /\ [Next]_vars => [now' >= now]_vars
  <2> SUFFICES ASSUME IInv, Next PROVE now' >= now
    BY DEF vars
  <2>1. now \in Nat
    BY Types
  <2>2. ASSUME NEW e \in Pending, TakeEvent(e) PROVE now' >= now
    <3>1. event = NoEvent /\ now' = TimeOf(e)
      BY <2>2 DEF TakeEvent, Pass
    <3> QED BY <3>1, PendingFacts
  <2>3. ASSUME NEW time \in OtherTimes, OtherEvent(time) PROVE now' >= now
    <3>1. time \in Nat
      BY TimesAssumption
    <3> QED BY <2>1, <2>3, <3>1 DEF OtherEvent, Pass
  <2>4. now' = now => now' >= now
    BY <2>1
  <2>5. CASE UNCHANGED now
    BY <2>4, <2>5
  <2>6. ASSUME NEW c \in Conns
        PROVE  /\ \A t \in Transfers : Connect(c, t) \/ AddTransfer(c, t) => now' = now
               /\ CloseIdle(c) \/ GoIdle(c) \/ StartNext(c) \/ TimeOut(c) => now' = now
               /\ \A i \in Interfaces : NextRound(c, i) \/ HandshakeDone(c, i) => now' = now
    <3>1. \A t \in Transfers : Connect(c, t) \/ AddTransfer(c, t) => now' = now
      BY DEF Connect, AddTransfer
    <3>2. CloseIdle(c) \/ TimeOut(c) => now' = now
      BY DEF CloseIdle, TimeOut, Close
    <3>3. GoIdle(c) \/ StartNext(c) => now' = now
      BY DEF GoIdle, StartNext
    <3>4. \A i \in Interfaces : NextRound(c, i) \/ HandshakeDone(c, i) => now' = now
      BY DEF NextRound, HandshakeDone
    <3> QED BY <3>1, <3>2, <3>3, <3>4
  <2> QED BY <2>2, <2>3, <2>4, <2>6 DEF Next, Run
<1> QED BY <1>1, InvariantHolds, PTL DEF Spec

\* The event of a subflow that is due.
LEMMA FlowIsDue ==
  ASSUME IInv, NEW c \in Open, NEW i \in Flows(c), flow[c][i].nextEvent # None \/ event = <<c, i>>
  PROVE  Due(c, i)
<1>1. c \in Conns
  BY DEF Open
<1>2. RoundOk(master[c].state, flow[c][i]) \/ event = <<c, i>>
  BY <1>1, SubflowFacts
<1>3. i \in Interfaces /\ i # None
  BY <1>1, SubflowFacts, Constants
<1>4. TimeOf(<<c, i>>) = flow[c][i].nextEvent
  BY <1>3 DEF TimeOf
<1> QED BY <1>2, <1>4 DEF Due, RoundOk

LEMMA MastersHaveEvents == IInv => MasterEvents
<1> SUFFICES ASSUME IInv, NEW c \in Open
             PROVE  LET waits == master[c].availableBw = 0 /\ master[c].state = "BUSY"
                        first == Head(master[c].subflows)
                    IN  /\ waits <=> flow[c][first].ssState = "NEW"
                        /\ IF waits THEN Due(c, first) ELSE Due(c, None)
  BY DEF MasterEvents
<1> DEFINE m == master[c]
           first == Head(m.subflows)
           f == flow[c][first]
           waits == m.availableBw = 0 /\ m.state = "BUSY"
<1>1. /\ c \in Conns /\ m \in MasterStorage /\ now \in Nat /\ m.state \in {"IDLE", "BUSY"}
  BY Types DEF Open
<1>2. Agree(m, flow[c]) /\ ConnOk(c) /\ SumOk(m, flow[c])
  BY <1>1, SubflowFacts, SumOfAny DEF IInv
<1>3. first = Head(m.interfaces) /\ first \in Flows(c) /\ first \in Interfaces
  <2>1. ShapeOk(m, flow[c])
    BY <1>2 DEF Agree
  <2> QED BY <1>1, <2>1, SubflowsOf DEF Flows
<1>4. waits <=> f.ssState = "NEW"
  <2>1. m.availableBw = FlowSum(m, flow[c])
    BY <1>2 DEF Agree
  <2>2. FlowSum(m, flow[c]) \in Nat
    BY <1>2, SumOfBandwidths DEF SumOk
  <2>3. m.state = "IDLE" => f.ssState # "NEW"
    BY <1>2, <1>3 DEF Agree, ShapeOk
  <2>4. m.state = "BUSY" => (FlowSum(m, flow[c]) > 0 <=> f.ssState # "NEW")
    BY <1>2, <1>3 DEF SumOk
  <2> QED BY <1>1, <2>1, <2>2, <2>3, <2>4
<1>5. waits => Due(c, first)
  <2> SUFFICES ASSUME waits PROVE Due(c, first)
    OBVIOUS
  <2>1. event = <<c, first>> \/ RoundOk(m.state, f)
    BY <1>2, <1>3 DEF ConnOk
  <2>2. f.ssState = "NEW"
    BY <1>4
  <2>3. event = <<c, first>> \/ f.nextEvent # None
    BY <1>1, <2>1, <2>2 DEF RoundOk
  <2> QED BY <1>3, <2>3, FlowIsDue
<1>6. ~waits => Due(c, None)
  <2> SUFFICES ASSUME ~waits, event # <<c, None>> PROVE TimeOf(<<c, None>>) >= now
    BY DEF Due
  <2>1. TimeOf(<<c, None>>) = m.nextEvent
    BY DEF TimeOf
  <2>2. MasterOk(m)
    BY <1>2 DEF ConnOk
  <2>3. m.nextEvent >= now
    BY <1>1, <2>2 DEF MasterOk, DeadlineOk
  <2> QED BY <2>1, <2>3
<1> QED BY <1>4, <1>5, <1>6

\* A busy connection without bandwidth passes over the calculation of its event
\* (mptcpConnection.py:300): it has none exactly as long as the first handshake lasts, whose end
\* is to come; at any other time it has a deadline or a time-out to come.
THEOREM MasterEventsToCome == Spec => []MasterEvents
BY MastersHaveEvents, InvariantHolds, PTL

LEMMA FlowsHaveEvents == IInv /\ (\A c \in Conns : Rolls(c)) => FlowEvents
<1> SUFFICES ASSUME IInv, \A c \in Conns : Rolls(c), NEW c \in Conns, NEW i \in Interfaces
             PROVE  Due(c, i) <=> /\ c \in Open /\ i \in Flows(c)
                                  /\ \/ flow[c][i].ssState = "NEW"
                                     \/ flow[c][i].ssState = "SS" /\ master[c].state = "BUSY"
  BY DEF FlowEvents
<1> DEFINE f == flow[c][i]
           Needs == /\ c \in Open /\ i \in Flows(c)
                    /\ f.ssState = "NEW" \/ (f.ssState = "SS" /\ master[c].state = "BUSY")
<1>1. /\ Agree(master[c], flow[c]) /\ ConnOk(c) /\ now \in Nat /\ i # None
      /\ TimeOf(<<c, i>>) = f.nextEvent
  BY SubflowFacts, Types, Constants DEF IInv, TimeOf
<1>2. ASSUME Due(c, i) PROVE Needs
  <2>1. CASE event = <<c, i>>
    <3>1. event # NoEvent
      BY <2>1, Constants DEF NoEvent
    <3>2. c \in Open /\ i \in Flows(c)
      BY <1>1, <2>1, <3>1, Constants DEF IInv, EventOk
    <3>3. HandledRound(master[c].state, f)
      BY <2>1, <3>2 DEF IInv, ConnOk
    <3> QED BY <3>2, <3>3 DEF HandledRound, Rounds
  <2>2. CASE event # <<c, i>>
    <3>1. f.nextEvent >= now
      BY <1>2, <2>2, Constants DEF Due, TimeOf
    <3>2. f.nextEvent # None
      BY <3>1, Types, Constants
    <3>3. i \in Flows(c)
      <4> SUFFICES ASSUME i \notin Flows(c) PROVE FALSE
        OBVIOUS
      <4>1. f = NewFlow
        BY SubflowFacts DEF Agree, ShapeOk, Flows
      <4> QED BY <3>2, <4>1 DEF NewFlow
    <3>4. RoundOk(master[c].state, f)
      BY <2>2, <3>3 DEF IInv, ConnOk
    <3> QED BY <3>2, <3>3, <3>4 DEF RoundOk, Rounds, Open
  <2> QED BY <2>1, <2>2
<1>3. ASSUME Needs PROVE Due(c, i)
  <2>1. RoundOk(master[c].state, f) \/ event = <<c, i>>
    BY <1>3, SubflowFacts
  <2>2. f.nextEvent # None \/ event = <<c, i>>
    BY <1>3, <2>1 DEF RoundOk, Rolls, Open
  <2> QED BY <1>3, <2>2, FlowIsDue
<1> QED BY <1>2, <1>3

\* Each round of slow start changes what the connection wants of its subflow.
RoundsCount == [][Round]_vars

\* All events that are needed are to come and no others, provided that rounds count: this is what
\* the code relies on, which tells the interface of a wish only if it is a new one
\* (mptcpConnection.py:504) and calculates the next event of a subflow with the share that it
\* gets in return (mptcpConnection.py:548).
THEOREM AllEventsToCome == Spec /\ RoundsCount => []EventsToCome
<1> DEFINE Inv == IInv /\ \A c \in Conns : Rolls(c)
<1>1. Init => Inv
  <2> SUFFICES ASSUME Init PROVE \A c \in Conns : Rolls(c)
    BY InitInv
  <2>1. \A c \in Conns : master[c].state = "NONE"
    BY DEF Init, NewMaster
  <2> QED BY <2>1 DEF Rolls
<1>2. Inv /\ [Next]_vars /\ [Round]_vars => Inv'
  <2> SUFFICES ASSUME Inv, [Next]_vars, [Round]_vars PROVE Inv'
    OBVIOUS
  <2>1. CASE Round
    BY <2>1, NextInv
  <2>2. CASE UNCHANGED vars
    BY <2>2, StutterInv DEF StepInv
  <2> QED BY <2>1, <2>2
<1>3. Inv => EventsToCome
  BY MastersHaveEvents, FlowsHaveEvents DEF EventsToCome
<1> QED BY <1>1, <1>2, <1>3, PTL DEF Spec, RoundsCount

\* Every step is a step of the pipelines or none: whatever its subflows do, a connection serves
\* what was sent on it one after the other, each transfer once, and is closed for good when it
\* has none.  This is the safety part of RefinesPipelines.
THEOREM SafePipelines == Spec => Pipes!Init /\ [][Pipes!Next]_(Pipes!vars)
<1>1. Init => Pipes!Init
  <2> SUFFICES ASSUME Init PROVE Pipes!Init
    OBVIOUS
  <2>1. /\ \A c \in Conns : master[c].state = "NONE" /\ master[c].transfers = <<>>
        /\ \A t \in Transfers : tState[t] = "ENABLED"
    BY DEF Init, NewMaster
  <2> QED BY <2>1 DEF Pipes!Init, Open
<1>2. IInv /\ [Next]_vars => [Pipes!Next]_(Pipes!vars)
  BY NextInv DEF PipesStep
<1> QED BY <1>1, <1>2, InvariantHolds, PTL DEF Spec

=============================================================================
