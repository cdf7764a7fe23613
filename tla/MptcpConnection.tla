--------------------------- MODULE MptcpConnection ---------------------------
(***************************************************************************)
(* MPTCP connections in the real run.  A connection (the master) has the   *)
(* transfers and the deadlines; its subflows, one per interface, have the  *)
(* handshakes, the congestion windows and the bandwidth.  The subflow on   *)
(* the first interface is connected with the master, the others when its   *)
(* handshake is done.  Master and subflows call each other: the master     *)
(* tells its subflows what it wants, they ask their interfaces, which set  *)
(* shares of all their connections, whose masters add them up.             *)
(*                                                                         *)
(* Steps and times are those of TcpConnection.                             *)
(***************************************************************************)
EXTENDS Integers, FiniteSetsExt, BandwidthShare

CONSTANTS Conns, Transfers, Interfaces,
          Paths,        \* the interfaces a connection may be told to use, in order
          Sizes,        \* bytes a transfer may have
          Bandwidth,    \* of each interface, in bytes per second
          RTT,          \* of each interface, in ticks
          Second,       \* ticks
          Handshakes,   \* round trips of the first handshake, without and with ssl
          IdleTimeout,  \* in ticks
          InitialCwnd,  \* in bytes
          OtherTimes    \* bound: when something may happen on another connection

None == -1   \* no time, no connection, no interface
NoEvent == <<None, None>>

ASSUME PathsAssumption ==
  /\ IsFiniteSet(Conns) /\ IsFiniteSet(Interfaces) /\ None \notin Conns /\ None \notin Interfaces
  /\ Paths \subseteq {p \in SeqOf(Interfaces, Cardinality(Interfaces)) : Len(p) > 1 /\ IsInjective(p)}
ASSUME BandwidthAssumption ==
  \A i \in Interfaces : Bandwidth[i] \in Nat /\ Bandwidth[i] >= Cardinality(Conns)
ASSUME SecondAssumption ==
  Second \in Nat \ {0} /\ \A bw \in 1 .. Sum(Bandwidth, Interfaces) : Second % bw = 0
ASSUME TimesAssumption ==
  /\ \A i \in Interfaces : RTT[i] \in Nat \ {0} /\ InitialCwnd * Second >= RTT[i]
  /\ InitialCwnd \in Nat
  /\ IdleTimeout \in Nat \ {0} /\ Handshakes \subseteq Nat \ {0} /\ OtherTimes \subseteq Nat
ASSUME SizesAssumption == IsFiniteSet(Transfers) /\ Sizes \subseteq Nat \ {0}

VARIABLES
  now,                    \* EventSimulatorStorage.time
  event,                  \* whose event is handled: <<connection, interface or None>>
  master,                 \* MptcpConnection.ConnectionStorage of every connection
  flow,                   \* storage of its subflow on every interface
  connections,            \* InterfaceStorage.connections of every interface
  tState, outstandingBytes, tConn,  \* TransferStorage of every transfer
  size                    \* Transfer.size

vars == <<now, event, master, flow, connections, tState, outstandingBytes, tConn, size>>

\* A bandwidth that moves so many bytes in a round trip.
PerRtt(bytes, i) == (bytes * Second) \div RTT[i]

\* interfaces is an attribute of the connection; subflows is the list of them.
NewMaster ==
  [state |-> "NONE", interfaces |-> <<>>, subflows |-> <<>>, transfers |-> <<>>,
   outstandingTransferBytesSum |-> 0, transferredBytesSum |-> 0,
   availableBw |-> 0, desiredBw |-> 0, bwUpdateInProgress |-> FALSE,
   nextEvent |-> None, idleTimestamp |-> None,
   currTransferFinishTime |-> None, lastBwUpdate |-> 0, lastBwUpdateTransferredBytesSum |-> 0]

\* What is left out is either that of the master or read by nobody.
NewFlow ==
  [state |-> "NONE", ssState |-> "NEW", cwnd |-> InitialCwnd, transferredBytesSum |-> 0,
   availableBw |-> 0, desiredBw |-> 0, nextEvent |-> None]

Init ==
  /\ now = 0 /\ event = NoEvent
  /\ master = [c \in Conns |-> NewMaster]
  /\ flow = [c \in Conns |-> [i \in Interfaces |-> NewFlow]]
  /\ connections = [i \in Interfaces |-> <<>>]
  /\ tState = [t \in Transfers |-> "ENABLED"]
  /\ size \in [Transfers -> Sizes]
  /\ outstandingBytes = size
  /\ tConn = [t \in Transfers |-> None]

-----------------------------------------------------------------------------
(* From the interface to the subflow and on to the master.  m is the       *)
(* storage of a master, f that of a subflow, st has all of them.           *)

\* Mutant: an event that is there already is kept.
ScheduleNextEvent_Kept(m) ==
  LET finish == now + (outstandingBytes[Head(m.transfers)] * Second) \div m.availableBw
  IN  IF m.state = "IDLE" THEN [m EXCEPT !.nextEvent = m.idleTimestamp + IdleTimeout]
      ELSE IF m.availableBw = 0 \/ m.nextEvent # None THEN m
      ELSE [m EXCEPT !.nextEvent = finish, !.currTransferFinishTime = finish]
\* Mutant: the deadline is counted from the last change of the bandwidth.
ScheduleNextEvent_FromUpdate(m) ==
  LET finish == m.lastBwUpdate + (outstandingBytes[Head(m.transfers)] * Second) \div m.availableBw
  IN  IF m.state = "IDLE" THEN [m EXCEPT !.nextEvent = m.idleTimestamp + IdleTimeout]
      ELSE IF m.availableBw = 0 THEN m
      ELSE [m EXCEPT !.nextEvent = finish, !.currTransferFinishTime = finish]
\* _scheduleNextEvent of a master.
ScheduleNextEvent(m) ==
  LET finish == now + (outstandingBytes[Head(m.transfers)] * Second) \div m.availableBw
  IN  IF m.state = "IDLE" THEN [m EXCEPT !.nextEvent = m.idleTimestamp + IdleTimeout]
      ELSE IF m.availableBw = 0 THEN m
      ELSE [m EXCEPT !.nextEvent = finish, !.currTransferFinishTime = finish]

\* Mutant: the bytes at the time of the update are not noted.
UpdateAvailableBw_OldSum(m, fs) ==
  LET sum == SumFunctionOnSet([i \in Interfaces |-> fs[i].availableBw], ToSet(m.subflows))
  IN  IF m.bwUpdateInProgress \/ sum = m.availableBw THEN m
      ELSE ScheduleNextEvent([m EXCEPT !.availableBw = sum, !.lastBwUpdate = now])
\* updateAvailableBw and setAvailableBw of a master with the subflows fs.
UpdateAvailableBw(m, fs) ==
  LET sum == SumFunctionOnSet([i \in Interfaces |-> fs[i].availableBw], ToSet(m.subflows))
  IN  IF m.bwUpdateInProgress \/ sum = m.availableBw THEN m
      ELSE ScheduleNextEvent([m EXCEPT !.availableBw = sum, !.lastBwUpdate = now,
                                       !.lastBwUpdateTransferredBytesSum = m.transferredBytesSum])

\* The window is too large for the share.
DropsOut(m, f, i, bw) == m.state = "BUSY" /\ f.ssState = "SS" /\ PerRtt(f.cwnd, i) > bw

\* Mutant: slow start goes on while the master is idle.
ScheduleNextRound_Idle(m, f, i) ==
  [f EXCEPT !.nextEvent = IF f.ssState = "SS" THEN now + RTT[i] ELSE None]
\* _scheduleNextEvent of a subflow.
ScheduleNextRound(m, f, i) ==
  [f EXCEPT !.nextEvent = IF m.state = "BUSY" /\ f.ssState = "SS" THEN now + RTT[i] ELSE None]

\* Mutant: an unchanged share is set as well.
Notices_Always(f, bw) == TRUE
\* setAvailableBw of a subflow does something.
Notices(f, bw) == f.availableBw # bw \/ f.ssState = "SS"

\* setAvailableBw of a subflow but for the call of the master.  Nothing reads the
\* window in congestion avoidance.
SetAvailableBw(m, f, i, bw) ==
  ScheduleNextRound(m,
    IF DropsOut(m, f, i, bw)
    THEN [f EXCEPT !.availableBw = bw, !.ssState = "CA", !.cwnd = 0,
                   !.desiredBw = Max({m.desiredBw, @})]
    ELSE [f EXCEPT !.availableBw = bw], i)

\* updateConnectionBwShare of i.  A master has one subflow there.
UpdateConnectionBwShare(st, i) ==
  LET share == Shares(connections[i], [c \in Conns |-> st.flow[c][i].desiredBw], Bandwidth[i])
      told == {c \in ToSet(connections[i]) : Notices(st.flow[c][i], share[c])}
      fs == [c \in Conns |->
               IF c \in told
               THEN [st.flow[c] EXCEPT ![i] = SetAvailableBw(st.master[c], @, i, share[c])]
               ELSE st.flow[c]]
  IN  [flow |-> fs,
       master |-> [c \in Conns |-> IF c \in told THEN UpdateAvailableBw(st.master[c], fs[c])
                                   ELSE st.master[c]]]

-----------------------------------------------------------------------------
(* From the master to its subflows and on to the interfaces *)

NewDesiredBw(m, f, i) ==
  CASE m.state = "IDLE" \/ f.ssState = "NEW" -> 0
    [] m.state = "BUSY" /\ f.ssState = "SS"  -> PerRtt(f.cwnd, i)
    [] m.state = "BUSY" /\ f.ssState = "CA"  -> m.desiredBw

\* updateDesiredBw of the subflow of c on i.
UpdateFlowDesiredBw(st, c, i) ==
  LET old == st.flow[c][i]
      new == [old EXCEPT !.state = st.master[c].state,
                         !.desiredBw = NewDesiredBw(st.master[c], old, i)]
      all == [st EXCEPT !.flow[c][i] = new]
  IN  IF new.desiredBw = old.desiredBw THEN all ELSE UpdateConnectionBwShare(all, i)

\* Mutant: the shares are not added up in the end.
UpdateDesiredBw_NoSum(st, c) ==
  LET m == st.master[c]
      desired == IF m.state = "IDLE" THEN 0
                 ELSE Max({PerRtt(m.outstandingTransferBytesSum, Head(m.interfaces)), 1})
      begun == [st EXCEPT !.master[c].desiredBw = desired, !.master[c].bwUpdateInProgress = TRUE]
      told[k \in 0 .. Len(m.subflows)] ==
        IF k = 0 THEN begun ELSE UpdateFlowDesiredBw(told[k - 1], c, m.subflows[k])
  IN  IF desired = m.desiredBw THEN st
      ELSE [told[Len(m.subflows)] EXCEPT !.master[c].bwUpdateInProgress = FALSE]
\* updateDesiredBw of c.
UpdateDesiredBw(st, c) ==
  LET m == st.master[c]
      desired == IF m.state = "IDLE" THEN 0
                 ELSE Max({PerRtt(m.outstandingTransferBytesSum, Head(m.interfaces)), 1})
      begun == [st EXCEPT !.master[c].desiredBw = desired, !.master[c].bwUpdateInProgress = TRUE]
      told[k \in 0 .. Len(m.subflows)] ==
        IF k = 0 THEN begun ELSE UpdateFlowDesiredBw(told[k - 1], c, m.subflows[k])
      done == told[Len(m.subflows)]
  IN  IF desired = m.desiredBw THEN st
      ELSE [done EXCEPT !.master[c] =
              UpdateAvailableBw([@ EXCEPT !.bwUpdateInProgress = FALSE], done.flow[c])]

St == [master |-> master, flow |-> flow]
Becomes(st) == master' = st.master /\ flow' = st.flow

-----------------------------------------------------------------------------
(* Progress of time *)

\* What the active transfer gets until time: at its deadline all it needs,
\* otherwise no more than the share has allowed since it was set.
TickBytes(m, time) ==
  LET out == outstandingBytes[Head(m.transfers)]
      naive == (m.availableBw * (time - now)) \div Second
      allowed == m.lastBwUpdateTransferredBytesSum - m.transferredBytesSum
                   + (m.availableBw * (time - m.lastBwUpdate)) \div Second
      bytes == Max({0, Min({naive, allowed})})
  IN  IF time = m.currTransferFinishTime \/ bytes > out THEN out ELSE bytes

\* _tickTime of a master.
TickMaster(m, time) ==
  IF m.state # "BUSY" THEN m
  ELSE [m EXCEPT !.transferredBytesSum = @ + TickBytes(m, time),
                 !.outstandingTransferBytesSum = @ - TickBytes(m, time)]

\* _tickTime of a subflow.
TickFlow(f, time) ==
  LET bytes == (f.availableBw * (time - now)) \div Second
  IN  IF f.state # "BUSY" \/ f.ssState = "NEW" THEN f
      ELSE [f EXCEPT !.transferredBytesSum = @ + bytes,
                     !.cwnd = IF f.ssState = "SS" THEN @ + bytes ELSE @]

\* All connections and subflows are ticked unless no time has passed.
TickedMasters(time) == IF time = now THEN master ELSE [c \in Conns |-> TickMaster(master[c], time)]
TickedFlows(time) ==
  IF time = now THEN flow
  ELSE [c \in Conns |-> [i \in Interfaces |-> TickFlow(flow[c][i], time)]]
TickedBytes(time) ==
  IF time = now THEN outstandingBytes
  ELSE [t \in Transfers |-> outstandingBytes[t] - IF tState[t] = "ACTIVE"
                                                  THEN TickBytes(master[tConn[t]], time) ELSE 0]

-----------------------------------------------------------------------------
(* Calls of the policy *)

\* The storage of a subflow that has been connected.
Connected(i, round) == [NewFlow EXCEPT !.state = "IDLE", !.nextEvent = now + round * RTT[i]]

\* connect and the addTransfer that follows it.
Connect(c, t) ==
  /\ event = NoEvent /\ master[c].state = "NONE" /\ tState[t] = "ENABLED"
  /\ \E path \in Paths, round \in Handshakes :
       LET i == Head(path)
           m == [NewMaster EXCEPT !.state = "BUSY", !.interfaces = path, !.subflows = <<i>>,
                                  !.transfers = <<t>>,
                                  !.outstandingTransferBytesSum = outstandingBytes[t]]
       IN  /\ connections' = [connections EXCEPT ![i] = Append(@, c)]
           /\ Becomes(UpdateDesiredBw([master |-> [master EXCEPT ![c] = m],
                                       flow |-> [flow EXCEPT ![c][i] = Connected(i, round)]], c))
  /\ tState' = [tState EXCEPT ![t] = "ACTIVE"]
  /\ tConn' = [tConn EXCEPT ![t] = c]
  /\ UNCHANGED <<now, event, outstandingBytes, size>>

\* addTransfer on an open connection.
AddTransfer(c, t) ==
  /\ event = NoEvent /\ master[c].state \in {"IDLE", "BUSY"} /\ tState[t] = "ENABLED"
  /\ Becomes(UpdateDesiredBw(
       [St EXCEPT !.master[c].state = "BUSY", !.master[c].transfers = Append(@, t),
                  !.master[c].outstandingTransferBytesSum = @ + outstandingBytes[t]], c))
  /\ tState' = [tState EXCEPT ![t] = IF master[c].state = "IDLE" THEN "ACTIVE" ELSE "ENQUEUED"]
  /\ tConn' = [tConn EXCEPT ![t] = c]
  /\ UNCHANGED <<now, event, connections, outstandingBytes, size>>

\* close: the subflows first, also one in its handshake.
Close(c) ==
  LET used == ToSet(master[c].subflows)
  IN  /\ master' = [master EXCEPT ![c].state = "CLOSED", ![c].nextEvent = None]
      /\ flow' = [flow EXCEPT ![c] = [i \in Interfaces |->
                    IF i \in used THEN [@[i] EXCEPT !.state = "CLOSED", !.nextEvent = None] ELSE @[i]]]
      /\ connections' = [i \in Interfaces |-> IF i \in used THEN RemoveFirst(connections[i], c)
                                              ELSE connections[i]]
      /\ UNCHANGED <<now, tState, outstandingBytes, tConn, size>>

\* The policy closes an idle connection at its global limit.
CloseIdle(c) == event = NoEvent /\ master[c].state = "IDLE" /\ Close(c) /\ UNCHANGED event

-----------------------------------------------------------------------------
(* The event loop *)

Open == {c \in Conns : master[c].state \in {"IDLE", "BUSY"}}

\* The time of an event.
TimeOf(e) == IF e[2] = None THEN master[e[1]].nextEvent ELSE flow[e[1]][e[2]].nextEvent
\* The events in the queue.
Pending == {e \in Conns \X (Interfaces \cup {None}) : TimeOf(e) # None}
NoneBefore(time) == \A e \in Pending : time <= TimeOf(e)

\* Time passes until then.
Pass(time) ==
  /\ NoneBefore(time)
  /\ now' = time
  /\ outstandingBytes' = TickedBytes(time)
  /\ UNCHANGED <<connections, tState, tConn, size>>

\* _run: take the next event from the queue and let time pass until then.
TakeEvent(e) ==
  /\ event = NoEvent /\ e \in Pending /\ Pass(TimeOf(e))
  /\ event' = e
  /\ LET ms == TickedMasters(TimeOf(e))
         fs == TickedFlows(TimeOf(e))
     IN  IF e[2] = None THEN master' = [ms EXCEPT ![e[1]].nextEvent = None] /\ flow' = fs
         ELSE master' = ms /\ flow' = [fs EXCEPT ![e[1]][e[2]].nextEvent = None]

\* An event of a connection without common interfaces: time passes for all.
OtherEvent(time) ==
  /\ event = NoEvent /\ time > now /\ Pass(time)
  /\ master' = TickedMasters(time) /\ flow' = TickedFlows(time)
  /\ UNCHANGED event

-----------------------------------------------------------------------------
(* Event handlers *)

\* The event of the master of c that ends its active transfer.
TransferDone(c) ==
  /\ event = <<c, None>> /\ master[c].state = "BUSY"
  /\ outstandingBytes[Head(master[c].transfers)] = 0

GoIdle(c) ==
  /\ TransferDone(c) /\ Len(master[c].transfers) = 1
  /\ Becomes(UpdateDesiredBw([St EXCEPT !.master[c].state = "IDLE", !.master[c].transfers = <<>>,
                                        !.master[c].idleTimestamp = now], c))
  /\ tState' = [tState EXCEPT ![Head(master[c].transfers)] = "FINISHED"]
  /\ event' = NoEvent
  /\ UNCHANGED <<now, connections, outstandingBytes, tConn, size>>

\* Mutant: the next transfer waits for a change of the bandwidth.
StartNext_NoSchedule(c) ==
  /\ TransferDone(c) /\ Len(master[c].transfers) > 1
  /\ Becomes(UpdateDesiredBw([St EXCEPT !.master[c].transfers = Tail(@)], c))
  /\ tState' = [tState EXCEPT ![Head(master[c].transfers)] = "FINISHED",
                              ![master[c].transfers[2]] = "ACTIVE"]
  /\ event' = NoEvent
  /\ UNCHANGED <<now, connections, outstandingBytes, tConn, size>>
\* The next transfer is started; its deadline is calculated in any case.
StartNext(c) ==
  /\ TransferDone(c) /\ Len(master[c].transfers) > 1
  /\ LET updated == UpdateDesiredBw([St EXCEPT !.master[c].transfers = Tail(@)], c)
     IN  Becomes([updated EXCEPT !.master[c] = ScheduleNextEvent(@)])
  /\ tState' = [tState EXCEPT ![Head(master[c].transfers)] = "FINISHED",
                              ![master[c].transfers[2]] = "ACTIVE"]
  /\ event' = NoEvent
  /\ UNCHANGED <<now, connections, outstandingBytes, tConn, size>>

TimeOut(c) ==
  /\ event = <<c, None>> /\ master[c].state = "IDLE"
  /\ master[c].idleTimestamp + IdleTimeout >= now
  /\ Close(c)
  /\ event' = NoEvent

\* A round of slow start of the subflow on i is over.
NextRound(c, i) ==
  /\ event = <<c, i>> /\ master[c].state = "BUSY" /\ flow[c][i].ssState = "SS"
  /\ Becomes(UpdateFlowDesiredBw(St, c, i))
  /\ event' = NoEvent
  /\ UNCHANGED <<now, connections, tState, outstandingBytes, tConn, size>>

\* onSubflowHandshakeDone connects the other subflows: their interfaces.
OthersOf(c, i) == IF i = Head(master[c].subflows) THEN ToSet(Tail(master[c].interfaces)) ELSE {}

HandshakeDone(c, i) ==
  /\ event = <<c, i>> /\ flow[c][i].ssState = "NEW"
  /\ LET others == OthersOf(c, i)
         fs == [j \in Interfaces |-> IF j \in others THEN Connected(j, 2)
                                     ELSE IF j = i THEN [flow[c][i] EXCEPT !.ssState = "SS"]
                                     ELSE flow[c][j]]
         m == [master[c] EXCEPT !.subflows = IF others # {} THEN master[c].interfaces ELSE @]
     IN  /\ connections' = [j \in Interfaces |-> IF j \in others THEN Append(connections[j], c)
                                                 ELSE connections[j]]
         /\ Becomes(UpdateFlowDesiredBw([St EXCEPT !.master[c] = m, !.flow[c] = fs], c, i))
  /\ event' = NoEvent
  /\ UNCHANGED <<now, tState, outstandingBytes, tConn, size>>

Run == \/ \E e \in Pending : TakeEvent(e)
       \/ \E c \in Conns : \/ GoIdle(c) \/ StartNext(c) \/ TimeOut(c)
                           \/ \E i \in Interfaces : NextRound(c, i) \/ HandshakeDone(c, i)

Next ==
  \/ \E c \in Conns, t \in Transfers : Connect(c, t) \/ AddTransfer(c, t)
  \/ \E c \in Conns : CloseIdle(c)
  \/ Run
  \/ \E time \in OtherTimes : OtherEvent(time)

\* The event loop takes an event as long as there are any, and handles it: only
\* TakeEvent begins to handle one, and there is a handler for each (FlowEvents,
\* DoneAtDeadline).
Takes == event = NoEvent /\ event' \in Pending
Handles == event # NoEvent /\ event' = NoEvent
Spec == Init /\ [][Next]_vars /\ WF_event(Takes) /\ WF_event(Handles)

-----------------------------------------------------------------------------
(* Properties *)

MasterStorage ==
  [state : {"NONE", "IDLE", "BUSY", "CLOSED"}, interfaces : Paths \cup {<<>>},
   subflows : Seq(Interfaces), transfers : Seq(Transfers),
   outstandingTransferBytesSum : Nat, transferredBytesSum : Nat,
   availableBw : 0 .. Sum(Bandwidth, Interfaces), desiredBw : Nat, bwUpdateInProgress : BOOLEAN,
   nextEvent : Nat \cup {None}, idleTimestamp : Nat \cup {None},
   currTransferFinishTime : Nat \cup {None}, lastBwUpdate : Nat,
   lastBwUpdateTransferredBytesSum : Nat]

FlowStorage ==
  [state : {"NONE", "IDLE", "BUSY", "CLOSED"}, ssState : {"NEW", "SS", "CA"}, cwnd : Nat,
   transferredBytesSum : Nat, availableBw : Nat, desiredBw : Nat, nextEvent : Nat \cup {None}]

\* Types of the variables.  A share is one of its interface, and a connection is updating
\* its subflows only within a step.
TypeOK ==
  /\ now \in Nat /\ event \in (Conns \X (Interfaces \cup {None})) \cup {NoEvent}
  /\ master \in [Conns -> MasterStorage] /\ \A c \in Conns : ~master[c].bwUpdateInProgress
  /\ flow \in [Conns -> [Interfaces -> FlowStorage]]
  /\ \A c \in Conns, i \in Interfaces : flow[c][i].availableBw <= Bandwidth[i]
  /\ connections \in [Interfaces -> Seq(Conns)]
  /\ tState \in [Transfers -> {"ENABLED", "ENQUEUED", "ACTIVE", "FINISHED"}]
  /\ size \in [Transfers -> Sizes]
  /\ outstandingBytes \in [Transfers -> Nat]
  /\ tConn \in [Transfers -> Conns \cup {None}]

Flows(c) == ToSet(master[c].subflows)
\* Something is going to happen to c, or to its subflow on i.
Due(c, i) == event = <<c, i>> \/ TimeOf(<<c, i>>) >= now

\* A busy connection waits until the first handshake is done, which is to come; at any
\* other time an open connection has an event of its own.
MasterEvents ==
  \A c \in Open :
    LET waits == master[c].availableBw = 0 /\ master[c].state = "BUSY"
        first == Head(master[c].subflows)
    IN  /\ waits <=> flow[c][first].ssState = "NEW"
        /\ IF waits THEN Due(c, first) ELSE Due(c, None)

\* A subflow has an event until its handshake is done, be the connection idle or busy,
\* and for every round of slow start while it is busy, and at no other time.
FlowEvents ==
  \A c \in Conns, i \in Interfaces :
    Due(c, i) <=> /\ c \in Open /\ i \in Flows(c)
                  /\ flow[c][i].ssState = "NEW" \/ (flow[c][i].ssState = "SS" /\ master[c].state = "BUSY")

\* Master and subflows have the events that they need and no others.  A busy master
\* without bandwidth passes over the scheduling of its event (mptcpConnection.py:300),
\* which is safe only if a handshake is to come that gives it some; and an event too
\* many of a subflow would end in an assertion (mptcpConnection.py:473).
EventsToCome == MasterEvents /\ FlowEvents

\* When a connection goes idle this "will implicitly make" its subflows idle
\* (mptcpConnection.py:104), also one whose handshake ends later.
IdleFlows ==
  \A c \in Open : master[c].state = "IDLE" =>
    \A i \in Flows(c) : /\ flow[c][i].state = "IDLE"
                        /\ flow[c][i].desiredBw = 0 /\ flow[c][i].availableBw = 0

\* Although a connection does not listen to its subflows while it tells them what it
\* wants (bwUpdateInProgress), it has the sum of their bandwidths whenever time passes;
\* and none while it is idle, so that they take nothing from other connections.
SharesAddUp ==
  /\ IdleFlows
  /\ \A c \in Open :
       master[c].availableBw = SumFunctionOnSet([i \in Interfaces |-> flow[c][i].availableBw], Flows(c))

\* When the event of a busy connection comes no byte is left, whatever was truncated,
\* or the handler would end in its assertion (mptcpConnection.py:128); before that no
\* transfer has all its bytes.
DoneAtDeadline ==
  \A c \in Open : master[c].state = "BUSY" =>
    LET out == outstandingBytes[Head(master[c].transfers)]
    IN  IF event = <<c, None>> THEN out = 0 ELSE out = 0 => master[c].nextEvent = now

\* Master and subflows count bytes separately, and truncate separately.  The master's
\* sums are those of its transfers, and the subflows together never have transferred
\* more than the master.
BytesConserved ==
  \A c \in Conns :
    LET on == {t \in Transfers : tConn[t] = c}
    IN  /\ master[c].outstandingTransferBytesSum = SumFunctionOnSet(outstandingBytes, on)
        /\ master[c].transferredBytesSum
             = SumFunctionOnSet([t \in Transfers |-> size[t] - outstandingBytes[t]], on)
        /\ SumFunctionOnSet([i \in Interfaces |-> flow[c][i].transferredBytesSum], Interfaces)
             <= master[c].transferredBytesSum

\* Since the bandwidth of a connection was last set it has transferred no more than
\* this bandwidth allows, although a transfer gets at its deadline whatever is left of
\* it; and the shares of an interface are no more than the interface has.
WithinBandwidth ==
  /\ \A c \in Open : master[c].state = "BUSY" =>
       (master[c].transferredBytesSum - master[c].lastBwUpdateTransferredBytesSum) * Second
         <= master[c].availableBw * (now - master[c].lastBwUpdate)
  /\ \A i \in Interfaces :
       SumFunctionOnSet([c \in Conns |-> flow[c][i].availableBw], Conns) <= Bandwidth[i]

\* Master and subflows together implement pipelines that serve every transfer.
Pipes == INSTANCE Pipelines WITH
           pipeline <- [c \in Conns |-> master[c].transfers],
           sent <- {t \in Transfers : tState[t] # "ENABLED"},
           served <- {t \in Transfers : tState[t] = "FINISHED"},
           open <- Open,
           closed <- {c \in Conns : master[c].state = "CLOSED"}
RefinesPipelines == Pipes!Spec

\* A connection gets all its subflows and each of them through its handshake, unless it
\* is closed before that; no change of the shares drops a handshake on the way.
AllFlowsJoin ==
  \A c \in Conns :
    master[c].state = "BUSY" ~>
      \/ master[c].state = "CLOSED"
      \/ \A i \in ToSet(master[c].interfaces) : i \in Flows(c) /\ flow[c][i].ssState # "NEW"

=============================================================================
