---------------------------- MODULE TcpConnection ----------------------------
(***************************************************************************)
(* The TCP connections of one interface in the real run, with bytes,       *)
(* congestion windows, bandwidth shares and deadlines.  One step is one    *)
(* tick of the event loop, one event handler, or one call of the policy,   *)
(* which comes at the end of a handler.                                    *)
(*                                                                         *)
(* Times are integers.  A second has so many ticks that a deadline is      *)
(* exact for every share an interface can give (SecondAssumption); what    *)
(* floating point rounds is not modelled, what the code truncates with     *)
(* int() is.                                                               *)
(***************************************************************************)
EXTENDS Integers, FiniteSetsExt, BandwidthShare

CONSTANTS Conns, Transfers,
          Sizes,        \* bytes a transfer may have
          Bandwidth,    \* of the interface, in bytes per second
          Second,       \* ticks
          RTT,          \* of the interface, in ticks
          Handshakes,   \* round trips of a handshake, without and with ssl
          IdleTimeout,  \* in ticks
          InitialCwnd,  \* in bytes
          OtherTimes    \* bound: when something may happen on another interface

None == -1   \* no time, no connection

ASSUME ConnsAssumption == /\ IsFiniteSet(Conns) /\ None \notin Conns
                          /\ Bandwidth \in Nat /\ Bandwidth >= Cardinality(Conns)
ASSUME TransfersAssumption == IsFiniteSet(Transfers)
ASSUME SecondAssumption == Second \in Nat \ {0} /\ \A bw \in 1 .. Bandwidth : Second % bw = 0
ASSUME TimesAssumption == /\ RTT \in Nat \ {0} /\ IdleTimeout \in Nat \ {0}
                          /\ Handshakes \subseteq Nat \ {0} /\ OtherTimes \subseteq Nat
\* Slow start does not get stuck: a window makes at least one byte per second.
ASSUME CwndAssumption == InitialCwnd \in Nat /\ InitialCwnd * Second >= RTT
ASSUME SizesAssumption == Sizes \subseteq Nat \ {0}

VARIABLES
  now,                    \* EventSimulatorStorage.time
  event,                  \* the connection whose event is being handled
  conn,                   \* ConnectionStorage of every connection
  connections,            \* InterfaceStorage.connections
  tState, outstandingBytes, tConn,  \* TransferStorage of every transfer
  size                    \* Transfer.size

vars == <<now, event, conn, connections, tState, outstandingBytes, tConn, size>>

\* A bandwidth that moves so many bytes in a round trip.
PerRtt(bytes) == (bytes * Second) \div RTT

NewStorage ==
  [state |-> "NONE", ssState |-> "NEW", transfers |-> <<>>, cwnd |-> InitialCwnd,
   outstandingTransferBytesSum |-> 0, transferredBytesSum |-> 0,
   availableBw |-> 0, desiredBw |-> 0, nextEvent |-> None, idleTimestamp |-> None,
   currTransferFinishTime |-> None, lastBwUpdate |-> 0, lastBwUpdateTransferredBytesSum |-> 0]

Init ==
  /\ now = 0 /\ event = None
  /\ conn = [c \in Conns |-> NewStorage]
  /\ connections = <<>>
  /\ tState = [t \in Transfers |-> "ENABLED"]
  /\ size \in [Transfers -> Sizes]
  /\ outstandingBytes = size
  /\ tConn = [t \in Transfers |-> None]

-----------------------------------------------------------------------------
(* Bandwidth and deadlines; s is the storage of a connection, cs are all of them *)

\* Mutant: a transfer that is done before the end of the round does not end it.
ScheduleNextEvent_NextRound(s) ==
  LET finish == now + (outstandingBytes[Head(s.transfers)] * Second) \div s.availableBw
  IN  IF s.state = "IDLE" THEN [s EXCEPT !.nextEvent = s.idleTimestamp + IdleTimeout]
      ELSE IF s.ssState = "CA" THEN [s EXCEPT !.nextEvent = finish, !.currTransferFinishTime = finish]
      ELSE [s EXCEPT !.nextEvent = now + RTT]
\* _scheduleNextEvent.
ScheduleNextEvent(s) ==
  LET finish == now + (outstandingBytes[Head(s.transfers)] * Second) \div s.availableBw
  IN  IF s.state = "IDLE" THEN [s EXCEPT !.nextEvent = s.idleTimestamp + IdleTimeout]
      ELSE IF s.ssState = "CA" \/ finish <= now + RTT
           THEN [s EXCEPT !.nextEvent = finish, !.currTransferFinishTime = finish]
           ELSE [s EXCEPT !.nextEvent = now + RTT]

\* The window is too large for the share.
DropsOut(s, bw) == s.state = "BUSY" /\ s.ssState = "SS" /\ PerRtt(s.cwnd) > bw

\* setAvailableBw.  Nothing reads the window in congestion avoidance.
SetAvailableBw(s, bw) ==
  IF s.availableBw = bw /\ s.ssState # "SS" THEN s
  ELSE LET t == [s EXCEPT !.availableBw = bw, !.lastBwUpdate = now,
                          !.lastBwUpdateTransferredBytesSum = s.transferredBytesSum]
       IN  ScheduleNextEvent(
             IF DropsOut(s, bw)
             THEN [t EXCEPT !.ssState = "CA", !.cwnd = 0,
                            !.desiredBw = Max({PerRtt(s.outstandingTransferBytesSum), @})]
             ELSE t)

\* updateConnectionBwShare.
UpdateConnectionBwShare(cs) ==
  LET share == Shares(connections, [c \in Conns |-> cs[c].desiredBw], Bandwidth)
  IN  [c \in Conns |-> IF c \in ToSet(connections) THEN SetAvailableBw(cs[c], share[c]) ELSE cs[c]]

NewDesiredBw(s) ==
  CASE s.state = "IDLE" \/ s.ssState = "NEW" -> 0
    [] s.state = "BUSY" /\ s.ssState = "SS"  -> PerRtt(s.cwnd)
    [] s.state = "BUSY" /\ s.ssState = "CA"  -> Max({PerRtt(s.outstandingTransferBytesSum), 1})

\* updateDesiredBw of c.
UpdateDesiredBw(cs, c) ==
  IF NewDesiredBw(cs[c]) = cs[c].desiredBw THEN cs
  ELSE UpdateConnectionBwShare([cs EXCEPT ![c].desiredBw = NewDesiredBw(cs[c])])

-----------------------------------------------------------------------------
(* Progress of time *)

\* Mutant: a deadline that has passed counts as well.
TickBytes_StaleDeadline(s, time) ==
  LET out == outstandingBytes[Head(s.transfers)]
      naive == (s.availableBw * (time - now)) \div Second
  IN  IF time >= s.currTransferFinishTime /\ s.availableBw > 0 THEN out ELSE Min({naive, out})
\* What the active transfer gets until time: at its deadline all it needs,
\* otherwise no more than the share has allowed since it was set.
TickBytes(s, time) ==
  LET out == outstandingBytes[Head(s.transfers)]
      naive == (s.availableBw * (time - now)) \div Second
      allowed == s.lastBwUpdateTransferredBytesSum - s.transferredBytesSum
                   + (s.availableBw * (time - s.lastBwUpdate)) \div Second
      bytes == Max({0, Min({naive, allowed})})
  IN  IF time = s.currTransferFinishTime \/ bytes > out THEN out ELSE bytes

Progressing(s) == s.state = "BUSY" /\ s.ssState # "NEW"

\* Mutant: the sum beside the bytes of the transfers is forgotten.
TickTime_NoSum(s, time) ==
  IF ~Progressing(s) THEN s
  ELSE [s EXCEPT !.transferredBytesSum = @ + TickBytes(s, time),
                 !.cwnd = IF s.ssState = "SS" THEN @ + TickBytes(s, time) ELSE @]
\* _tickTime.
TickTime(s, time) ==
  IF ~Progressing(s) THEN s
  ELSE [s EXCEPT !.transferredBytesSum = @ + TickBytes(s, time),
                 !.outstandingTransferBytesSum = @ - TickBytes(s, time),
                 !.cwnd = IF s.ssState = "SS" THEN @ + TickBytes(s, time) ELSE @]

\* All connections are ticked unless no time has passed.
TickedConns(time) == IF time = now THEN conn ELSE [c \in Conns |-> TickTime(conn[c], time)]
Active(t) == tState[t] = "ACTIVE" /\ Progressing(conn[tConn[t]])
TickedBytes(time) ==
  IF time = now THEN outstandingBytes
  ELSE [t \in Transfers |-> outstandingBytes[t] - IF Active(t) THEN TickBytes(conn[tConn[t]], time)
                                                               ELSE 0]

-----------------------------------------------------------------------------
(* Calls of the policy *)

\* connect and the addTransfer that follows it.
Connect(c, t) ==
  /\ event = None /\ conn[c].state = "NONE" /\ tState[t] = "ENABLED"
  /\ \E round \in Handshakes :
       conn' = [conn EXCEPT ![c].state = "BUSY", ![c].transfers = <<t>>,
                            ![c].outstandingTransferBytesSum = outstandingBytes[t],
                            ![c].lastBwUpdate = now, ![c].nextEvent = now + round * RTT]
  /\ connections' = Append(connections, c)
  /\ tState' = [tState EXCEPT ![t] = "ACTIVE"]
  /\ tConn' = [tConn EXCEPT ![t] = c]
  /\ UNCHANGED <<now, event, outstandingBytes, size>>

\* addTransfer on an open connection.
AddTransfer(c, t) ==
  /\ event = None /\ conn[c].state \in {"IDLE", "BUSY"} /\ tState[t] = "ENABLED"
  /\ LET added == [conn EXCEPT ![c].state = "BUSY", ![c].transfers = Append(@, t),
                               ![c].outstandingTransferBytesSum = @ + outstandingBytes[t]]
     IN  conn' = UpdateDesiredBw(added, c)
  /\ tState' = [tState EXCEPT ![t] = IF conn[c].state = "IDLE" THEN "ACTIVE" ELSE "ENQUEUED"]
  /\ tConn' = [tConn EXCEPT ![t] = c]
  /\ UNCHANGED <<now, event, connections, outstandingBytes, size>>

Closed(s) == [s EXCEPT !.state = "CLOSED", !.nextEvent = None]

\* The policy closes an idle connection at its global limit.
CloseIdle(c) ==
  /\ event = None /\ conn[c].state = "IDLE"
  /\ conn' = [conn EXCEPT ![c] = Closed(@)]
  /\ connections' = RemoveFirst(connections, c)
  /\ UNCHANGED <<now, event, tState, outstandingBytes, tConn, size>>

-----------------------------------------------------------------------------
(* The event loop *)

Open == {c \in Conns : conn[c].state \in {"IDLE", "BUSY"}}

\* The connections that have an event in the queue.
Pending == {c \in Open : conn[c].nextEvent # None}

\* No event lies before time.
NoneBefore(time) == \A c \in Pending : time <= conn[c].nextEvent

\* _run: take the next event from the queue and let time pass until then.
TakeEvent(c) ==
  /\ event = None /\ c \in Pending /\ NoneBefore(conn[c].nextEvent)
  /\ event' = c
  /\ now' = conn[c].nextEvent
  /\ conn' = [TickedConns(conn[c].nextEvent) EXCEPT ![c].nextEvent = None]
  /\ outstandingBytes' = TickedBytes(conn[c].nextEvent)
  /\ UNCHANGED <<connections, tState, tConn, size>>

\* An event of a connection on another interface: time passes for all connections.
OtherEvent(time) ==
  /\ event = None /\ time > now /\ NoneBefore(time)
  /\ now' = time
  /\ conn' = TickedConns(time)
  /\ outstandingBytes' = TickedBytes(time)
  /\ UNCHANGED <<event, connections, tState, tConn, size>>

-----------------------------------------------------------------------------
(* Event handlers *)

TransferDone(c) == conn[c].state = "BUSY" /\ outstandingBytes[Head(conn[c].transfers)] = 0

GoIdle(c) ==
  /\ event = c /\ TransferDone(c) /\ Len(conn[c].transfers) = 1
  /\ conn' = UpdateDesiredBw([conn EXCEPT ![c].state = "IDLE", ![c].transfers = <<>>,
                                          ![c].idleTimestamp = now], c)
  /\ tState' = [tState EXCEPT ![Head(conn[c].transfers)] = "FINISHED"]
  /\ event' = None
  /\ UNCHANGED <<now, connections, outstandingBytes, tConn, size>>

\* Mutant: the next transfer waits for a change of the bandwidth.
StartNext_NoSchedule(c) ==
  /\ event = c /\ TransferDone(c) /\ Len(conn[c].transfers) > 1
  /\ conn' = UpdateDesiredBw([conn EXCEPT ![c].transfers = Tail(@)], c)
  /\ tState' = [tState EXCEPT ![Head(conn[c].transfers)] = "FINISHED",
                              ![conn[c].transfers[2]] = "ACTIVE"]
  /\ event' = None
  /\ UNCHANGED <<now, connections, outstandingBytes, tConn, size>>
\* The next transfer is started; its deadline is calculated in any case.
StartNext(c) ==
  /\ event = c /\ TransferDone(c) /\ Len(conn[c].transfers) > 1
  /\ LET updated == UpdateDesiredBw([conn EXCEPT ![c].transfers = Tail(@)], c)
     IN  conn' = [updated EXCEPT ![c] = ScheduleNextEvent(@)]
  /\ tState' = [tState EXCEPT ![Head(conn[c].transfers)] = "FINISHED",
                              ![conn[c].transfers[2]] = "ACTIVE"]
  /\ event' = None
  /\ UNCHANGED <<now, connections, outstandingBytes, tConn, size>>

\* A round of slow start is over, or the handshake is.
NextRound(c) ==
  /\ event = c /\ conn[c].state = "BUSY" /\ ~TransferDone(c) /\ conn[c].ssState \in {"NEW", "SS"}
  /\ conn' = UpdateDesiredBw([conn EXCEPT ![c].ssState = "SS"], c)
  /\ event' = None
  /\ UNCHANGED <<now, connections, tState, outstandingBytes, tConn, size>>

TimeOut(c) ==
  /\ event = c /\ conn[c].state = "IDLE" /\ conn[c].idleTimestamp + IdleTimeout >= now
  /\ conn' = [conn EXCEPT ![c] = Closed(@)]
  /\ connections' = RemoveFirst(connections, c)
  /\ event' = None
  /\ UNCHANGED <<now, tState, outstandingBytes, tConn, size>>

Run == \E c \in Conns : TakeEvent(c) \/ GoIdle(c) \/ StartNext(c) \/ NextRound(c) \/ TimeOut(c)

Next ==
  \/ \E c \in Conns, t \in Transfers : Connect(c, t) \/ AddTransfer(c, t)
  \/ \E c \in Conns : CloseIdle(c)
  \/ Run
  \/ \E time \in OtherTimes : OtherEvent(time)

\* The event loop takes an event as long as there are any, and handles it: only
\* TakeEvent begins to handle one, and there is a handler for each (HandlerAssertion).
Takes == event = None /\ event' \in Pending
Handles == event # None /\ event' = None
Spec == Init /\ [][Next]_vars /\ WF_event(Takes) /\ WF_event(Handles)

-----------------------------------------------------------------------------
(* Properties *)

ConnectionStorage ==
  [state : {"NONE", "IDLE", "BUSY", "CLOSED"}, ssState : {"NEW", "SS", "CA"},
   transfers : Seq(Transfers), cwnd : Nat,
   outstandingTransferBytesSum : Nat, transferredBytesSum : Nat,
   availableBw : 0 .. Bandwidth, desiredBw : Nat,
   nextEvent : Nat \cup {None}, idleTimestamp : Nat \cup {None},
   currTransferFinishTime : Nat \cup {None}, lastBwUpdate : Nat,
   lastBwUpdateTransferredBytesSum : Nat]

\* Types of the variables.
TypeOK ==
  /\ now \in Nat /\ event \in Conns \cup {None}
  /\ conn \in [Conns -> ConnectionStorage]
  /\ connections \in Seq(Conns)
  /\ tState \in [Transfers -> {"ENABLED", "ENQUEUED", "ACTIVE", "FINISHED"}]
  /\ size \in [Transfers -> Sizes]
  /\ outstandingBytes \in [Transfers -> Nat]
  /\ tConn \in [Transfers -> Conns \cup {None}]

\* Every open connection has an event to come, and it does not lie in the past: no
\* round of slow start and no change of the shares leaves a connection without one,
\* and time never runs backwards (eventSimulator.py:236).
EventToCome ==
  \A c \in Conns : IF c \in Open /\ c # event THEN conn[c].nextEvent >= now
                  ELSE conn[c].nextEvent = None

\* In congestion avoidance a connection has an event only for the end of a transfer.
\* When it comes no byte is left, whatever was truncated in the ticks before, or the
\* handler would end in its assertion (tcpConnection.py:176).  In slow start and
\* congestion avoidance no transfer has all its bytes before its event.
DoneAtDeadline ==
  \A c \in Open :
    Progressing(conn[c]) =>
      LET out == outstandingBytes[Head(conn[c].transfers)]
      IN  IF c = event THEN conn[c].ssState = "CA" => out = 0
          ELSE out = 0 => conn[c].nextEvent = now

\* Every byte is counted once: the sums kept with a connection are those of the
\* transfers that were sent on it.
BytesConserved ==
  \A c \in Conns :
    LET on == {t \in Transfers : tConn[t] = c}
    IN  /\ conn[c].outstandingTransferBytesSum = SumFunctionOnSet(outstandingBytes, on)
        /\ conn[c].transferredBytesSum
             = SumFunctionOnSet([t \in Transfers |-> size[t] - outstandingBytes[t]], on)

\* The connections together never transfer more than the interface can, at any
\* time and although a transfer is completed at its deadline whatever is left of it.
WithinCapacity ==
  SumFunctionOnSet([c \in Conns |-> conn[c].transferredBytesSum], Conns) * Second <= Bandwidth * now

\* Deadlines, windows and shares implement pipelines that serve every transfer.
Pipes == INSTANCE Pipelines WITH
           pipeline <- [c \in Conns |-> conn[c].transfers],
           sent <- {t \in Transfers : tState[t] # "ENABLED"},
           served <- {t \in Transfers : tState[t] = "FINISHED"},
           open <- Open,
           closed <- {c \in Conns : conn[c].state = "CLOSED"}
RefinesPipelines == Pipes!Spec

\* setAvailableBw checks whether a connection dropped out of slow start or "got what
\* we wanted" (tcpConnection.py:302-313): it leaves slow start only when the interface
\* has no bandwidth left for it.
LeavesSlowStartWhenFull ==
  [][\A c \in Conns :
       conn[c].ssState = "SS" /\ conn[c]'.ssState = "CA" =>
         Bandwidth - SumFunctionOnSet([d \in Conns |-> conn[d]'.availableBw], Conns)
           < Cardinality(Conns)]_vars

\* Since its share was set a connection has not got more than the share allows: a tick takes
\* care that transfers "don't overshoot due to numeric stability issues", and completes one at
\* its deadline only to "handle rounding problems" (tcpConnection.py:385 and 404).
NeverOvershoots ==
  \A c \in Conns :
    LET s == conn[c]
    IN  Progressing(s) => (s.transferredBytesSum - s.lastBwUpdateTransferredBytesSum) * Second
                            <= s.availableBw * (now - s.lastBwUpdate)

=============================================================================
