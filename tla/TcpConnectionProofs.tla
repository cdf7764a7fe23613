------------------------- MODULE TcpConnectionProofs -------------------------
(***************************************************************************)
(* Safety of the TCP connections of an interface, for any number of        *)
(* connections and transfers, any sizes, times and bandwidth.              *)
(***************************************************************************)
EXTENDS TcpConnection, DataLemmas

\* The interface lists the open connections.
Listed == IsInjective(connections) /\ ToSet(connections) = Open

\* The pipelines hold the transfers that were sent and are not finished.
PipelinesOk ==
  /\ \A t \in Transfers : tState[t] = "ENABLED" <=> tConn[t] = None
  /\ \A c \in Conns :
       /\ IsInjective(conn[c].transfers)
       /\ conn[c].state = "BUSY" <=> conn[c].transfers # <<>>
       /\ conn[c].state = "NONE" => conn[c].ssState = "NEW" /\ \A t \in Transfers : tConn[t] # c
       /\ \A t \in Transfers : t \in ToSet(conn[c].transfers)
                                <=> tConn[t] = c /\ tState[t] \in {"ENQUEUED", "ACTIVE"}
       /\ \A t \in Transfers : tConn[t] = c /\ tState[t] = "ACTIVE"
                               <=> conn[c].transfers # <<>> /\ t = Head(conn[c].transfers)

\* No byte is transferred before the handshake is over, and all are at the end.
BytesOk ==
  \A t \in Transfers :
    /\ outstandingBytes[t] <= size[t]
    /\ tState[t] = "ENABLED" => outstandingBytes[t] = size[t]
    /\ tConn[t] \in Conns /\ conn[tConn[t]].ssState = "NEW" => outstandingBytes[t] = size[t]
    /\ tState[t] = "FINISHED" => outstandingBytes[t] = 0

\* Windows do not shrink in slow start.
WindowOk(s) == s.ssState # "CA" => s.cwnd >= InitialCwnd

\* A connection has a share if and only if it transfers bytes, and they fit.
ShareOk(s) == IF Progressing(s) THEN s.desiredBw > 0 /\ s.availableBw > 0
                                ELSE s.desiredBw = 0 /\ s.availableBw = 0
SharesFit(cs) == Sum([c \in Conns |-> cs[c].availableBw], Conns) <= Bandwidth
SharesOk(cs) == (\A c \in Conns : ShareOk(cs[c])) /\ SharesFit(cs)

IInv == /\ TypeOK /\ Listed /\ PipelinesOk /\ BytesOk /\ BytesConserved
        /\ \A c \in Conns : WindowOk(conn[c])
        /\ SharesOk(conn)

\* No event lies in the past.  Only in slow start a busy connection may be without one.  In
\* congestion avoidance the event is the deadline of the active transfer, and when it comes
\* no byte is left.
EventOk(c) ==
  /\ conn[c].nextEvent # None => c \in Open /\ c # event /\ conn[c].nextEvent >= now
  /\ c \in Open /\ c # event /\ conn[c].nextEvent = None =>
       conn[c].state = "BUSY" /\ conn[c].ssState = "SS"
  /\ conn[c].state = "IDLE" =>
       conn[c].idleTimestamp + IdleTimeout = IF c = event THEN now ELSE conn[c].nextEvent
  /\ conn[c].state = "BUSY" /\ conn[c].ssState = "CA" =>
       LET out == outstandingBytes[Head(conn[c].transfers)]
       IN  IF c = event THEN out = 0
           ELSE /\ conn[c].nextEvent = conn[c].currTransferFinishTime
                /\ conn[c].nextEvent = now => out = 0
EventsOk == (event # None => event \in Open) /\ \A c \in Conns : EventOk(c)

\* A connection waits for its event.
Waits(c) == c \in Open /\ c # event => conn[c].nextEvent # None

\* The first window carries half of the bandwidth in a round.
WindowsCarryHalf == Bandwidth <= 2 * PerRtt(InitialCwnd)

\* Before congestion avoidance a connection wants and has no more than its window can use.
Windowed(s) ==
  s.ssState # "CA" => s.desiredBw <= PerRtt(s.cwnd) /\ s.availableBw <= PerRtt(s.cwnd)
Windows == \A c \in Conns : Windowed(conn[c])

\* What a step does to the windows.
WindowsKept == WindowsCarryHalf /\ Windows => Windows'

\* What a step does to the events.
EventsKept == EventsOk => EventsOk' /\ \A c \in Conns : Waits(c) => Waits(c)'

-----------------------------------------------------------------------------
(* Setting a share *)

\* What neither a new share nor a new deadline touches.
Untouched(s, t) ==
  /\ t.state = s.state /\ t.transfers = s.transfers /\ t.idleTimestamp = s.idleTimestamp
  /\ t.outstandingTransferBytesSum = s.outstandingTransferBytesSum
  /\ t.transferredBytesSum = s.transferredBytesSum

\* The event that was calculated last.  In congestion avoidance it is the deadline of
\* the active transfer, and lies in the future as long as a byte is left.
Ahead(r) ==
  /\ r.state \in {"IDLE", "BUSY"}
  /\ r.state = "IDLE" => r.nextEvent = r.idleTimestamp + IdleTimeout
  /\ r.state = "BUSY" => r.nextEvent \in Nat /\ r.nextEvent >= now
  /\ r.state = "BUSY" /\ r.ssState = "CA" =>
       /\ r.nextEvent = r.currTransferFinishTime
       /\ r.nextEvent = now => outstandingBytes[Head(r.transfers)] = 0

SameEvent(s, r) ==
  /\ r.nextEvent = s.nextEvent /\ r.currTransferFinishTime = s.currTransferFinishTime
  /\ r.availableBw = s.availableBw /\ r.ssState = s.ssState

\* What the handlers rely on when they set a share.
Ready(s) ==
  /\ s \in ConnectionStorage
  /\ s.state = "BUSY" <=> s.transfers # <<>>

LEMMA Constants ==
  /\ Bandwidth \in Nat /\ Second \in Nat \ {0} /\ RTT \in Nat \ {0} /\ IdleTimeout \in Nat \ {0}
  /\ InitialCwnd \in Nat /\ None \notin Conns /\ None \notin Nat /\ None \in Int
  /\ IsFiniteSet(Conns) /\ IsFiniteSet(Transfers) /\ Bandwidth >= Cardinality(Conns)
  /\ \A t \in Sizes : t \in Nat \ {0}
BY ConnsAssumption, TransfersAssumption, SecondAssumption, TimesAssumption, CwndAssumption,
   SizesAssumption DEF None

LEMMA PerRttType ==
  ASSUME NEW bytes \in Nat
  PROVE  PerRtt(bytes) \in Nat
<1>1. bytes * Second \in Nat
  BY Constants
<1> QED BY <1>1, Constants, Division DEF PerRtt

LEMMA PerRttOfWindow ==
  ASSUME NEW bytes \in Nat, bytes >= InitialCwnd
  PROVE  PerRtt(bytes) > 0
<1> DEFINE a == bytes * Second
           b == InitialCwnd * Second
<1>1. a \in Nat /\ b \in Nat /\ b <= a /\ b >= RTT
  BY Constants, CwndAssumption
<1> HIDE DEF a, b
<1>2. 1 * RTT <= a
  BY <1>1, Constants
<1>3. 1 <= a \div RTT
  BY <1>1, <1>2, Constants, DivisionIsGreatest
<1>4. a \div RTT \in Nat
  BY <1>1, Constants, Division
<1> QED BY <1>3, <1>4 DEF PerRtt, a

LEMMA PerRttMonotone ==
  ASSUME NEW less \in Nat, NEW more \in Nat, less <= more
  PROVE  PerRtt(less) <= PerRtt(more)
<1> DEFINE a == less * Second
           b == more * Second
<1>1. a \in Nat /\ b \in Nat /\ a <= b
  BY Constants
<1> HIDE DEF a, b
<1> DEFINE q == a \div RTT
<1>2. q \in Nat /\ q * RTT <= a
  BY <1>1, Constants, Division
<1> HIDE DEF q
<1>3. q * RTT <= b
  <2>1. q * RTT \in Int
    BY <1>2, Constants
  <2> QED BY <1>1, <1>2, <2>1
<1>4. q <= b \div RTT
  BY <1>1, <1>2, <1>3, Constants, DivisionIsGreatest
<1> QED BY <1>4 DEF PerRtt, a, b, q

LEMMA HeadIsTransfer ==
  ASSUME NEW s, Ready(s), s.state = "BUSY"
  PROVE  Head(s.transfers) \in Transfers
BY DEF Ready, ConnectionStorage

\* r is s but for its event and its deadline.
Reschedules(s, r) ==
  /\ r \in ConnectionStorage /\ Untouched(s, r) /\ Ahead(r)
  /\ r.ssState = s.ssState /\ r.cwnd = s.cwnd
  /\ r.availableBw = s.availableBw /\ r.desiredBw = s.desiredBw
  /\ r.lastBwUpdate = s.lastBwUpdate
  /\ r.lastBwUpdateTransferredBytesSum = s.lastBwUpdateTransferredBytesSum

LEMMA ScheduleProperties ==
  ASSUME NEW s, Ready(s), s.state \in {"IDLE", "BUSY"}, s.state = "BUSY" => s.availableBw > 0,
         TypeOK
  PROVE  Reschedules(s, ScheduleNextEvent(s))
<1> DEFINE r == ScheduleNextEvent(s)
           out == outstandingBytes[Head(s.transfers)]
           finish == now + (out * Second) \div s.availableBw
<1>1. s \in ConnectionStorage /\ now \in Nat
  BY DEF Ready, TypeOK
<1>2. CASE s.state = "IDLE"
  <2>1. s.idleTimestamp + IdleTimeout \in Nat
    BY <1>1, Constants DEF ConnectionStorage, None
  <2>2. r = [s EXCEPT !.nextEvent = s.idleTimestamp + IdleTimeout]
    BY <1>2 DEF ScheduleNextEvent
  <2> DEFINE x == s.idleTimestamp + IdleTimeout
  <2> HIDE DEF x, r
  <2>3. x \in Nat /\ r = [s EXCEPT !.nextEvent = x]
    BY <2>1, <2>2 DEF x
  <2>4. Ahead(r)
    BY <1>1, <1>2, <2>3 DEF ConnectionStorage, Ahead, x
  <2>5. Reschedules(s, r)
    BY <1>1, <2>3, <2>4 DEF ConnectionStorage, Untouched, Reschedules
  <2> QED BY <2>5 DEF r
<1>3. CASE s.state = "BUSY"
  <2>1. out \in Nat
    BY <1>3, HeadIsTransfer DEF TypeOK
  <2>2. out * Second \in Nat /\ s.availableBw \in Nat \ {0}
    BY <2>1, <1>1, <1>3, Constants DEF ConnectionStorage
  <2>3. finish \in Nat
    BY <1>1, <2>2, Division
  <2>4. now + RTT \in Nat
    BY <1>1, Constants
  <2>5. \/ r = [s EXCEPT !.nextEvent = finish, !.currTransferFinishTime = finish]
        \/ r = [s EXCEPT !.nextEvent = now + RTT] /\ s.ssState # "CA"
    BY <1>3 DEF ScheduleNextEvent
  <2> DEFINE x == now + RTT
  <2>a. finish >= now /\ (finish = now => out = 0)
    <3> DEFINE q == (out * Second) \div s.availableBw
    <3>1. q \in Nat /\ out * Second < q * s.availableBw + s.availableBw
      <4> HIDE DEF out
      <4> QED BY <2>2, Division
    <3>2. s.availableBw <= Second
      <4>1. s.availableBw \in 1 .. Bandwidth
        BY <1>1, <1>3, Constants DEF ConnectionStorage
      <4>2. Second % s.availableBw = 0 /\ Second \in Nat \ {0}
        BY <4>1, SecondAssumption
      <4> QED BY <2>2, <4>2
    <3>3. q = 0 => out = 0
      <4> SUFFICES ASSUME q = 0, out # 0 PROVE FALSE
        OBVIOUS
      <4>1. out * Second < s.availableBw
        <5> HIDE DEF q
        <5> QED BY <2>2, <3>1
      <4> HIDE DEF out
      <4>2. out * Second >= Second
        BY <2>1, Constants
      <4> QED BY <2>2, <3>2, <4>1, <4>2, Constants
    <3> HIDE DEF q, out
    <3>4. finish = now + q
      BY DEF q
    <3> HIDE DEF finish
    <3> QED BY <1>1, <3>1, <3>3, <3>4
  <2>b. Head(r.transfers) = Head(s.transfers)
    BY <1>1, <2>5 DEF ConnectionStorage
  <2> HIDE DEF r, finish, x
  <2>6. ASSUME r = [s EXCEPT !.nextEvent = finish, !.currTransferFinishTime = finish]
        PROVE  Reschedules(s, r)
    <3>1. r.nextEvent = finish /\ r.currTransferFinishTime = finish /\ r.state = "BUSY"
      BY <1>1, <1>3, <2>6 DEF ConnectionStorage
    <3>2. Ahead(r)
      BY <2>3, <2>a, <2>b, <3>1 DEF Ahead
    <3> QED BY <1>1, <2>3, <2>6, <3>2 DEF ConnectionStorage, Untouched, Reschedules
  <2>7. ASSUME r = [s EXCEPT !.nextEvent = x], s.ssState # "CA"
        PROVE  Reschedules(s, r)
    <3>1. x \in Nat /\ x >= now
      BY <1>1, <2>4, Constants DEF x
    <3>2. Ahead(r)
      BY <1>1, <1>3, <2>7, <3>1 DEF ConnectionStorage, Ahead
    <3> QED BY <1>1, <3>1, <3>2, <2>7 DEF ConnectionStorage, Untouched, Reschedules
  <2>8. Reschedules(s, r)
    BY <2>5, <2>6, <2>7 DEF x
  <2> QED BY <2>8 DEF r
<1> QED BY <1>2, <1>3

\* What a new share may change besides: it may end slow start.
Continued(s, r) ==
  /\ Untouched(s, r)
  /\ r.ssState # "CA" => r.cwnd = s.cwnd
  /\ r.ssState # s.ssState => s.state = "BUSY" /\ s.ssState = "SS" /\ r.ssState = "CA"

BeforeSchedule(s, r, bw) ==
  /\ r \in ConnectionStorage /\ r.availableBw = bw /\ Continued(s, r)
  /\ r.desiredBw # s.desiredBw =>
       Progressing(s) /\ r.desiredBw >= s.desiredBw /\ r.ssState = "CA"

SharesWith(s, r, bw) ==
  /\ BeforeSchedule(s, r, bw)
  /\ Ahead(r) \/ (SameEvent(s, r) /\ s.ssState # "SS")

LEMMA SetShareProperties ==
  ASSUME NEW s, Ready(s), s.state \in {"IDLE", "BUSY"}, NEW bw \in 0 .. Bandwidth,
         s.state = "BUSY" => bw > 0 \/ (bw = s.availableBw /\ s.ssState = "NEW"), TypeOK
  PROVE  SharesWith(s, SetAvailableBw(s, bw), bw)
<1> DEFINE r == SetAvailableBw(s, bw)
<1>1. s \in ConnectionStorage /\ now \in Nat /\ bw \in 0 .. Bandwidth
  BY DEF Ready, TypeOK
<1>2. CASE s.availableBw = bw /\ s.ssState # "SS"
  <2>1. r = s
    BY <1>2 DEF SetAvailableBw
  <2> HIDE DEF r
  <2>2. r \in ConnectionStorage /\ r.availableBw = bw /\ r.desiredBw = s.desiredBw
    BY <1>1, <1>2, <2>1
  <2>3. Continued(s, r) /\ SameEvent(s, r)
    BY <2>1 DEF Continued, Untouched, SameEvent
  <2> QED BY <1>2, <2>2, <2>3 DEF r, SharesWith, BeforeSchedule
<1>3. CASE ~(s.availableBw = bw /\ s.ssState # "SS")
  <2> DEFINE t == [s EXCEPT !.availableBw = bw, !.lastBwUpdate = now,
                            !.lastBwUpdateTransferredBytesSum = s.transferredBytesSum]
             sent == PerRtt(s.outstandingTransferBytesSum)
             u == IF DropsOut(s, bw)
                  THEN [t EXCEPT !.ssState = "CA", !.cwnd = 0, !.desiredBw = Max({sent, @})]
                  ELSE t
  <2>1. r = ScheduleNextEvent(u)
    BY <1>3 DEF SetAvailableBw
  <2>2. /\ t \in ConnectionStorage /\ Untouched(s, t) /\ t.availableBw = bw
        /\ t.ssState = s.ssState /\ t.cwnd = s.cwnd /\ t.desiredBw = s.desiredBw
    BY <1>1 DEF ConnectionStorage, Untouched
  <2>3. sent \in Nat /\ s.desiredBw \in Nat
    BY <1>1, PerRttType DEF ConnectionStorage
  <2> HIDE DEF t, sent
  <2>4. Max({sent, s.desiredBw}) \in Nat /\ Max({sent, s.desiredBw}) >= s.desiredBw
    BY <2>3 DEF Max
  <2>5. BeforeSchedule(s, u, bw)
    <3>1. CASE DropsOut(s, bw)
      <4> DEFINE m == Max({sent, s.desiredBw})
      <4>1. u = [t EXCEPT !.ssState = "CA", !.cwnd = 0, !.desiredBw = m]
        BY <3>1, <2>2
      <4>2. m \in Nat /\ m >= s.desiredBw
        BY <2>4
      <4>3. s.state = "BUSY" /\ s.ssState = "SS" /\ Progressing(s)
        BY <3>1 DEF DropsOut, Progressing
      <4> HIDE DEF m, u
      <4>4. u \in ConnectionStorage
        BY <4>1, <4>2, <2>2 DEF ConnectionStorage
      <4>5. Untouched(s, u) /\ u.availableBw = bw /\ u.ssState = "CA" /\ u.desiredBw = m
        BY <4>1, <2>2 DEF ConnectionStorage, Untouched
      <4>6. BeforeSchedule(s, u, bw)
        BY <4>2, <4>3, <4>4, <4>5 DEF Continued, BeforeSchedule
      <4> QED BY <4>6 DEF u
    <3>2. CASE ~DropsOut(s, bw)
      <4>1. u = t
        BY <3>2
      <4> HIDE DEF u
      <4>2. BeforeSchedule(s, u, bw)
        BY <4>1, <2>2 DEF Continued, BeforeSchedule
      <4> QED BY <4>2 DEF u
    <3> QED BY <3>1, <3>2
  <2> HIDE DEF u, r
  <2>6. Ready(u) /\ u.state \in {"IDLE", "BUSY"}
    BY <2>5 DEF Ready, BeforeSchedule, Continued, Untouched
  <2>7. u.state = "BUSY" => u.availableBw > 0
    BY <1>1, <1>3, <2>5 DEF BeforeSchedule, Continued, Untouched
  <2>8. Reschedules(u, r)
    BY <2>1, <2>6, <2>7, ScheduleProperties
  <2>9. SharesWith(s, r, bw)
    BY <2>5, <2>8 DEF BeforeSchedule, SharesWith, Reschedules, Continued, Untouched
  <2> QED BY <2>9 DEF r
<1> QED BY <1>2, <1>3

-----------------------------------------------------------------------------
(* Updating what a connection wants *)

LEMMA WishProperties ==
  ASSUME NEW s, Ready(s), WindowOk(s), s.state \in {"IDLE", "BUSY"}
  PROVE  NewDesiredBw(s) \in Nat /\ (NewDesiredBw(s) > 0 <=> Progressing(s))
<1>1. /\ s.ssState \in {"NEW", "SS", "CA"} /\ s.cwnd \in Nat
      /\ s.outstandingTransferBytesSum \in Nat
  BY DEF Ready, ConnectionStorage
<1>2. CASE s.state = "IDLE" \/ s.ssState = "NEW"
  <2>1. NewDesiredBw(s) = 0 /\ ~Progressing(s)
    BY <1>2 DEF NewDesiredBw, Progressing
  <2> QED BY <2>1
<1>3. CASE s.state = "BUSY" /\ s.ssState = "SS"
  <2>1. NewDesiredBw(s) = PerRtt(s.cwnd) /\ Progressing(s)
    BY <1>3 DEF NewDesiredBw, Progressing
  <2>2. PerRtt(s.cwnd) \in Nat /\ PerRtt(s.cwnd) > 0
    BY <1>1, <1>3, PerRttType, PerRttOfWindow DEF WindowOk
  <2> QED BY <2>1, <2>2
<1>4. CASE s.state = "BUSY" /\ s.ssState = "CA"
  <2> DEFINE sent == PerRtt(s.outstandingTransferBytesSum)
  <2>1. NewDesiredBw(s) = Max({sent, 1}) /\ Progressing(s)
    BY <1>4 DEF NewDesiredBw, Progressing
  <2>2. sent \in Nat
    BY <1>1, PerRttType
  <2> HIDE DEF sent
  <2>3. Max({sent, 1}) \in Nat /\ Max({sent, 1}) > 0
    BY <2>2 DEF Max
  <2> QED BY <2>1, <2>3
<1> QED BY <1>1, <1>2, <1>3, <1>4

Served(s) == s.desiredBw > 0 <=> s.availableBw > 0
Asks(s) == s.desiredBw > 0 <=> Progressing(s)

\* When c calculates anew what it wants, the others have what they want.
BeforeUpdate(cs, c) ==
  /\ IsInjective(connections)
  /\ ToSet(connections) = {d \in Conns : cs[d].state \in {"IDLE", "BUSY"}}
  /\ c \in ToSet(connections)
  /\ \A d \in Conns : Ready(cs[d]) /\ WindowOk(cs[d]) /\ Served(cs[d])
  /\ \A d \in Conns \ {c} : Asks(cs[d])
  /\ cs[c].ssState = "NEW" => cs[c].desiredBw = 0
  /\ cs \in [Conns -> ConnectionStorage] /\ SharesFit(cs)

AfterUpdate(cs, r) ==
  /\ r \in [Conns -> ConnectionStorage]
  /\ \A d \in Conns : Continued(cs[d], r[d]) /\ (SameEvent(cs[d], r[d]) \/ Ahead(r[d]))
  /\ SharesOk(r)

\* Whatever a connection in slow start wants anew, its round starts again.
Restarts(cs, c, r) ==
  cs[c].ssState = "SS" /\ NewDesiredBw(cs[c]) # cs[c].desiredBw => Ahead(r[c])

\* No share makes a connection exceed its window: it is no more than what the connection
\* wants, or one of at least two equal parts of the bandwidth.
KeepsWindows(cs, r) ==
  WindowsCarryHalf /\ (\A d \in Conns : Windowed(cs[d])) => \A d \in Conns : Windowed(r[d])

LEMMA WishIsWindowed ==
  ASSUME NEW s, Ready(s), s.state \in {"IDLE", "BUSY"}, s.ssState # "CA"
  PROVE  NewDesiredBw(s) <= PerRtt(s.cwnd)
<1>1. s.ssState \in {"NEW", "SS"} /\ s.cwnd \in Nat
  BY DEF Ready, ConnectionStorage
<1>2. PerRtt(s.cwnd) \in Nat
  BY <1>1, PerRttType
<1>3. NewDesiredBw(s) \in {0, PerRtt(s.cwnd)}
  BY <1>1 DEF NewDesiredBw
<1> QED BY <1>2, <1>3

LEMMA ShareIsWindowed ==
  ASSUME WindowsCarryHalf, NEW s, Ready(s), WindowOk(s), Windowed(s), NEW bw \in Nat,
         bw <= s.desiredBw \/ bw + bw <= Bandwidth, NEW r, BeforeSchedule(s, r, bw)
  PROVE  Windowed(r)
<1> SUFFICES ASSUME r.ssState # "CA"
             PROVE  r.desiredBw <= PerRtt(r.cwnd) /\ r.availableBw <= PerRtt(r.cwnd)
  BY DEF Windowed
<1>1. /\ r.availableBw = bw /\ r.desiredBw = s.desiredBw /\ r.cwnd = s.cwnd
      /\ s.ssState # "CA" /\ s.desiredBw <= PerRtt(s.cwnd)
  BY DEF BeforeSchedule, Continued, Windowed
<1>2. /\ s.cwnd \in Nat /\ InitialCwnd \in Nat /\ Bandwidth \in Nat /\ s.desiredBw \in Nat
      /\ s.cwnd >= InitialCwnd
  BY <1>1, Constants DEF Ready, ConnectionStorage, WindowOk
<1>3. /\ PerRtt(s.cwnd) \in Nat /\ PerRtt(InitialCwnd) \in Nat
      /\ PerRtt(InitialCwnd) <= PerRtt(s.cwnd)
  BY <1>2, PerRttType, PerRttMonotone
<1>4. bw <= PerRtt(s.cwnd)
  BY <1>1, <1>2, <1>3 DEF WindowsCarryHalf
<1> QED BY <1>1, <1>4

LEMMA UpdateProperties ==
  ASSUME TypeOK, NEW cs, NEW c \in Conns, BeforeUpdate(cs, c)
  PROVE  /\ AfterUpdate(cs, UpdateDesiredBw(cs, c))
         /\ Restarts(cs, c, UpdateDesiredBw(cs, c))
         /\ KeepsWindows(cs, UpdateDesiredBw(cs, c))
<1> DEFINE wish == NewDesiredBw(cs[c])
           r == UpdateDesiredBw(cs, c)
<1>1. wish \in Nat /\ (wish > 0 <=> Progressing(cs[c])) /\ cs[c].state \in {"IDLE", "BUSY"}
  BY WishProperties DEF BeforeUpdate
<1>2. \A d \in Conns : /\ cs[d].desiredBw \in Nat /\ cs[d].availableBw \in Nat
                       /\ cs[d].availableBw \in 0 .. Bandwidth
  <2> HIDE DEF wish, r
  <2>1. cs \in [Conns -> ConnectionStorage] /\ Bandwidth \in Nat
    BY Constants DEF BeforeUpdate
  <2>2. ASSUME NEW d \in Conns
        PROVE  cs[d].desiredBw \in Nat /\ cs[d].availableBw \in 0 .. Bandwidth
    <3>1. cs[d] \in ConnectionStorage
      BY <2>1
    <3> QED BY <3>1 DEF ConnectionStorage
  <2>3. \A b \in 0 .. Bandwidth : b \in Nat
    BY <2>1
  <2> QED BY <2>2, <2>3
<1>3. CASE wish = cs[c].desiredBw
  <2>1. r = cs
    BY <1>3 DEF UpdateDesiredBw
  <2> HIDE DEF r, wish
  <2>2. ASSUME NEW d \in Conns PROVE ShareOk(cs[d]) /\ Continued(cs[d], cs[d])
    <3>1. Asks(cs[d])
      BY <1>1, <1>3 DEF BeforeUpdate, Asks
    <3> QED BY <3>1, <1>2 DEF BeforeUpdate, Asks, Served, ShareOk, Continued, Untouched
  <2>3. AfterUpdate(cs, r)
    BY <2>1, <2>2 DEF AfterUpdate, BeforeUpdate, SharesOk, SameEvent
  <2>4. Restarts(cs, c, r)
    BY <1>3 DEF Restarts, wish
  <2>5. KeepsWindows(cs, r)
    BY <2>1 DEF KeepsWindows
  <2> QED BY <2>3, <2>4, <2>5 DEF r
<1>4. CASE wish # cs[c].desiredBw
  <2> DEFINE u == [cs EXCEPT ![c].desiredBw = wish]
             desired == [d \in Conns |-> u[d].desiredBw]
             share == Shares(connections, desired, Bandwidth)
             L == ToSet(connections)
  <2>1. r = [d \in Conns |-> IF d \in L THEN SetAvailableBw(u[d], share[d]) ELSE u[d]]
    BY <1>4 DEF UpdateDesiredBw, UpdateConnectionBwShare
  <2>2. /\ u \in [Conns -> ConnectionStorage]
        /\ \A d \in Conns \ {c} : u[d] = cs[d]
        /\ u[c] = [cs[c] EXCEPT !.desiredBw = wish]
    <3>1. [cs[c] EXCEPT !.desiredBw = wish] \in ConnectionStorage
      <4>1. cs[c] \in ConnectionStorage
        BY DEF BeforeUpdate
      <4> HIDE DEF wish
      <4> QED BY <4>1, <1>1 DEF ConnectionStorage
    <3> HIDE DEF wish
    <3> QED BY <3>1 DEF BeforeUpdate
  <2> HIDE DEF wish, r, u
  <2>3. /\ u[c].desiredBw = wish /\ u[c].availableBw = cs[c].availableBw
        /\ Untouched(cs[c], u[c]) /\ u[c].ssState = cs[c].ssState /\ u[c].cwnd = cs[c].cwnd
        /\ u[c].state = cs[c].state
    <3>1. cs[c] \in ConnectionStorage
      BY DEF BeforeUpdate
    <3> QED BY <2>2, <3>1 DEF ConnectionStorage, Untouched
  <2>4. ASSUME NEW d \in Conns
        PROVE  /\ Ready(u[d]) /\ Asks(u[d]) /\ u[d].availableBw = cs[d].availableBw
               /\ Untouched(cs[d], u[d]) /\ u[d].ssState = cs[d].ssState /\ u[d].cwnd = cs[d].cwnd
               /\ Progressing(u[d]) <=> Progressing(cs[d])
    <3>1. CASE d = c
      BY <1>1, <2>2, <2>3, <3>1 DEF BeforeUpdate, Ready, Asks, Progressing, Untouched
    <3>2. CASE d # c
      BY <2>2, <3>2 DEF BeforeUpdate, Untouched
    <3> QED BY <3>1, <3>2
  <2>5. desired \in [Conns -> Nat] /\ \A d \in Conns : desired[d] = u[d].desiredBw
    BY <2>2 DEF ConnectionStorage
  <2>6. Inputs(Conns, connections, desired, Bandwidth)
    BY <2>5, Constants DEF Inputs, TypeOK, BeforeUpdate
  <2>7. Len(connections) <= Bandwidth
    <3>1. connections \in Seq(Conns) /\ IsInjective(connections)
      BY DEF TypeOK, BeforeUpdate
    <3>2. Cardinality(L) = Len(connections) /\ IsFiniteSet(L)
      BY <3>1, LengthOfInjective
    <3>3. L \subseteq Conns
      BY DEF BeforeUpdate
    <3>4. Cardinality(L) <= Cardinality(Conns)
      BY <3>3, Constants, FS_Subset
    <3>5. Cardinality(Conns) \in Nat /\ Cardinality(L) \in Nat
      BY <3>2, Constants, FS_CardinalityType
    <3> QED BY <3>2, <3>4, <3>5, Constants
  <2> HIDE DEF desired
  <2>8. /\ share \in [Conns -> 0 .. Bandwidth]
        /\ \A d \in Conns : d \notin L \/ desired[d] = 0 => share[d] = 0
        /\ Sum(share, L) <= Bandwidth
        /\ \A d \in L : desired[d] > 0 => share[d] > 0
    BY <2>6, <2>7, SharesProperties
  <2>b. \A d \in Conns : share[d] <= desired[d] \/ share[d] + share[d] <= Bandwidth
    BY <2>6, SharesMeetWishes
  <2> HIDE DEF share
  <2>9. L \subseteq Conns /\ L = {d \in Conns : cs[d].state \in {"IDLE", "BUSY"}}
    BY DEF BeforeUpdate
  <2> HIDE DEF L
  <2>10. ASSUME NEW d \in L
         PROVE  SharesWith(u[d], r[d], share[d])
    <3>1. Ready(u[d]) /\ Asks(u[d]) /\ u[d].state \in {"IDLE", "BUSY"} /\ d \in Conns
      BY <2>4, <2>9 DEF Untouched
    <3>2. share[d] \in 0 .. Bandwidth
      BY <2>8, <3>1
    <3>3. CASE Progressing(u[d])
      <4>1. share[d] > 0
        BY <2>5, <2>8, <3>1, <3>3 DEF Asks
      <4> QED BY <2>1, <2>9, <3>1, <3>2, <4>1, SetShareProperties
    <3>4. CASE ~Progressing(u[d])
      <4>1. share[d] = 0
        <5>1. desired[d] = 0
          BY <2>5, <3>1, <3>4 DEF Asks
        <5> QED BY <2>8, <3>1, <5>1
      <4>2. u[d].state = "BUSY" => u[d].ssState = "NEW"
        BY <3>4 DEF Progressing
      <4>3. u[d].state = "BUSY" => u[d].availableBw = 0
        <5> SUFFICES ASSUME u[d].state = "BUSY" PROVE u[d].availableBw = 0
          OBVIOUS
        <5>1. cs[d].desiredBw = 0
          <6>1. CASE d = c
            BY <4>2, <6>1, <2>3 DEF BeforeUpdate
          <6>2. CASE d # c
            BY <3>1, <3>4, <2>2, <6>2, <1>2 DEF BeforeUpdate, Asks
          <6> QED BY <6>1, <6>2
        <5> QED BY <5>1, <1>2, <2>4, <3>1 DEF BeforeUpdate, Served
      <4>4. r[d] = SetAvailableBw(u[d], share[d])
        BY <2>1, <2>9
      <4> QED BY <3>1, <3>2, <4>1, <4>2, <4>3, <4>4, SetShareProperties
    <3> QED BY <3>3, <3>4
  <2>11. ASSUME NEW d \in Conns \ L
         PROVE  r[d] = u[d] /\ ~Progressing(u[d]) /\ r[d].availableBw = 0 /\ share[d] = 0
                /\ u[d].desiredBw = 0
    <3>1. r[d] = u[d] /\ d # c /\ share[d] = 0
      BY <2>1, <2>8, <2>9, <1>1
    <3>2. ~Progressing(u[d])
      BY <2>4, <2>9 DEF Progressing, Untouched
    <3>3. u[d].desiredBw = 0 /\ u[d] = cs[d]
      BY <2>2, <2>4, <3>1, <3>2, <1>2 DEF Asks
    <3>4. u[d].availableBw = 0
      BY <3>3, <1>2 DEF BeforeUpdate, Served
    <3> QED BY <3>1, <3>2, <3>3, <3>4
  <2>12. ASSUME NEW d \in Conns
         PROVE  /\ r[d] \in ConnectionStorage /\ Continued(u[d], r[d])
                /\ r[d].availableBw = share[d] /\ ShareOk(r[d])
    <3>1. CASE d \in L
      <4>1. /\ r[d] \in ConnectionStorage /\ Continued(u[d], r[d]) /\ r[d].availableBw = share[d]
            /\ r[d].desiredBw # u[d].desiredBw =>
                 Progressing(u[d]) /\ r[d].desiredBw >= u[d].desiredBw
        BY <2>10, <3>1 DEF SharesWith, BeforeSchedule
      <4>2. Progressing(r[d]) <=> Progressing(u[d])
        BY <4>1 DEF Continued, Untouched, Progressing
      <4>3. Asks(u[d]) /\ u[d].desiredBw \in Nat /\ r[d].desiredBw \in Nat
        BY <2>2, <2>4, <4>1 DEF ConnectionStorage
      <4>4. CASE Progressing(u[d])
        <5>1. u[d].desiredBw > 0 /\ share[d] > 0
          BY <2>5, <2>8, <3>1, <4>3, <4>4 DEF Asks
        <5> QED BY <4>1, <4>2, <4>3, <4>4, <5>1 DEF ShareOk
      <4>5. CASE ~Progressing(u[d])
        <5>1. u[d].desiredBw = 0 /\ share[d] = 0
          BY <2>5, <2>8, <4>3, <4>5 DEF Asks
        <5> QED BY <4>1, <4>2, <4>3, <4>5, <5>1 DEF ShareOk
      <4> QED BY <4>4, <4>5
    <3>2. CASE d \notin L
      <4>1. r[d] = u[d] /\ ~Progressing(r[d]) /\ r[d].availableBw = 0 /\ share[d] = 0
            /\ r[d].desiredBw = 0
        BY <2>11, <3>2
      <4>2. r[d] \in ConnectionStorage /\ Continued(u[d], r[d])
        BY <2>2, <4>1 DEF Continued, Untouched
      <4> QED BY <4>1, <4>2 DEF ShareOk
    <3> QED BY <3>1, <3>2
  <2>13. SharesFit(r)
    <3> DEFINE avail == [d \in Conns |-> r[d].availableBw]
               rest == Conns \ L
    <3>1. \A d \in Conns : avail[d] = share[d]
      BY <2>12
    <3>2. Sum(avail, Conns) = Sum(share, Conns)
      <4> HIDE DEF avail
      <4> QED BY <3>1, Constants, SumOfEqual DEF Sum
    <3>3. IsFiniteSet(L) /\ IsFiniteSet(rest) /\ Conns = L \cup rest /\ L \cap rest = {}
      BY <2>9, Constants, FS_Subset
    <3>4. \A d \in L \cup rest : share[d] \in Int
      BY <2>8, <2>9
    <3>5. \A d \in rest : share[d] = 0
      BY <2>11
    <3> HIDE DEF rest, avail
    <3>6. Sum(share, rest) = 0 * Cardinality(rest)
      BY <3>3, <3>5, SumOfConstant DEF Sum
    <3>7. Cardinality(rest) \in Nat
      BY <3>3, FS_CardinalityType
    <3>8. Sum(share, L \cup rest) = Sum(share, L) + Sum(share, rest)
      BY <3>3, <3>4, SumOfUnion DEF Sum
    <3>9. Sum(share, L) \in Int
      BY <3>3, <3>4, SumType DEF Sum
    <3>10. Sum(avail, Conns) <= Bandwidth
      <4>1. Sum(share, rest) = 0
        BY <3>6, <3>7
      <4>2. Sum(avail, Conns) = Sum(share, L) + Sum(share, rest)
        BY <3>2, <3>3, <3>8
      <4> QED BY <2>8, <3>9, <4>1, <4>2
    <3> QED BY <3>10 DEF SharesFit, avail
  <2>14. ASSUME NEW d \in Conns PROVE Continued(cs[d], r[d])
    BY <2>4, <2>12 DEF Continued, Untouched
  <2>15. r \in [Conns -> ConnectionStorage]
    <3>1. DOMAIN r = Conns /\ r = [d \in Conns |-> r[d]]
      BY <2>1
    <3> QED BY <2>12, <3>1
  <2>a. ASSUME NEW d \in Conns
        PROVE  /\ SameEvent(cs[d], r[d]) \/ Ahead(r[d])
               /\ d = c /\ cs[d].ssState = "SS" => Ahead(r[d])
    <3>1. u[d].nextEvent = cs[d].nextEvent
          /\ u[d].currTransferFinishTime = cs[d].currTransferFinishTime
      <4>1. CASE d = c
        <5>1. cs[c] \in ConnectionStorage
          BY DEF BeforeUpdate
        <5> QED BY <2>2, <4>1, <5>1 DEF ConnectionStorage
      <4>2. CASE d # c
        BY <2>2, <4>2
      <4> QED BY <4>1, <4>2
    <3>2. u[d].availableBw = cs[d].availableBw /\ u[d].ssState = cs[d].ssState
      BY <2>4
    <3>3. CASE d \in L
      <4>1. Ahead(r[d]) \/ (SameEvent(u[d], r[d]) /\ u[d].ssState # "SS")
        BY <2>10, <3>3 DEF SharesWith
      <4> QED BY <3>1, <3>2, <4>1 DEF SameEvent
    <3>4. CASE d \notin L
      <4>1. r[d] = u[d] /\ d # c
        BY <1>1, <2>9, <2>11, <3>4
      <4> QED BY <3>1, <3>2, <4>1 DEF SameEvent
    <3> QED BY <3>3, <3>4
  <2>16. AfterUpdate(cs, r)
    BY <2>12, <2>13, <2>14, <2>15, <2>a DEF AfterUpdate, SharesOk
  <2>17. Restarts(cs, c, r)
    BY <2>a DEF Restarts
  <2>18. KeepsWindows(cs, r)
    <3> SUFFICES ASSUME WindowsCarryHalf, \A d \in Conns : Windowed(cs[d]), NEW d \in Conns
                 PROVE  Windowed(r[d])
      BY DEF KeepsWindows
    <3>1. Ready(u[d]) /\ WindowOk(u[d])
      BY <2>4 DEF BeforeUpdate, WindowOk
    <3>2. Windowed(u[d])
      <4>1. CASE d = c
        <5> SUFFICES ASSUME u[c].ssState # "CA"
                     PROVE  u[c].desiredBw <= PerRtt(u[c].cwnd)
                            /\ u[c].availableBw <= PerRtt(u[c].cwnd)
          BY <4>1 DEF Windowed
        <5>1. Ready(cs[c]) /\ Windowed(cs[c]) /\ cs[c].ssState # "CA"
          BY <2>3 DEF BeforeUpdate
        <5>2. wish <= PerRtt(cs[c].cwnd)
          BY <1>1, <5>1, WishIsWindowed DEF wish
        <5> QED BY <2>3, <5>1, <5>2 DEF Windowed
      <4>2. CASE d # c
        BY <2>2, <4>2
      <4> QED BY <4>1, <4>2
    <3>3. CASE d \in L
      <4>1. BeforeSchedule(u[d], r[d], share[d])
        BY <2>10, <3>3 DEF SharesWith
      <4>2. share[d] \in Nat /\ (share[d] <= u[d].desiredBw \/ share[d] + share[d] <= Bandwidth)
        BY <2>5, <2>8, <2>b, Constants
      <4> QED BY <3>1, <3>2, <4>1, <4>2, ShareIsWindowed
    <3>4. CASE d \notin L
      BY <2>11, <3>2, <3>4
    <3> QED BY <3>3, <3>4
  <2> QED BY <2>16, <2>17, <2>18 DEF r
<1> QED BY <1>3, <1>4

-----------------------------------------------------------------------------
(* The first state *)

LEMMA InitInv == Init => IInv
<1> SUFFICES ASSUME Init PROVE IInv
  OBVIOUS
<1>1. NewStorage \in ConnectionStorage
  BY Constants DEF NewStorage, ConnectionStorage
<1>2. /\ now = 0 /\ event = None /\ conn = [c \in Conns |-> NewStorage] /\ connections = <<>>
      /\ tState = [t \in Transfers |-> "ENABLED"] /\ size \in [Transfers -> Sizes]
      /\ outstandingBytes = size /\ tConn = [t \in Transfers |-> None]
  BY DEF Init
<1>3. \A t \in Transfers : size[t] \in Nat
  BY <1>2, Constants
<1>4. TypeOK
  BY <1>1, <1>2, <1>3, Constants DEF TypeOK
<1>5. \A c \in Conns : /\ conn[c].state = "NONE" /\ conn[c].ssState = "NEW"
                       /\ conn[c].transfers = <<>> /\ conn[c].cwnd = InitialCwnd
                       /\ conn[c].availableBw = 0 /\ conn[c].desiredBw = 0
                       /\ conn[c].outstandingTransferBytesSum = 0
                       /\ conn[c].transferredBytesSum = 0
  BY <1>2 DEF NewStorage
<1>6. Listed
  BY <1>2, <1>5 DEF Listed, Open, IsInjective, ToSet
<1>7. PipelinesOk
  BY <1>2, <1>5, Constants DEF PipelinesOk, IsInjective, ToSet
<1>8. BytesOk
  BY <1>2, <1>3, Constants DEF BytesOk
<1>9. BytesConserved
  <2>1. \A c \in Conns : {t \in Transfers : tConn[t] = c} = {}
    BY <1>2, Constants
  <2> QED BY <1>5, <2>1, SumOfNothing DEF BytesConserved
<1>10. \A c \in Conns : WindowOk(conn[c]) /\ ShareOk(conn[c])
  BY <1>5, Constants DEF WindowOk, ShareOk, Progressing
<1>11. SharesFit(conn)
  <2> DEFINE avail == [c \in Conns |-> conn[c].availableBw]
  <2>1. \A c \in Conns : avail[c] = 0
    BY <1>5
  <2> HIDE DEF avail
  <2>2. Sum(avail, Conns) = 0 * Cardinality(Conns)
    BY <2>1, Constants, SumOfConstant DEF Sum
  <2>3. Cardinality(Conns) \in Nat
    BY Constants, FS_CardinalityType
  <2>4. Sum(avail, Conns) <= Bandwidth
    BY <2>2, <2>3, Constants
  <2> QED BY <2>4 DEF SharesFit, avail
<1> QED BY <1>4, <1>6, <1>7, <1>8, <1>9, <1>10, <1>11 DEF IInv, SharesOk

-----------------------------------------------------------------------------
(* What the steps have in common *)

LEMMA Types ==
  ASSUME IInv
  PROVE  /\ now \in Nat /\ conn \in [Conns -> ConnectionStorage] /\ connections \in Seq(Conns)
         /\ size \in [Transfers -> Sizes] /\ outstandingBytes \in [Transfers -> Nat]
         /\ \A t \in Transfers : size[t] \in Nat \ {0}
         /\ tConn \in [Transfers -> Conns \cup {None}]
         /\ \A c \in Conns :
              /\ conn[c].transfers \in Seq(Transfers) /\ IsInjective(conn[c].transfers)
              /\ conn[c].state \in {"NONE", "IDLE", "BUSY", "CLOSED"}
              /\ conn[c].ssState \in {"NEW", "SS", "CA"}
              /\ conn[c].outstandingTransferBytesSum \in Nat
              /\ conn[c].transferredBytesSum \in Nat
              /\ conn[c].availableBw \in 0 .. Bandwidth /\ conn[c].availableBw \in Nat
              /\ conn[c].desiredBw \in Nat /\ conn[c].cwnd \in Nat
<1>1. /\ now \in Nat /\ conn \in [Conns -> ConnectionStorage] /\ connections \in Seq(Conns)
      /\ size \in [Transfers -> Sizes] /\ outstandingBytes \in [Transfers -> Nat]
      /\ tConn \in [Transfers -> Conns \cup {None}]
  BY DEF IInv, TypeOK
<1>2. \A t \in Transfers : size[t] \in Nat \ {0}
  BY <1>1, Constants
<1>3. ASSUME NEW c \in Conns
      PROVE  /\ conn[c].transfers \in Seq(Transfers) /\ IsInjective(conn[c].transfers)
             /\ conn[c].state \in {"NONE", "IDLE", "BUSY", "CLOSED"}
             /\ conn[c].ssState \in {"NEW", "SS", "CA"}
             /\ conn[c].outstandingTransferBytesSum \in Nat
             /\ conn[c].transferredBytesSum \in Nat
             /\ conn[c].availableBw \in 0 .. Bandwidth /\ conn[c].availableBw \in Nat
             /\ conn[c].desiredBw \in Nat /\ conn[c].cwnd \in Nat
  <2>1. conn[c] \in ConnectionStorage
    BY <1>1
  <2>2. conn[c].availableBw \in 0 .. Bandwidth /\ conn[c].availableBw \in Nat
    BY <2>1, Constants DEF ConnectionStorage
  <2>3. IsInjective(conn[c].transfers)
    BY DEF IInv, PipelinesOk
  <2> QED BY <2>1, <2>2, <2>3 DEF ConnectionStorage
<1> QED BY <1>1, <1>2, <1>3

LEMMA SharesOf ==
  ASSUME IInv, NEW c \in Conns
  PROVE  /\ Ready(conn[c]) /\ WindowOk(conn[c]) /\ Served(conn[c]) /\ Asks(conn[c])
         /\ ~Progressing(conn[c]) => conn[c].desiredBw = 0 /\ conn[c].availableBw = 0
<1>1. ShareOk(conn[c]) /\ WindowOk(conn[c])
  BY DEF IInv, SharesOk
<1>2. conn[c] \in ConnectionStorage /\ conn[c].desiredBw \in Nat /\ conn[c].availableBw \in Nat
  BY Types
<1>3. Ready(conn[c])
  BY <1>2 DEF Ready, IInv, PipelinesOk
<1> QED BY <1>1, <1>2, <1>3 DEF ShareOk, Served, Asks

\* A step that moves no byte and gives no transfer to a connection keeps the sums.
SumsKept ==
  /\ UNCHANGED <<outstandingBytes, tConn, size>>
  /\ \A c \in Conns :
       /\ conn'[c].outstandingTransferBytesSum = conn[c].outstandingTransferBytesSum
       /\ conn'[c].transferredBytesSum = conn[c].transferredBytesSum

LEMMA BytesKept == ASSUME BytesConserved, SumsKept PROVE BytesConserved'
BY DEF BytesConserved, SumsKept

LEMMA PipelinesKept ==
  ASSUME PipelinesOk, UNCHANGED <<tState, tConn>>,
         \A c \in Conns : /\ conn'[c].state = conn[c].state
                          /\ conn'[c].transfers = conn[c].transfers
                          /\ conn[c].state = "NONE" => conn'[c].ssState = "NEW"
  PROVE  PipelinesOk'
<1>1. ASSUME NEW c \in Conns
      PROVE  (/\ IsInjective(conn[c].transfers)
              /\ conn[c].state = "BUSY" <=> conn[c].transfers # <<>>
              /\ conn[c].state = "NONE" => /\ conn[c].ssState = "NEW"
                                           /\ \A t \in Transfers : tConn[t] # c
              /\ \A t \in Transfers : t \in ToSet(conn[c].transfers)
                                       <=> tConn[t] = c /\ tState[t] \in {"ENQUEUED", "ACTIVE"}
              /\ \A t \in Transfers : tConn[t] = c /\ tState[t] = "ACTIVE"
                                  <=> conn[c].transfers # <<>> /\ t = Head(conn[c].transfers))'
  BY DEF PipelinesOk
<1>2. (\A t \in Transfers : tState[t] = "ENABLED" <=> tConn[t] = None)'
  BY DEF PipelinesOk
<1> QED BY <1>1, <1>2 DEF PipelinesOk

-----------------------------------------------------------------------------
(* What the pipelines see of a step *)

PipesStep == [Pipes!Next]_(Pipes!vars)

LEMMA SendStep ==
  ASSUME NEW c \in Conns, NEW t \in Transfers, conn[c].state # "CLOSED", conn'[c].state = "BUSY",
         tState[t] = "ENABLED", tState'[t] \in {"ENQUEUED", "ACTIVE"},
         \A u \in Transfers \ {t} : tState'[u] = tState[u],
         \A d \in Conns \ {c} : conn'[d].state = conn[d].state
                                /\ conn'[d].transfers = conn[d].transfers,
         conn'[c].transfers = Append(conn[c].transfers, t)
  PROVE  PipesStep
<1> DEFINE pipeline == [d \in Conns |-> conn[d].transfers]
           sent == {u \in Transfers : tState[u] # "ENABLED"}
           served == {u \in Transfers : tState[u] = "FINISHED"}
           closed == {d \in Conns : conn[d].state = "CLOSED"}
<1>1. c \notin closed /\ t \notin sent /\ sent' = sent \cup {t} /\ served' = served
      /\ closed' = closed
  OBVIOUS
<1>2. Open' = Open \cup {c}
  BY DEF Open
<1>3. pipeline' = [pipeline EXCEPT ![c] = Append(@, t)]
  OBVIOUS
<1>4. Pipes!Send(c, t)
  BY <1>1, <1>2, <1>3 DEF Pipes!Send
<1> QED BY <1>4 DEF PipesStep, Pipes!Next

LEMMA ServeStep ==
  ASSUME NEW c \in Conns, NEW h \in Transfers, h = Head(conn[c].transfers),
         conn[c].transfers # <<>>, conn'[c].transfers = Tail(conn[c].transfers),
         conn[c].state = "BUSY", conn'[c].state \in {"IDLE", "BUSY"},
         \A d \in Conns \ {c} : conn'[d].state = conn[d].state
                                /\ conn'[d].transfers = conn[d].transfers,
         tState[h] = "ACTIVE", tState'[h] = "FINISHED",
         \A u \in Transfers \ {h} : \/ tState'[u] = tState[u]
                                    \/ tState[u] = "ENQUEUED" /\ tState'[u] = "ACTIVE"
  PROVE  PipesStep
<1> DEFINE pipeline == [d \in Conns |-> conn[d].transfers]
           sent == {u \in Transfers : tState[u] # "ENABLED"}
           served == {u \in Transfers : tState[u] = "FINISHED"}
           closed == {d \in Conns : conn[d].state = "CLOSED"}
<1>1. sent' = sent /\ served' = served \cup {h} /\ closed' = closed
  OBVIOUS
<1>2. Open' = Open
  BY DEF Open
<1>3. pipeline' = [pipeline EXCEPT ![c] = Tail(@)]
  OBVIOUS
<1>4. Pipes!Serve(c)
  BY <1>1, <1>2, <1>3 DEF Pipes!Serve
<1> QED BY <1>4 DEF PipesStep, Pipes!Next

LEMMA CloseStep ==
  ASSUME NEW c \in Conns, conn[c].state = "IDLE", conn'[c].state = "CLOSED",
         conn[c].transfers = <<>>, tState' = tState,
         \A d \in Conns \ {c} : conn'[d].state = conn[d].state,
         \A d \in Conns : conn'[d].transfers = conn[d].transfers
  PROVE  PipesStep
<1> DEFINE pipeline == [d \in Conns |-> conn[d].transfers]
           sent == {u \in Transfers : tState[u] # "ENABLED"}
           served == {u \in Transfers : tState[u] = "FINISHED"}
           closed == {d \in Conns : conn[d].state = "CLOSED"}
<1>1. sent' = sent /\ served' = served /\ closed' = closed \cup {c} /\ pipeline' = pipeline
  OBVIOUS
<1>2. Open' = Open \ {c} /\ c \in Open
  BY DEF Open
<1>3. Pipes!Close(c)
  BY <1>1, <1>2 DEF Pipes!Close
<1> QED BY <1>3 DEF PipesStep, Pipes!Next

LEMMA StutterStep ==
  ASSUME tState' = tState, \A d \in Conns : conn'[d].state = conn[d].state
                                            /\ conn'[d].transfers = conn[d].transfers
  PROVE  PipesStep
<1> DEFINE pipeline == [d \in Conns |-> conn[d].transfers]
           sent == {u \in Transfers : tState[u] # "ENABLED"}
           served == {u \in Transfers : tState[u] = "FINISHED"}
           closed == {d \in Conns : conn[d].state = "CLOSED"}
<1>1. sent' = sent /\ served' = served /\ closed' = closed /\ pipeline' = pipeline
  OBVIOUS
<1>2. Open' = Open
  BY DEF Open
<1> QED BY <1>1, <1>2 DEF PipesStep, Pipes!vars

-----------------------------------------------------------------------------
(* Closing and connecting *)

LEMMA ClosedInv ==
  ASSUME IInv, NEW c \in Conns, conn[c].state = "IDLE",
         event \in {c, None}, conn' = [conn EXCEPT ![c] = Closed(@)], connections' = RemoveFirst(connections, c),
         event' = None, UNCHANGED <<now, tState, outstandingBytes, tConn, size>>
  PROVE  IInv' /\ EventsKept /\ WindowsKept /\ PipesStep
<1>1. /\ \A d \in Conns \ {c} : conn'[d] = conn[d]
      /\ conn'[c] \in ConnectionStorage /\ conn' \in [Conns -> ConnectionStorage]
      /\ conn'[c].state = "CLOSED" /\ conn'[c].ssState = conn[c].ssState
      /\ conn'[c].nextEvent = None
      /\ conn'[c].transfers = conn[c].transfers /\ conn'[c].cwnd = conn[c].cwnd
      /\ conn'[c].availableBw = conn[c].availableBw /\ conn'[c].desiredBw = conn[c].desiredBw
      /\ conn'[c].outstandingTransferBytesSum = conn[c].outstandingTransferBytesSum
      /\ conn'[c].transferredBytesSum = conn[c].transferredBytesSum
  <2>1. conn \in [Conns -> ConnectionStorage]
    BY Types
  <2>2. Closed(conn[c]) \in ConnectionStorage
    BY <2>1, ZenonT(60) DEF Closed, ConnectionStorage
  <2>3. conn' \in [Conns -> ConnectionStorage] /\ conn'[c] = Closed(conn[c])
    BY <2>1, <2>2
  <2>4. \A d \in Conns \ {c} : conn'[d] = conn[d]
    BY <2>1
  <2> QED BY <2>1, <2>2, <2>3, <2>4 DEF Closed, ConnectionStorage
<1>2. c \in ToSet(connections) /\ connections \in Seq(Conns) /\ IsInjective(connections)
  BY Types DEF IInv, Listed, Open
<1>3. /\ connections' \in Seq(Conns) /\ IsInjective(connections')
      /\ ToSet(connections') = ToSet(connections) \ {c}
  BY <1>2, RemoveFirstProperties
<1>4. TypeOK'
  BY <1>1, <1>3 DEF IInv, TypeOK
<1>5. Listed'
  <2>1. Open' = Open \ {c}
    BY <1>1 DEF Open
  <2> QED BY <1>3, <2>1 DEF IInv, Listed
<1>6. PipelinesOk'
  <2>1. \A d \in Conns : /\ conn'[d].transfers = conn[d].transfers
                         /\ conn'[d].state \in {"NONE", "BUSY"} \/ conn[d].state \in {"NONE", "BUSY"}
                              => conn'[d] = conn[d]
    BY <1>1
  <2> QED BY <2>1 DEF IInv, PipelinesOk
<1>7. BytesOk'
  <2>1. \A d \in Conns : conn'[d].ssState = conn[d].ssState
    BY <1>1
  <2> QED BY <2>1 DEF IInv, BytesOk
<1>8. BytesConserved'
  <2>1. SumsKept
    BY <1>1 DEF SumsKept
  <2> QED BY <2>1, BytesKept DEF IInv
<1>9. (\A d \in Conns : WindowOk(conn[d]) /\ ShareOk(conn[d]))'
  <2>1. WindowOk(conn'[c]) /\ ShareOk(conn'[c])
    BY <1>1, SharesOf DEF WindowOk, ShareOk, Progressing
  <2> QED BY <1>1, <2>1 DEF IInv, SharesOk
<1>10. SharesFit(conn)'
  <2>1. \A d \in Conns : conn'[d].availableBw = conn[d].availableBw
    BY <1>1
  <2>2. [d \in Conns |-> conn'[d].availableBw] = [d \in Conns |-> conn[d].availableBw]
    BY <2>1
  <2> QED BY <2>2 DEF IInv, SharesOk, SharesFit
<1>11. EventsKept
  <2> SUFFICES ASSUME EventsOk
               PROVE  EventsOk' /\ \A d \in Conns : Waits(d) => Waits(d)'
    BY DEF EventsKept
  <2>1. Open' = Open \ {c}
    BY <1>1 DEF Open
  <2>2. ASSUME NEW d \in Conns PROVE EventOk(d)' /\ (Waits(d) => Waits(d)')
    <3>1. CASE d = c
      BY <1>1, <2>1, <3>1 DEF EventOk, Waits
    <3>2. CASE d # c
      BY <1>1, <2>1, <3>2, Constants DEF EventsOk, EventOk, Waits
    <3> QED BY <3>1, <3>2
  <2> QED BY <2>2 DEF EventsOk
<1>12. PipesStep
  <2>1. conn[c].transfers = <<>>
    BY DEF IInv, PipelinesOk
  <2> QED BY <1>1, <2>1, CloseStep
<1>13. WindowsKept
  BY <1>1 DEF WindowsKept, Windows, Windowed
<1> QED BY <1>13, <1>12, <1>4, <1>5, <1>6, <1>7, <1>8, <1>9, <1>10, <1>11 DEF IInv, SharesOk

LEMMA ConnectInv ==
  ASSUME IInv, NEW c \in Conns, NEW t \in Transfers, Connect(c, t)
  PROVE  IInv' /\ EventsKept /\ WindowsKept /\ PipesStep
<1>1. /\ event = None /\ conn[c].state = "NONE" /\ tState[t] = "ENABLED"
      /\ connections' = Append(connections, c)
      /\ tState' = [tState EXCEPT ![t] = "ACTIVE"] /\ tConn' = [tConn EXCEPT ![t] = c]
      /\ UNCHANGED <<now, event, outstandingBytes, size>>
  BY DEF Connect
<1>2. /\ now \in Nat /\ conn \in [Conns -> ConnectionStorage] /\ connections \in Seq(Conns)
      /\ outstandingBytes \in [Transfers -> Nat] /\ tConn \in [Transfers -> Conns \cup {None}]
      /\ tState \in [Transfers -> {"ENABLED", "ENQUEUED", "ACTIVE", "FINISHED"}]
  BY Types DEF IInv, TypeOK
<1>3. /\ conn' \in [Conns -> ConnectionStorage] /\ \A d \in Conns \ {c} : conn'[d] = conn[d]
      /\ conn'[c].state = "BUSY" /\ conn'[c].ssState = conn[c].ssState
      /\ conn'[c].transfers = <<t>> /\ conn'[c].cwnd = conn[c].cwnd
      /\ conn'[c].availableBw = conn[c].availableBw /\ conn'[c].desiredBw = conn[c].desiredBw
      /\ conn'[c].outstandingTransferBytesSum = outstandingBytes[t]
      /\ conn'[c].transferredBytesSum = conn[c].transferredBytesSum
  <2>1. PICK round \in Handshakes :
          conn' = [conn EXCEPT ![c].state = "BUSY", ![c].transfers = <<t>>,
                            ![c].outstandingTransferBytesSum = outstandingBytes[t],
                            ![c].lastBwUpdate = now, ![c].nextEvent = now + round * RTT]
    BY DEF Connect
  <2> DEFINE x == now + round * RTT
             y == [conn[c] EXCEPT !.state = "BUSY", !.transfers = <<t>>,
                                  !.outstandingTransferBytesSum = outstandingBytes[t],
                                  !.lastBwUpdate = now, !.nextEvent = x]
  <2>2. x \in Nat
    <3>1. round \in Nat /\ RTT \in Nat
      BY TimesAssumption
    <3> QED BY <3>1, <1>2
  <2>3. conn' = [conn EXCEPT ![c] = y]
    BY <1>2, <2>1
  <2> HIDE DEF x
  <2>4. outstandingBytes[t] \in Nat /\ <<t>> \in Seq(Transfers) /\ conn[c] \in ConnectionStorage
    BY <1>2
  <2>5. y \in ConnectionStorage
    BY <1>2, <2>2, <2>4 DEF ConnectionStorage
  <2>6. conn'[c] = y /\ \A d \in Conns \ {c} : conn'[d] = conn[d]
    BY <1>2, <2>3
  <2>7. conn' \in [Conns -> ConnectionStorage]
    BY <1>2, <2>3, <2>5
  <2> QED BY <2>4, <2>6, <2>7 DEF ConnectionStorage
<1>4. c \notin ToSet(connections) /\ IsInjective(connections)
  BY <1>1 DEF IInv, Listed, Open
<1>5. /\ connections' \in Seq(Conns) /\ IsInjective(connections')
      /\ ToSet(connections') = ToSet(connections) \cup {c}
  BY <1>1, <1>2, <1>4, AppendToInjective
<1>6. TypeOK'
  BY <1>1, <1>2, <1>3, <1>5 DEF IInv, TypeOK
<1>7. Listed'
  <2>1. Open' = Open \cup {c}
    BY <1>3 DEF Open
  <2> QED BY <1>5, <2>1 DEF IInv, Listed
<1>8. conn[c].ssState = "NEW" /\ conn[c].transfers = <<>> /\ \A u \in Transfers : tConn[u] # c
  BY <1>1 DEF IInv, PipelinesOk
<1>9. tConn[t] = None /\ None \notin Conns
  BY <1>1, Constants DEF IInv, PipelinesOk
<1>10. PipelinesOk'
  <2>1. IsInjective(<<t>>) /\ ToSet(<<t>>) = {t} /\ <<t>> # <<>> /\ Head(<<t>>) = t
    BY DEF IsInjective, ToSet
  <2>2. /\ tState'[t] = "ACTIVE" /\ tConn'[t] = c
        /\ \A u \in Transfers \ {t} : tState'[u] = tState[u] /\ tConn'[u] = tConn[u]
    BY <1>1, <1>2
  <2>3. ASSUME NEW d \in Conns \ {c}
        PROVE  t \notin ToSet(conn[d].transfers)
               /\ ~(conn[d].transfers # <<>> /\ t = Head(conn[d].transfers))
    BY <1>9 DEF IInv, PipelinesOk
  <2>4. \A u \in Transfers : (tState[u] = "ENABLED" <=> tConn[u] = None)'
    BY <2>2, <1>9 DEF IInv, PipelinesOk
  <2>5. ASSUME NEW d \in Conns
        PROVE  (/\ IsInjective(conn[d].transfers)
                /\ conn[d].state = "BUSY" <=> conn[d].transfers # <<>>
                /\ conn[d].state = "NONE" => conn[d].ssState = "NEW"
                                             /\ \A u \in Transfers : tConn[u] # d
                /\ \A u \in Transfers : u \in ToSet(conn[d].transfers)
                                         <=> tConn[u] = d /\ tState[u] \in {"ENQUEUED", "ACTIVE"}
                /\ \A u \in Transfers : tConn[u] = d /\ tState[u] = "ACTIVE"
                                    <=> conn[d].transfers # <<>> /\ u = Head(conn[d].transfers))'
    <3>1. CASE d = c
      BY <1>3, <1>8, <2>1, <2>2, <3>1
    <3>2. CASE d # c
      BY <1>3, <2>2, <2>3, <3>2 DEF IInv, PipelinesOk
    <3> QED BY <3>1, <3>2
  <2> QED BY <2>4, <2>5 DEF PipelinesOk
<1>11. BytesOk'
  <2>1. outstandingBytes[t] = size[t]
    BY <1>1 DEF IInv, BytesOk
  <2>2. tState'[t] = "ACTIVE" /\ \A u \in Transfers \ {t} : tState'[u] = tState[u] /\ tConn'[u] = tConn[u]
    BY <1>1, <1>2
  <2>3. \A d \in Conns : conn'[d].ssState = conn[d].ssState
    BY <1>3
  <2>4. size[t] <= size[t]
    BY Types
  <2> QED BY <1>1, <2>1, <2>2, <2>3, <2>4 DEF IInv, BytesOk
<1>12. BytesConserved'
  <2> DEFINE on(d) == {u \in Transfers : tConn[u] = d}
             got == [u \in Transfers |-> size[u] - outstandingBytes[u]]
  <2>1. on(c) = {} /\ on(c)' = {t} /\ \A d \in Conns \ {c} : on(d)' = on(d)
    BY <1>1, <1>2, <1>8, <1>9
  <2>2. got' = got
    BY <1>1
  <2>3. /\ SumFunctionOnSet(outstandingBytes, {t}) = outstandingBytes[t]
        /\ SumFunctionOnSet(got, {t}) = 0 /\ SumFunctionOnSet(got, {}) = 0
    <3>1. outstandingBytes[t] \in Nat /\ got[t] = 0
      <4>1. outstandingBytes[t] = size[t] /\ size[t] \in Nat
        BY <1>1, Types DEF IInv, BytesOk
      <4> QED BY <4>1
    <3> HIDE DEF got
    <3>2. IsFiniteSet({t}) /\ Cardinality({t}) = 1
      BY FS_Singleton
    <3>3. SumFunctionOnSet(outstandingBytes, {t}) = outstandingBytes[t] * Cardinality({t})
      BY <3>1, <3>2, SumOfConstant
    <3>4. SumFunctionOnSet(got, {t}) = 0 * Cardinality({t})
      BY <3>1, <3>2, SumOfConstant
    <3> QED BY <3>1, <3>2, <3>3, <3>4, SumOfNothing
  <2>4. conn[c].transferredBytesSum = SumFunctionOnSet(got, on(c))
    BY DEF IInv, BytesConserved
  <2>5. ASSUME NEW d \in Conns
        PROVE  (/\ conn[d].outstandingTransferBytesSum = SumFunctionOnSet(outstandingBytes, on(d))
                /\ conn[d].transferredBytesSum = SumFunctionOnSet(got, on(d)))'
    <3>1. CASE d = c
      <4>1. on(d)' = {t} /\ conn'[d].transferredBytesSum = 0
        BY <1>3, <2>1, <2>3, <2>4, <3>1
      <4> HIDE DEF on, got
      <4> QED BY <1>1, <1>3, <2>2, <2>3, <3>1, <4>1
    <3>2. CASE d # c
      <4>1. on(d)' = on(d) /\ conn'[d] = conn[d]
        BY <1>3, <2>1, <3>2
      <4>2. /\ conn[d].outstandingTransferBytesSum = SumFunctionOnSet(outstandingBytes, on(d))
            /\ conn[d].transferredBytesSum = SumFunctionOnSet(got, on(d))
        BY DEF IInv, BytesConserved
      <4> HIDE DEF on, got
      <4> QED BY <1>1, <2>2, <4>1, <4>2
    <3> QED BY <3>1, <3>2
  <2> QED BY <2>5 DEF BytesConserved
<1>13. (\A d \in Conns : WindowOk(conn[d]) /\ ShareOk(conn[d]))'
  <2>1. WindowOk(conn'[c]) /\ ShareOk(conn'[c])
    <3>1. ~Progressing(conn[c]) /\ ~Progressing(conn'[c])
      BY <1>1, <1>3, <1>8 DEF Progressing
    <3>2. WindowOk(conn[c]) /\ conn[c].desiredBw = 0 /\ conn[c].availableBw = 0
      BY <3>1, SharesOf
    <3> QED BY <1>3, <3>1, <3>2 DEF WindowOk, ShareOk
  <2> QED BY <1>3, <2>1 DEF IInv, SharesOk
<1>14. SharesFit(conn)'
  <2>1. \A d \in Conns : conn'[d].availableBw = conn[d].availableBw
    BY <1>3
  <2>2. [d \in Conns |-> conn'[d].availableBw] = [d \in Conns |-> conn[d].availableBw]
    BY <2>1
  <2> QED BY <2>2 DEF IInv, SharesOk, SharesFit
<1>15. EventsKept
  <2> SUFFICES ASSUME EventsOk
               PROVE  EventsOk' /\ \A d \in Conns : Waits(d) => Waits(d)'
    BY DEF EventsKept
  <2>1. Open' = Open \cup {c} /\ event' = None /\ event = None /\ now' = now
    BY <1>1, <1>3 DEF Open
  <2>3. conn'[c].nextEvent \in Nat /\ conn'[c].nextEvent >= now
    <3>1. PICK round \in Handshakes : conn'[c].nextEvent = now + round * RTT
      BY <1>2 DEF Connect, ConnectionStorage
    <3>2. round * RTT \in Nat
      <4>1. round \in Nat /\ RTT \in Nat
        BY TimesAssumption
      <4> QED BY <4>1
    <3> QED BY <1>2, <3>1, <3>2
  <2>2. ASSUME NEW d \in Conns PROVE EventOk(d)' /\ (Waits(d) => Waits(d)')
    <3>1. CASE d = c
      BY <1>3, <1>8, <2>1, <2>3, <3>1, Constants DEF EventOk, Waits
    <3>2. CASE d # c
      BY <1>1, <1>3, <2>1, <3>2 DEF EventsOk, EventOk, Waits
    <3> QED BY <3>1, <3>2
  <2> QED BY <2>1, <2>2 DEF EventsOk
<1>16. PipesStep
  <2>1. conn'[c].transfers = Append(conn[c].transfers, t)
    <3>1. conn'[c].transfers = <<t>> /\ conn[c].transfers = <<>>
      BY <1>3, <1>8
    <3>2. <<t>> = Append(<<>>, t)
      OBVIOUS
    <3> QED BY <3>1, <3>2
  <2>2. tState'[t] = "ACTIVE" /\ \A u \in Transfers \ {t} : tState'[u] = tState[u]
    BY <1>1, <1>2
  <2> QED BY <1>1, <1>3, <2>1, <2>2, SendStep
<1>17. WindowsKept
  BY <1>3 DEF WindowsKept, Windows, Windowed
<1> QED BY <1>17, <1>16, <1>6, <1>7, <1>10, <1>11, <1>12, <1>13, <1>14, <1>15 DEF IInv, SharesOk

-----------------------------------------------------------------------------
(* Steps that update the shares *)

\* What the storage of an open connection may become before its shares are updated.
Prepared(s, x) ==
  /\ Ready(x) /\ WindowOk(x) /\ x.state \in {"IDLE", "BUSY"}
  /\ x.desiredBw = s.desiredBw /\ x.availableBw = s.availableBw
  /\ x.ssState = "NEW" => s.ssState = "NEW"

LEMMA PreparedIsBefore ==
  ASSUME IInv, NEW c \in Open, NEW x, Prepared(conn[c], x)
  PROVE  BeforeUpdate([conn EXCEPT ![c] = x], c)
<1> DEFINE cs == [conn EXCEPT ![c] = x]
<1>1. c \in Conns /\ conn[c].state \in {"IDLE", "BUSY"}
  BY DEF Open
<1>2. x \in ConnectionStorage
  BY DEF Prepared, Ready
<1>3. conn \in [Conns -> ConnectionStorage]
  BY Types
<1>4. /\ cs \in [Conns -> ConnectionStorage] /\ cs[c] = x
      /\ \A d \in Conns \ {c} : cs[d] = conn[d]
  BY <1>1, <1>2, <1>3
<1> HIDE DEF cs
<1>5. ToSet(connections) = {d \in Conns : cs[d].state \in {"IDLE", "BUSY"}}
  BY <1>1, <1>4 DEF IInv, Listed, Open, Prepared
<1>6. c \in ToSet(connections) /\ IsInjective(connections)
  BY DEF IInv, Listed
<1>7. \A d \in Conns \ {c} : Ready(cs[d]) /\ WindowOk(cs[d]) /\ Served(cs[d]) /\ Asks(cs[d])
  BY <1>4, SharesOf
<1>8. Ready(x) /\ WindowOk(x) /\ Served(x)
  BY <1>1, SharesOf DEF Prepared, Served
<1>9. x.ssState = "NEW" => x.desiredBw = 0
  <2>1. conn[c].ssState = "NEW" => ~Progressing(conn[c])
    BY DEF Progressing
  <2> QED BY <1>1, <2>1, SharesOf DEF Prepared
<1>10. SharesFit(cs)
  <2>1. \A d \in Conns : cs[d].availableBw = conn[d].availableBw
    BY <1>4 DEF Prepared
  <2>2. [d \in Conns |-> cs[d].availableBw] = [d \in Conns |-> conn[d].availableBw]
    BY <2>1
  <2> QED BY <2>2 DEF IInv, SharesOk, SharesFit
<1>11. BeforeUpdate(cs, c)
  BY <1>4, <1>5, <1>6, <1>7, <1>8, <1>9, <1>10 DEF BeforeUpdate
<1> QED BY <1>11 DEF cs

\* After such a step.
Resembles(r, s) ==
  /\ r.state = s.state /\ r.transfers = s.transfers
  /\ r.ssState = "NEW" <=> s.ssState = "NEW"
  /\ r.outstandingTransferBytesSum = s.outstandingTransferBytesSum
  /\ r.transferredBytesSum = s.transferredBytesSum

Stepped(c, x) ==
  /\ conn' \in [Conns -> ConnectionStorage] /\ Listed'
  /\ (\A d \in Conns : WindowOk(conn[d]) /\ ShareOk(conn[d]))' /\ SharesFit(conn)'
  /\ \A d \in Conns \ {c} : Resembles(conn'[d], conn[d])
  /\ Resembles(conn'[c], x)

LEMMA UpdateStep ==
  ASSUME IInv, NEW c \in Open, NEW x, Prepared(conn[c], x),
         AfterUpdate([conn EXCEPT ![c] = x], conn'), connections' = connections
  PROVE  Stepped(c, x)
<1> DEFINE cs == [conn EXCEPT ![c] = x]
<1>1. c \in Conns /\ conn[c].state \in {"IDLE", "BUSY"}
  BY DEF Open
<1>2. conn \in [Conns -> ConnectionStorage]
  BY Types
<1>3. \A d \in Conns : cs[d] = IF d = c THEN x ELSE conn[d]
  BY <1>1, <1>2
<1>4. BeforeUpdate(cs, c) /\ AfterUpdate(cs, conn')
  BY PreparedIsBefore
<1> HIDE DEF cs
<1>5. \A d \in Conns : WindowOk(cs[d])
  BY <1>4 DEF BeforeUpdate
<1>6. ASSUME NEW d \in Conns
      PROVE  /\ WindowOk(conn'[d]) /\ conn'[d].state = cs[d].state
             /\ conn'[d].transfers = cs[d].transfers
             /\ conn'[d].ssState = "NEW" <=> cs[d].ssState = "NEW"
             /\ conn'[d].outstandingTransferBytesSum = cs[d].outstandingTransferBytesSum
             /\ conn'[d].transferredBytesSum = cs[d].transferredBytesSum
  BY <1>4, <1>5 DEF AfterUpdate, Continued, Untouched, WindowOk
<1>7. Listed'
  <2>1. Open' = Open
    <3>1. x.state \in {"IDLE", "BUSY"}
      BY DEF Prepared
    <3> QED BY <1>1, <1>3, <1>6, <3>1 DEF Open
  <2> QED BY <2>1 DEF IInv, Listed
<1>8. conn' \in [Conns -> ConnectionStorage] /\ SharesOk(conn')
  BY <1>4 DEF AfterUpdate
<1>9. (\A d \in Conns : WindowOk(conn[d]) /\ ShareOk(conn[d]))' /\ SharesFit(conn)'
  <2>1. \A d \in Conns : ShareOk(conn'[d])
    BY <1>8 DEF SharesOk
  <2>2. SharesFit(conn')
    BY <1>8 DEF SharesOk
  <2>3. SharesFit(conn)'
    BY <2>2 DEF SharesFit
  <2> QED BY <1>6, <2>1, <2>3
<1> QED BY <1>1, <1>3, <1>6, <1>7, <1>8, <1>9 DEF Stepped, Resembles

LEMMA UpdatedWindows ==
  ASSUME IInv, NEW c \in Open, NEW x, Prepared(conn[c], x), x.cwnd = conn[c].cwnd,
         x.ssState # "CA" => conn[c].ssState # "CA",
         NEW r, KeepsWindows([conn EXCEPT ![c] = x], r), WindowsCarryHalf, Windows
  PROVE  \A d \in Conns : Windowed(r[d])
<1> DEFINE cs == [conn EXCEPT ![c] = x]
<1>1. c \in Conns /\ conn \in [Conns -> ConnectionStorage]
  BY Types DEF Open
<1>2. cs[c] = x /\ \A d \in Conns \ {c} : cs[d] = conn[d]
  BY <1>1
<1>3. KeepsWindows(cs, r)
  OBVIOUS
<1> HIDE DEF cs
<1>4. Windowed(x)
  BY <1>1 DEF Prepared, Windows, Windowed
<1>5. \A d \in Conns : Windowed(cs[d])
  BY <1>2, <1>4 DEF Windows
<1> QED BY <1>3, <1>5 DEF KeepsWindows

LEMMA AheadOk ==
  ASSUME NEW d \in Conns, Ahead(conn'[d]), event' = None, now' = now,
         outstandingBytes' = outstandingBytes,
         conn'[d].state = "IDLE" => conn'[d].nextEvent \in Nat /\ conn'[d].nextEvent >= now
  PROVE  EventOk(d)' /\ Waits(d)'
<1>1. conn'[d].state \in {"IDLE", "BUSY"} /\ d \in Open' /\ d # event'
  BY Constants DEF Ahead, Open
<1>2. conn'[d].nextEvent \in Nat /\ conn'[d].nextEvent >= now' /\ conn'[d].nextEvent # None
  BY <1>1, Constants DEF Ahead
<1> QED BY <1>1, <1>2 DEF Ahead, EventOk, Waits

LEMMA OthersWait ==
  ASSUME IInv, EventsOk, NEW c \in Open, NEW x, Prepared(conn[c], x),
         AfterUpdate([conn EXCEPT ![c] = x], conn'), event \in {c, None}, event' = None,
         UNCHANGED <<now, outstandingBytes>>
  PROVE  /\ \A d \in Conns \ {c} : EventOk(d)' /\ (Waits(d) => Waits(d)')
         /\ Continued(x, conn'[c]) /\ ShareOk(conn'[c])
         /\ SameEvent(x, conn'[c]) \/ Ahead(conn'[c])
<1> DEFINE cs == [conn EXCEPT ![c] = x]
<1>1. c \in Conns /\ conn \in [Conns -> ConnectionStorage] /\ now \in Nat
  BY Types DEF Open
<1>2. cs[c] = x /\ \A d \in Conns \ {c} : cs[d] = conn[d]
  BY <1>1
<1> HIDE DEF cs
<1>3. \A d \in Conns : /\ Continued(cs[d], conn'[d])
                       /\ SameEvent(cs[d], conn'[d]) \/ Ahead(conn'[d])
  BY DEF AfterUpdate, cs
<1>4. ASSUME NEW d \in Conns \ {c}
      PROVE  EventOk(d)' /\ (Waits(d) => Waits(d)')
  <2>1. EventOk(d) /\ d # event /\ d # event'
    BY <1>1, Constants DEF EventsOk
  <2>2. /\ conn'[d].state = conn[d].state /\ conn'[d].transfers = conn[d].transfers
        /\ conn'[d].idleTimestamp = conn[d].idleTimestamp /\ (d \in Open' <=> d \in Open)
    BY <1>2, <1>3 DEF Continued, Untouched, Open
  <2>3. CASE SameEvent(conn[d], conn'[d])
    <3>1. /\ conn'[d].nextEvent = conn[d].nextEvent /\ conn'[d].ssState = conn[d].ssState
          /\ conn'[d].currTransferFinishTime = conn[d].currTransferFinishTime
          /\ outstandingBytes'[Head(conn'[d].transfers)] = outstandingBytes[Head(conn[d].transfers)]
      BY <2>2, <2>3 DEF SameEvent
    <3>2. EventOk(d)'
      BY <2>1, <2>2, <3>1 DEF EventOk
    <3>3. Waits(d) => Waits(d)'
      BY <2>1, <2>2, <3>1 DEF Waits
    <3> QED BY <3>2, <3>3
  <2>4. CASE Ahead(conn'[d])
    <3>1. conn'[d].state = "IDLE" => conn'[d].nextEvent \in Nat /\ conn'[d].nextEvent >= now
      <4> SUFFICES ASSUME conn'[d].state = "IDLE"
                   PROVE  conn'[d].nextEvent \in Nat /\ conn'[d].nextEvent >= now
        OBVIOUS
      <4>1. conn'[d].nextEvent = conn[d].nextEvent /\ d \in Open
        BY <2>1, <2>2, <2>4 DEF Ahead, EventOk, Open
      <4>2. conn[d].nextEvent # None
        BY <2>1, <2>2, <4>1 DEF EventOk
      <4>3. conn[d] \in ConnectionStorage
        BY <1>1
      <4> QED BY <2>1, <4>1, <4>2, <4>3 DEF EventOk, ConnectionStorage
    <3> QED BY <2>4, <3>1, AheadOk
  <2> QED BY <1>2, <1>3, <2>3, <2>4
<1>5. ShareOk(conn'[c])
  BY <1>1 DEF AfterUpdate, SharesOk
<1> QED BY <1>1, <1>2, <1>3, <1>4, <1>5

\* The round of c has changed what it wants.
NewWish(c) == NewDesiredBw([conn[c] EXCEPT !.ssState = "SS"]) # conn[c].desiredBw

LEMMA NextRoundInv ==
  ASSUME IInv, NEW c \in Conns, NextRound(c)
  PROVE  /\ IInv' /\ WindowsKept /\ PipesStep
         /\ EventsOk => EventsOk' /\ \A d \in Conns : NewWish(c) /\ Waits(d) => Waits(d)'
<1> DEFINE x == [conn[c] EXCEPT !.ssState = "SS"]
<1>1. /\ event = c /\ conn[c].state = "BUSY" /\ conn[c].ssState \in {"NEW", "SS"}
      /\ ~TransferDone(c) /\ conn' = UpdateDesiredBw([conn EXCEPT ![c].ssState = "SS"], c)
      /\ event' = None /\ UNCHANGED <<now, connections, tState, outstandingBytes, tConn, size>>
  BY DEF NextRound
<1>2. conn \in [Conns -> ConnectionStorage] /\ conn[c] \in ConnectionStorage /\ c \in Open
  BY <1>1, Types DEF Open
<1>3. /\ x \in ConnectionStorage /\ x.ssState = "SS" /\ Untouched(conn[c], x)
      /\ x.cwnd = conn[c].cwnd /\ x.desiredBw = conn[c].desiredBw
      /\ x.availableBw = conn[c].availableBw
  BY <1>2 DEF ConnectionStorage, Untouched
<1>4. [conn EXCEPT ![c].ssState = "SS"] = [conn EXCEPT ![c] = x]
  BY <1>2
<1> HIDE DEF x
<1>5. Prepared(conn[c], x)
  <2>1. Ready(conn[c]) /\ WindowOk(conn[c])
    BY SharesOf
  <2> QED BY <1>1, <1>3, <2>1 DEF Prepared, Ready, WindowOk, Untouched
<1>6. /\ AfterUpdate([conn EXCEPT ![c] = x], conn')
      /\ Restarts([conn EXCEPT ![c] = x], c, conn')
      /\ KeepsWindows([conn EXCEPT ![c] = x], conn')
  <2>1. BeforeUpdate([conn EXCEPT ![c] = x], c)
    BY <1>2, <1>5, PreparedIsBefore
  <2>2. TypeOK
    BY DEF IInv
  <2> QED BY <1>1, <1>4, <2>1, <2>2, UpdateProperties
<1>7. Stepped(c, x)
  BY <1>1, <1>2, <1>5, <1>6, UpdateStep
<1>8. \A d \in Conns : /\ conn'[d].state = conn[d].state /\ conn'[d].transfers = conn[d].transfers
                       /\ conn'[d].ssState = "NEW" => conn[d].ssState = "NEW"
                       /\ conn'[d].outstandingTransferBytesSum = conn[d].outstandingTransferBytesSum
                       /\ conn'[d].transferredBytesSum = conn[d].transferredBytesSum
  BY <1>3, <1>7 DEF Untouched, Stepped, Resembles
<1>9. TypeOK'
  BY <1>1, <1>7 DEF IInv, TypeOK, Stepped
<1>10. PipelinesOk'
  <2>1. \A d \in Conns : conn[d].state = "NONE" => conn'[d].ssState = "NEW"
    BY <1>1, <1>7 DEF IInv, PipelinesOk, Stepped, Resembles
  <2> QED BY <1>1, <1>8, <2>1, PipelinesKept DEF IInv
<1>11. BytesOk'
  BY <1>1, <1>8 DEF IInv, BytesOk
<1>12. BytesConserved'
  <2>1. SumsKept
    BY <1>1, <1>8 DEF SumsKept
  <2> QED BY <2>1, BytesKept DEF IInv
<1>13. ASSUME EventsOk
       PROVE  EventsOk' /\ \A d \in Conns : NewWish(c) /\ Waits(d) => Waits(d)'
  <2>1. /\ \A d \in Conns \ {c} : EventOk(d)' /\ (Waits(d) => Waits(d)')
        /\ Continued(x, conn'[c]) /\ ShareOk(conn'[c])
        /\ SameEvent(x, conn'[c]) \/ Ahead(conn'[c])
    BY <1>1, <1>2, <1>5, <1>6, <1>13, OthersWait
  <2>2. conn[c].nextEvent = None /\ x.nextEvent = None
    <3>1. conn[c].nextEvent = None
      BY <1>1, <1>13 DEF EventsOk, EventOk
    <3> QED BY <1>2, <3>1 DEF ConnectionStorage, x
  <2>3. conn'[c].state = "BUSY"
    BY <1>1, <1>8
  <2>4. Ahead(conn'[c]) => EventOk(c)' /\ Waits(c)'
    BY <1>1, <2>3, AheadOk
  <2>5. SameEvent(x, conn'[c]) => EventOk(c)'
    BY <1>3, <2>2, <2>3 DEF SameEvent, EventOk
  <2>6. NewWish(c) => Ahead(conn'[c])
    <3> DEFINE cs == [conn EXCEPT ![c] = x]
    <3>1. cs[c] = x
      BY <1>2
    <3>2. Restarts(cs, c, conn')
      BY <1>6
    <3> HIDE DEF cs
    <3>3. NewWish(c) <=> NewDesiredBw(x) # x.desiredBw
      BY <1>3 DEF NewWish, x
    <3> QED BY <1>3, <3>1, <3>2, <3>3 DEF Restarts
  <2> QED BY <1>1, <2>1, <2>4, <2>5, <2>6 DEF EventsOk
<1>14. PipesStep
  BY <1>1, <1>8, StutterStep
<1>15. WindowsKept
  <2> SUFFICES ASSUME WindowsCarryHalf, Windows PROVE Windows'
    BY DEF WindowsKept
  <2>1. \A d \in Conns : Windowed(conn'[d])
    BY <1>1, <1>2, <1>3, <1>5, <1>6, UpdatedWindows
  <2> QED BY <2>1 DEF Windows, Windowed
<1> QED BY <1>15, <1>14, <1>13, <1>7, <1>9, <1>10, <1>11, <1>12 DEF IInv, SharesOk, Stepped

LEMMA AddTransferInv ==
  ASSUME IInv, NEW c \in Conns, NEW t \in Transfers, AddTransfer(c, t)
  PROVE  IInv' /\ EventsKept /\ WindowsKept /\ PipesStep
<1> DEFINE x == [conn[c] EXCEPT !.state = "BUSY", !.transfers = Append(@, t),
                                !.outstandingTransferBytesSum = @ + outstandingBytes[t]]
           pipe == conn[c].transfers
<1>1. /\ event = None /\ conn[c].state \in {"IDLE", "BUSY"} /\ tState[t] = "ENABLED"
      /\ conn' = UpdateDesiredBw([conn EXCEPT ![c].state = "BUSY", ![c].transfers = Append(@, t),
                                   ![c].outstandingTransferBytesSum = @ + outstandingBytes[t]], c)
      /\ tState' = [tState EXCEPT ![t] = IF conn[c].state = "IDLE" THEN "ACTIVE" ELSE "ENQUEUED"]
      /\ tConn' = [tConn EXCEPT ![t] = c]
      /\ UNCHANGED <<now, event, connections, outstandingBytes, size>>
  BY DEF AddTransfer
<1>2. /\ conn \in [Conns -> ConnectionStorage] /\ conn[c] \in ConnectionStorage /\ c \in Open
      /\ outstandingBytes[t] \in Nat /\ pipe \in Seq(Transfers) /\ IsInjective(pipe)
      /\ tState \in [Transfers -> {"ENABLED", "ENQUEUED", "ACTIVE", "FINISHED"}]
      /\ tConn \in [Transfers -> Conns \cup {None}] /\ None \notin Conns
  BY <1>1, Types, Constants DEF Open, IInv, TypeOK
<1>3. tConn[t] = None /\ t \notin ToSet(pipe)
  BY <1>1, <1>2 DEF IInv, PipelinesOk
<1>a. /\ Append(pipe, t) \in Seq(Transfers) /\ IsInjective(Append(pipe, t))
      /\ ToSet(Append(pipe, t)) = ToSet(pipe) \cup {t} /\ Append(pipe, t) # <<>>
      /\ Head(Append(pipe, t)) = IF pipe = <<>> THEN t ELSE Head(pipe)
  BY <1>2, <1>3, AppendToInjective
<1>b. /\ x \in ConnectionStorage /\ x.ssState = conn[c].ssState /\ x.state = "BUSY"
      /\ x.cwnd = conn[c].cwnd /\ x.desiredBw = conn[c].desiredBw
      /\ x.availableBw = conn[c].availableBw /\ x.transfers = Append(pipe, t)
      /\ x.outstandingTransferBytesSum = conn[c].outstandingTransferBytesSum + outstandingBytes[t]
      /\ x.transferredBytesSum = conn[c].transferredBytesSum
  <2> DEFINE longer == Append(pipe, t)
             more == conn[c].outstandingTransferBytesSum + outstandingBytes[t]
  <2>1. longer \in Seq(Transfers) /\ more \in Nat
    BY <1>2, <1>a, Types
  <2>2. x = [conn[c] EXCEPT !.state = "BUSY", !.transfers = longer,
                            !.outstandingTransferBytesSum = more]
    OBVIOUS
  <2> HIDE DEF longer, more, x
  <2>3. x \in ConnectionStorage
    BY <1>2, <2>1, <2>2 DEF ConnectionStorage
  <2>4. /\ x.ssState = conn[c].ssState /\ x.state = "BUSY"
        /\ x.cwnd = conn[c].cwnd /\ x.desiredBw = conn[c].desiredBw
        /\ x.availableBw = conn[c].availableBw /\ x.transfers = longer
        /\ x.outstandingTransferBytesSum = more
        /\ x.transferredBytesSum = conn[c].transferredBytesSum
    BY <1>2, <2>2 DEF ConnectionStorage
  <2> QED BY <2>3, <2>4 DEF longer, more
<1>4. [conn EXCEPT ![c].state = "BUSY", ![c].transfers = Append(@, t),
                   ![c].outstandingTransferBytesSum = @ + outstandingBytes[t]]
        = [conn EXCEPT ![c] = x]
  BY <1>2
<1> HIDE DEF x
<1>5. Prepared(conn[c], x)
  <2>1. Ready(conn[c]) /\ WindowOk(conn[c])
    BY SharesOf
  <2> QED BY <1>a, <1>b, <2>1 DEF Prepared, Ready, WindowOk
<1>6. AfterUpdate([conn EXCEPT ![c] = x], conn') /\ KeepsWindows([conn EXCEPT ![c] = x], conn')
  <2>1. BeforeUpdate([conn EXCEPT ![c] = x], c)
    BY <1>2, <1>5, PreparedIsBefore
  <2>2. TypeOK
    BY DEF IInv
  <2> QED BY <1>1, <1>4, <2>1, <2>2, UpdateProperties
<1>7. Stepped(c, x)
  BY <1>1, <1>2, <1>5, <1>6, UpdateStep
<1>8. /\ \A d \in Conns \ {c} : /\ conn'[d].state = conn[d].state
                                /\ conn'[d].transfers = conn[d].transfers
                                /\ conn'[d].ssState = "NEW" <=> conn[d].ssState = "NEW"
                                /\ conn'[d].outstandingTransferBytesSum
                                     = conn[d].outstandingTransferBytesSum
                                /\ conn'[d].transferredBytesSum = conn[d].transferredBytesSum
      /\ conn'[c].state = "BUSY" /\ conn'[c].transfers = Append(pipe, t)
      /\ conn'[c].ssState = "NEW" <=> conn[c].ssState = "NEW"
      /\ conn'[c].outstandingTransferBytesSum
           = conn[c].outstandingTransferBytesSum + outstandingBytes[t]
      /\ conn'[c].transferredBytesSum = conn[c].transferredBytesSum
  BY <1>b, <1>7 DEF Stepped, Resembles
<1>9. /\ tConn'[t] = c /\ \A u \in Transfers \ {t} : tState'[u] = tState[u] /\ tConn'[u] = tConn[u]
      /\ tState'[t] = IF conn[c].state = "IDLE" THEN "ACTIVE" ELSE "ENQUEUED"
  BY <1>1, <1>2
<1>10. TypeOK'
  <2>1. /\ tState' \in [Transfers -> {"ENABLED", "ENQUEUED", "ACTIVE", "FINISHED"}]
        /\ tConn' \in [Transfers -> Conns \cup {None}]
    BY <1>1, <1>2
  <2> QED BY <1>1, <1>7, <2>1 DEF IInv, TypeOK, Stepped
<1>11. PipelinesOk'
  <2>1. ASSUME NEW d \in Conns \ {c}
        PROVE  t \notin ToSet(conn[d].transfers)
               /\ ~(conn[d].transfers # <<>> /\ t = Head(conn[d].transfers))
    BY <1>2, <1>3 DEF IInv, PipelinesOk
  <2>2. (\A u \in Transfers : tState[u] = "ENABLED" <=> tConn[u] = None)'
    BY <1>2, <1>9 DEF IInv, PipelinesOk
  <2>3. ASSUME NEW d \in Conns
        PROVE  (/\ IsInjective(conn[d].transfers)
                /\ conn[d].state = "BUSY" <=> conn[d].transfers # <<>>
                /\ conn[d].state = "NONE" => /\ conn[d].ssState = "NEW"
                                             /\ \A u \in Transfers : tConn[u] # d
                /\ \A u \in Transfers : u \in ToSet(conn[d].transfers)
                                         <=> tConn[u] = d /\ tState[u] \in {"ENQUEUED", "ACTIVE"}
                /\ \A u \in Transfers : tConn[u] = d /\ tState[u] = "ACTIVE"
                                    <=> conn[d].transfers # <<>> /\ u = Head(conn[d].transfers))'
    <3>1. CASE d = c
      <4>1. conn[c].state = "IDLE" <=> pipe = <<>>
        BY <1>1 DEF IInv, PipelinesOk
      <4>2. \A u \in Transfers : u \in ToSet(pipe) <=> tConn[u] = c
                                                     /\ tState[u] \in {"ENQUEUED", "ACTIVE"}
        BY DEF IInv, PipelinesOk
      <4>3. \A u \in Transfers : tConn[u] = c /\ tState[u] = "ACTIVE"
                                <=> pipe # <<>> /\ u = Head(pipe)
        BY DEF IInv, PipelinesOk
      <4>4. IsInjective(conn'[c].transfers) /\ conn'[c].transfers # <<>>
        BY <1>8, <1>a
      <4>5. \A u \in Transfers : u \in ToSet(conn'[c].transfers)
                                <=> tConn'[u] = c /\ tState'[u] \in {"ENQUEUED", "ACTIVE"}
        BY <1>3, <1>8, <1>9, <1>a, <4>2
      <4>6. ASSUME NEW u \in Transfers
            PROVE  tConn'[u] = c /\ tState'[u] = "ACTIVE" <=> u = Head(conn'[c].transfers)
        <5>1. CASE u = t
          <6>1. pipe # <<>> => Head(pipe) \in ToSet(pipe)
            BY <1>2, TailOfInjective
          <6> QED BY <1>3, <1>8, <1>9, <1>a, <4>1, <5>1, <6>1
        <5>2. CASE u # t
          BY <1>8, <1>9, <1>a, <4>3, <5>2
        <5> QED BY <5>1, <5>2
      <4> QED BY <1>8, <3>1, <4>4, <4>5, <4>6
    <3>2. CASE d # c
      <4>1. \A u \in Transfers : tConn'[u] = d => u # t
        BY <1>9, <3>2
      <4> QED BY <1>8, <1>9, <2>1, <3>2, <4>1 DEF IInv, PipelinesOk
    <3> QED BY <3>1, <3>2
  <2> QED BY <2>2, <2>3 DEF PipelinesOk
<1>12. outstandingBytes[t] = size[t] /\ size[t] \in Nat
  BY <1>1, Types DEF IInv, BytesOk
<1>13. BytesOk'
  <2>1. \A d \in Conns : conn'[d].ssState = "NEW" => conn[d].ssState = "NEW"
    BY <1>8
  <2>2. ASSUME NEW u \in Transfers
        PROVE  (/\ outstandingBytes[u] <= size[u]
                /\ tState[u] = "ENABLED" => outstandingBytes[u] = size[u]
                /\ tConn[u] \in Conns /\ conn[tConn[u]].ssState = "NEW"
                     => outstandingBytes[u] = size[u]
                /\ tState[u] = "FINISHED" => outstandingBytes[u] = 0)'
    <3>1. CASE u = t
      BY <1>1, <1>9, <1>12, <3>1
    <3>2. CASE u # t
      BY <1>1, <1>9, <2>1, <3>2 DEF IInv, BytesOk
    <3> QED BY <3>1, <3>2
  <2> QED BY <2>2 DEF BytesOk
<1>14. BytesConserved'
  <2> DEFINE on(d) == {u \in Transfers : tConn[u] = d}
             got == [u \in Transfers |-> size[u] - outstandingBytes[u]]
  <2>1. /\ t \notin on(c) /\ on(c)' = on(c) \cup {t} /\ \A d \in Conns \ {c} : on(d)' = on(d)
    BY <1>2, <1>3, <1>9
  <2>2. got' = got /\ got[t] = 0
    BY <1>1, <1>12
  <2>3. /\ \A u \in Transfers : outstandingBytes[u] \in Int /\ got[u] \in Int
        /\ IsFiniteSet(on(c)) /\ on(c) \subseteq Transfers
    BY Types, Constants, FS_Subset
  <2>4. \A d \in Conns : /\ conn[d].outstandingTransferBytesSum
                              = SumFunctionOnSet(outstandingBytes, on(d))
                         /\ conn[d].transferredBytesSum = SumFunctionOnSet(got, on(d))
    BY DEF IInv, BytesConserved
  <2>5. /\ SumFunctionOnSet(outstandingBytes, on(c) \cup {t})
             = outstandingBytes[t] + conn[c].outstandingTransferBytesSum
        /\ SumFunctionOnSet(got, on(c) \cup {t}) = 0 + conn[c].transferredBytesSum
    <3> HIDE DEF on, got
    <3>1. \A u \in on(c) : outstandingBytes[u] \in Int /\ got[u] \in Int
      BY <2>3
    <3>2. SumFunctionOnSet(outstandingBytes, on(c) \cup {t})
            = outstandingBytes[t] + SumFunctionOnSet(outstandingBytes, on(c))
      BY <2>1, <2>3, <3>1, SumWith
    <3>3. SumFunctionOnSet(got, on(c) \cup {t}) = got[t] + SumFunctionOnSet(got, on(c))
      BY <2>1, <2>3, <3>1, SumWith
    <3> QED BY <2>2, <2>4, <3>2, <3>3
  <2>6. ASSUME NEW d \in Conns
        PROVE  (/\ conn[d].outstandingTransferBytesSum = SumFunctionOnSet(outstandingBytes, on(d))
                /\ conn[d].transferredBytesSum = SumFunctionOnSet(got, on(d)))'
    <3> HIDE DEF on, got
    <3>1. CASE d = c
      <4>1. conn[c].outstandingTransferBytesSum \in Nat /\ conn[c].transferredBytesSum \in Nat
        BY Types
      <4>2. on(d)' = on(c) \cup {t} /\ got' = got /\ outstandingBytes' = outstandingBytes
        BY <1>1, <2>1, <2>2, <3>1
      <4>3. /\ conn'[c].outstandingTransferBytesSum
                 = outstandingBytes[t] + conn[c].outstandingTransferBytesSum
            /\ conn'[c].transferredBytesSum = 0 + conn[c].transferredBytesSum
        BY <1>2, <1>8, <4>1
      <4> QED BY <2>5, <3>1, <4>2, <4>3
    <3>2. CASE d # c
      <4>1. on(d)' = on(d) /\ got' = got /\ outstandingBytes' = outstandingBytes
        BY <1>1, <2>1, <2>2, <3>2
      <4> QED BY <1>8, <2>4, <3>2, <4>1
    <3> QED BY <3>1, <3>2
  <2> QED BY <2>6 DEF BytesConserved
<1>15. EventsKept
  <2> SUFFICES ASSUME EventsOk
               PROVE  EventsOk' /\ \A d \in Conns : Waits(d) => Waits(d)'
    BY DEF EventsKept
  <2>1. /\ \A d \in Conns \ {c} : EventOk(d)' /\ (Waits(d) => Waits(d)')
        /\ Continued(x, conn'[c]) /\ ShareOk(conn'[c])
        /\ SameEvent(x, conn'[c]) \/ Ahead(conn'[c])
    BY <1>1, <1>2, <1>5, <1>6, OthersWait
  <2>2. conn'[c].state = "BUSY" /\ c \in Open' /\ c # event /\ c # event' /\ EventOk(c)
    BY <1>1, <1>2, <1>8 DEF EventsOk, Open
  <2>3. CASE Ahead(conn'[c])
    <3>1. EventOk(c)' /\ Waits(c)'
      BY <1>1, <2>2, <2>3, AheadOk
    <3> QED BY <1>1, <2>1, <3>1 DEF EventsOk
  <2>4. CASE SameEvent(x, conn'[c])
    <3>1. /\ conn'[c].nextEvent = conn[c].nextEvent
          /\ conn'[c].currTransferFinishTime = conn[c].currTransferFinishTime
          /\ conn'[c].availableBw = conn[c].availableBw /\ conn'[c].ssState = conn[c].ssState
      <4>1. x.nextEvent = conn[c].nextEvent
            /\ x.currTransferFinishTime = conn[c].currTransferFinishTime
        BY <1>2 DEF ConnectionStorage, x
      <4> QED BY <1>b, <2>4, <4>1 DEF SameEvent
    <3>2. CASE conn[c].state = "BUSY"
      <4>1. Head(conn'[c].transfers) = Head(pipe)
        BY <1>8, <1>a, <3>2 DEF IInv, PipelinesOk
      <4>2. EventOk(c)' /\ (Waits(c) => Waits(c)')
        BY <1>1, <1>2, <2>2, <3>1, <3>2, <4>1 DEF EventOk, Waits
      <4> QED BY <1>1, <2>1, <4>2 DEF EventsOk
    <3>3. CASE conn[c].state = "IDLE"
      <4>1. conn'[c].availableBw = 0
        BY <3>1, <3>3, SharesOf DEF Progressing
      <4>2. conn'[c].ssState = "NEW"
        <5>1. ~Progressing(conn'[c])
          BY <2>1, <4>1 DEF ShareOk
        <5>2. conn' \in [Conns -> ConnectionStorage]
          BY <1>7 DEF Stepped
        <5> QED BY <2>2, <5>1, <5>2 DEF Progressing, ConnectionStorage
      <4>3. EventOk(c)' /\ (Waits(c) => Waits(c)')
        BY <1>1, <1>2, <2>2, <3>1, <3>3, <4>2 DEF EventOk, Waits
      <4> QED BY <1>1, <2>1, <4>3 DEF EventsOk
    <3> QED BY <1>1, <3>2, <3>3
  <2> QED BY <2>1, <2>3, <2>4
<1>16. PipesStep
  <2>1. conn[c].state # "CLOSED" /\ conn'[c].state = "BUSY" /\ tState[t] = "ENABLED"
        /\ tState'[t] \in {"ENQUEUED", "ACTIVE"} /\ conn'[c].transfers = Append(conn[c].transfers, t)
    BY <1>1, <1>8, <1>9
  <2>2. \A u \in Transfers \ {t} : tState'[u] = tState[u]
    BY <1>9
  <2>3. \A d \in Conns \ {c} : conn'[d].state = conn[d].state
                                /\ conn'[d].transfers = conn[d].transfers
    BY <1>8
  <2> QED BY <2>1, <2>2, <2>3, SendStep
<1>17. WindowsKept
  <2> SUFFICES ASSUME WindowsCarryHalf, Windows PROVE Windows'
    BY DEF WindowsKept
  <2>1. \A d \in Conns : Windowed(conn'[d])
    BY <1>2, <1>b, <1>5, <1>6, UpdatedWindows
  <2> QED BY <2>1 DEF Windows, Windowed
<1> QED BY <1>17, <1>16, <1>15, <1>7, <1>10, <1>11, <1>13, <1>14 DEF IInv, SharesOk, Stepped

\* The first transfer of the pipeline is done; its bytes are all there.
Done(c, pipe, h) ==
  /\ conn[c].state = "BUSY" /\ pipe # <<>> /\ pipe \in Seq(Transfers) /\ h \in Transfers
  /\ outstandingBytes[h] = 0 /\ tConn[h] = c /\ tState[h] = "ACTIVE"
  /\ Progressing(conn[c]) /\ c \in Open
  /\ Tail(pipe) \in Seq(Transfers) /\ IsInjective(Tail(pipe))
  /\ ToSet(Tail(pipe)) = ToSet(pipe) \ {h} /\ h \in ToSet(pipe)
  /\ Len(Tail(pipe)) = Len(pipe) - 1 /\ h = Head(pipe)

LEMMA DoneTransfer ==
  ASSUME IInv, NEW c \in Conns, TransferDone(c)
  PROVE  Done(c, conn[c].transfers, Head(conn[c].transfers))
<1> DEFINE pipe == conn[c].transfers
           h == Head(pipe)
<1>1. conn[c].state = "BUSY" /\ outstandingBytes[h] = 0
  BY DEF TransferDone
<1>2. pipe # <<>> /\ pipe \in Seq(Transfers) /\ IsInjective(pipe)
  BY <1>1, Types DEF IInv, PipelinesOk
<1>3. /\ Tail(pipe) \in Seq(Transfers) /\ IsInjective(Tail(pipe)) /\ h \in Transfers
      /\ ToSet(Tail(pipe)) = ToSet(pipe) \ {h} /\ h \in ToSet(pipe)
      /\ Len(Tail(pipe)) = Len(pipe) - 1
  BY <1>2, TailOfInjective
<1>4. tConn[h] = c /\ tState[h] = "ACTIVE"
  BY <1>2, <1>3 DEF IInv, PipelinesOk
<1>5. conn[c].ssState # "NEW"
  <2>1. size[h] > 0
    BY <1>3, Types
  <2> QED BY <1>1, <1>3, <1>4, <2>1 DEF IInv, BytesOk
<1> QED BY <1>1, <1>2, <1>3, <1>4, <1>5 DEF Progressing, Open, Done

LEMMA GoIdleInv ==
  ASSUME IInv, NEW c \in Conns, GoIdle(c)
  PROVE  IInv' /\ EventsKept /\ WindowsKept /\ PipesStep
<1> DEFINE x == [conn[c] EXCEPT !.state = "IDLE", !.transfers = <<>>, !.idleTimestamp = now]
           pipe == conn[c].transfers
           h == Head(pipe)
<1>1. /\ event = c /\ TransferDone(c) /\ Len(pipe) = 1
      /\ conn' = UpdateDesiredBw([conn EXCEPT ![c].state = "IDLE", ![c].transfers = <<>>,
                                              ![c].idleTimestamp = now], c)
      /\ tState' = [tState EXCEPT ![h] = "FINISHED"]
      /\ event' = None /\ UNCHANGED <<now, connections, outstandingBytes, tConn, size>>
  BY DEF GoIdle
<1>2. /\ conn \in [Conns -> ConnectionStorage] /\ conn[c] \in ConnectionStorage /\ now \in Nat
      /\ tState \in [Transfers -> {"ENABLED", "ENQUEUED", "ACTIVE", "FINISHED"}]
      /\ tConn \in [Transfers -> Conns \cup {None}] /\ None \notin Conns
  BY Types, Constants DEF IInv, TypeOK
<1>3. /\ conn[c].state = "BUSY" /\ pipe # <<>> /\ pipe \in Seq(Transfers) /\ h \in Transfers
      /\ outstandingBytes[h] = 0 /\ tConn[h] = c /\ tState[h] = "ACTIVE"
      /\ Progressing(conn[c]) /\ c \in Open
      /\ Tail(pipe) \in Seq(Transfers) /\ ToSet(Tail(pipe)) = ToSet(pipe) \ {h}
      /\ h \in ToSet(pipe) /\ Len(Tail(pipe)) = Len(pipe) - 1
  BY <1>1, DoneTransfer DEF Done
<1>a. ToSet(pipe) \subseteq {h}
  <2>1. Tail(pipe) = <<>>
    <3> DEFINE rest == Tail(pipe)
    <3>1. rest \in Seq(Transfers) /\ Len(rest) = 0
      BY <1>1, <1>3
    <3> HIDE DEF rest
    <3>2. rest = <<>>
      BY <3>1
    <3> QED BY <3>2 DEF rest
  <2>2. ToSet(Tail(pipe)) = {}
    BY <2>1 DEF ToSet
  <2> QED BY <1>3, <2>2
<1>b. /\ x \in ConnectionStorage /\ x.ssState = conn[c].ssState /\ x.state = "IDLE"
      /\ x.cwnd = conn[c].cwnd /\ x.desiredBw = conn[c].desiredBw
      /\ x.availableBw = conn[c].availableBw /\ x.transfers = <<>>
      /\ x.outstandingTransferBytesSum = conn[c].outstandingTransferBytesSum
      /\ x.transferredBytesSum = conn[c].transferredBytesSum
  <2>1. <<>> \in Seq(Transfers)
    OBVIOUS
  <2>2. x \in ConnectionStorage
    BY <1>2, <2>1 DEF ConnectionStorage
  <2>3. x.state = "IDLE" /\ x.transfers = <<>>
    BY <1>2 DEF ConnectionStorage
  <2>4. /\ x.ssState = conn[c].ssState
        /\ x.cwnd = conn[c].cwnd /\ x.desiredBw = conn[c].desiredBw
        /\ x.availableBw = conn[c].availableBw
        /\ x.outstandingTransferBytesSum = conn[c].outstandingTransferBytesSum
        /\ x.transferredBytesSum = conn[c].transferredBytesSum
    BY <1>2 DEF ConnectionStorage
  <2> QED BY <2>2, <2>3, <2>4
<1>4. [conn EXCEPT ![c].state = "IDLE", ![c].transfers = <<>>, ![c].idleTimestamp = now]
        = [conn EXCEPT ![c] = x]
  BY <1>2
<1> HIDE DEF x
<1>5. Prepared(conn[c], x)
  <2>1. Ready(conn[c]) /\ WindowOk(conn[c])
    BY SharesOf
  <2> QED BY <1>b, <2>1 DEF Prepared, Ready, WindowOk
<1>6. AfterUpdate([conn EXCEPT ![c] = x], conn') /\ KeepsWindows([conn EXCEPT ![c] = x], conn')
  <2>1. BeforeUpdate([conn EXCEPT ![c] = x], c)
    BY <1>3, <1>5, PreparedIsBefore
  <2>2. TypeOK
    BY DEF IInv
  <2> QED BY <1>1, <1>4, <2>1, <2>2, UpdateProperties
<1>7. Stepped(c, x)
  BY <1>1, <1>3, <1>5, <1>6, UpdateStep
<1>8. /\ \A d \in Conns \ {c} : conn'[d].state = conn[d].state
                                /\ conn'[d].transfers = conn[d].transfers
      /\ conn'[c].state = "IDLE" /\ conn'[c].transfers = <<>>
      /\ \A d \in Conns : /\ conn'[d].ssState = "NEW" <=> conn[d].ssState = "NEW"
                          /\ conn'[d].outstandingTransferBytesSum
                               = conn[d].outstandingTransferBytesSum
                          /\ conn'[d].transferredBytesSum = conn[d].transferredBytesSum
  BY <1>b, <1>7 DEF Stepped, Resembles
<1>9. tState'[h] = "FINISHED" /\ \A u \in Transfers \ {h} : tState'[u] = tState[u]
  BY <1>1, <1>2, <1>3
<1>10. TypeOK'
  <2>1. tState' \in [Transfers -> {"ENABLED", "ENQUEUED", "ACTIVE", "FINISHED"}]
    BY <1>1, <1>2
  <2> QED BY <1>1, <1>7, <2>1 DEF IInv, TypeOK, Stepped
<1>11. PipelinesOk'
  <2>2. (\A u \in Transfers : tState[u] = "ENABLED" <=> tConn[u] = None)'
    BY <1>1, <1>2, <1>3, <1>9 DEF IInv, PipelinesOk
  <2>3. ASSUME NEW d \in Conns
        PROVE  (/\ IsInjective(conn[d].transfers)
                /\ conn[d].state = "BUSY" <=> conn[d].transfers # <<>>
                /\ conn[d].state = "NONE" => /\ conn[d].ssState = "NEW"
                                             /\ \A u \in Transfers : tConn[u] # d
                /\ \A u \in Transfers : u \in ToSet(conn[d].transfers)
                                         <=> tConn[u] = d /\ tState[u] \in {"ENQUEUED", "ACTIVE"}
                /\ \A u \in Transfers : tConn[u] = d /\ tState[u] = "ACTIVE"
                                    <=> conn[d].transfers # <<>> /\ u = Head(conn[d].transfers))'
    <3>1. CASE d = c
      <4>1. \A u \in Transfers : tConn[u] = c /\ tState[u] \in {"ENQUEUED", "ACTIVE"} => u = h
        BY <1>a DEF IInv, PipelinesOk
      <4>2. \A u \in Transfers : ~(tConn'[u] = c /\ tState'[u] \in {"ENQUEUED", "ACTIVE"})
        BY <1>1, <1>9, <4>1
      <4>3. \A u \in Transfers : u \notin ToSet(<<>>)
        BY DEF ToSet
      <4>4. IsInjective(<<>>)
        BY DEF IsInjective
      <4>5. /\ IsInjective(conn'[c].transfers) /\ conn'[c].state = "IDLE"
            /\ conn'[c].transfers = <<>> /\ ToSet(conn'[c].transfers) = ToSet(<<>>)
        BY <1>8, <4>4
      <4>6. \A u \in Transfers : u \notin ToSet(conn'[c].transfers)
        BY <4>3, <4>5
      <4> QED BY <3>1, <4>2, <4>5, <4>6
    <3>2. CASE d # c
      <4>1. \A u \in Transfers : tConn'[u] = d => u # h
        BY <1>1, <1>3, <3>2
      <4>2. h \notin ToSet(conn[d].transfers)
            /\ ~(conn[d].transfers # <<>> /\ h = Head(conn[d].transfers))
        BY <1>3, <3>2 DEF IInv, PipelinesOk
      <4>3. conn'[d].state = conn[d].state /\ conn'[d].transfers = conn[d].transfers
        BY <1>8, <3>2
      <4>4. tConn' = tConn /\ \A u \in Transfers : tConn[u] = d => tState'[u] = tState[u]
        BY <1>1, <1>3, <1>9, <3>2
      <4>5. \A u \in Transfers : u \in ToSet(conn[d].transfers)
                                <=> tConn[u] = d /\ tState[u] \in {"ENQUEUED", "ACTIVE"}
        BY DEF IInv, PipelinesOk
      <4>6. \A u \in Transfers : tConn[u] = d /\ tState[u] = "ACTIVE"
                                <=> conn[d].transfers # <<>> /\ u = Head(conn[d].transfers)
        BY DEF IInv, PipelinesOk
      <4>7. /\ IsInjective(conn[d].transfers)
            /\ conn[d].state = "BUSY" <=> conn[d].transfers # <<>>
            /\ conn[d].state = "NONE" => conn[d].ssState = "NEW"
                                         /\ \A u \in Transfers : tConn[u] # d
        BY DEF IInv, PipelinesOk
      <4>8. conn'[d].ssState = "NEW" <=> conn[d].ssState = "NEW"
        BY <1>8
      <4>9. \A u \in Transfers : u \in ToSet(conn'[d].transfers)
                                <=> tConn'[u] = d /\ tState'[u] \in {"ENQUEUED", "ACTIVE"}
        BY <4>3, <4>4, <4>5
      <4>10. \A u \in Transfers :
               tConn'[u] = d /\ tState'[u] = "ACTIVE"
               <=> conn'[d].transfers # <<>> /\ u = Head(conn'[d].transfers)
        BY <4>3, <4>4, <4>6
      <4> QED BY <4>3, <4>4, <4>7, <4>8, <4>9, <4>10
    <3> QED BY <3>1, <3>2
  <2> QED BY <2>2, <2>3 DEF PipelinesOk
<1>12. BytesOk'
  BY <1>1, <1>3, <1>8, <1>9, ZenonT(60) DEF IInv, BytesOk
<1>13. BytesConserved'
  <2>1. SumsKept
    BY <1>1, <1>8 DEF SumsKept
  <2> QED BY <2>1, BytesKept DEF IInv
<1>14. EventsKept
  <2> SUFFICES ASSUME EventsOk
               PROVE  EventsOk' /\ \A d \in Conns : Waits(d) => Waits(d)'
    BY DEF EventsKept
  <2>1. /\ \A d \in Conns \ {c} : EventOk(d)' /\ (Waits(d) => Waits(d)')
        /\ Continued(x, conn'[c]) /\ ShareOk(conn'[c])
        /\ SameEvent(x, conn'[c]) \/ Ahead(conn'[c])
    BY <1>1, <1>3, <1>5, <1>6, OthersWait
  <2>2. Ahead(conn'[c])
    <3>1. conn'[c].availableBw = 0
      BY <1>8, <2>1 DEF ShareOk, Progressing
    <3>2. conn[c].availableBw > 0
      BY <1>3 DEF IInv, SharesOk, ShareOk
    <3> QED BY <1>b, <2>1, <3>1, <3>2 DEF SameEvent
  <2>3. conn'[c].nextEvent \in Nat /\ conn'[c].nextEvent >= now
    <3>1. x.idleTimestamp = now
      BY <1>2 DEF ConnectionStorage, x
    <3>2. conn'[c].nextEvent = now + IdleTimeout
      BY <1>8, <2>1, <2>2, <3>1 DEF Ahead, Continued, Untouched
    <3> QED BY <1>2, <3>2, Constants
  <2>4. EventOk(c)' /\ Waits(c)'
    BY <1>1, <2>2, <2>3, AheadOk
  <2> QED BY <1>1, <2>1, <2>4 DEF EventsOk
<1>15. PipesStep
  <2>1. Tail(pipe) = <<>>
    <3> DEFINE rest == Tail(pipe)
    <3>1. rest \in Seq(Transfers) /\ Len(rest) = 0
      BY <1>1, <1>3
    <3> HIDE DEF rest
    <3>2. rest = <<>>
      BY <3>1
    <3> QED BY <3>2 DEF rest
  <2> QED BY <1>3, <1>8, <1>9, <2>1, ServeStep
<1>16. WindowsKept
  <2> SUFFICES ASSUME WindowsCarryHalf, Windows PROVE Windows'
    BY DEF WindowsKept
  <2>1. \A d \in Conns : Windowed(conn'[d])
    BY <1>3, <1>b, <1>5, <1>6, UpdatedWindows
  <2> QED BY <2>1 DEF Windows, Windowed
<1> QED BY <1>16, <1>15, <1>14, <1>7, <1>10, <1>11, <1>12, <1>13 DEF IInv, SharesOk, Stepped

\* A deadline that is calculated once more changes nothing of this.
LEMMA RescheduledToo ==
  ASSUME TypeOK, NEW cs, NEW r, NEW c \in Conns, AfterUpdate(cs, r), Ready(cs[c]),
         cs[c].state = "BUSY", r[c].availableBw > 0
  PROVE  /\ AfterUpdate(cs, [r EXCEPT ![c] = ScheduleNextEvent(@)])
         /\ Ahead([r EXCEPT ![c] = ScheduleNextEvent(@)][c])
         /\ KeepsWindows(cs, r) => KeepsWindows(cs, [r EXCEPT ![c] = ScheduleNextEvent(@)])
<1> DEFINE y == ScheduleNextEvent(r[c])
           q == [r EXCEPT ![c] = y]
<1>1. r \in [Conns -> ConnectionStorage] /\ Continued(cs[c], r[c]) /\ SharesOk(r)
  BY DEF AfterUpdate
<1>2. Ready(r[c]) /\ r[c].state = "BUSY"
  BY <1>1 DEF Ready, Continued, Untouched
<1>3. Reschedules(r[c], y)
  BY <1>2, ScheduleProperties
<1> HIDE DEF y
<1>4. y \in ConnectionStorage
  BY <1>3 DEF Reschedules
<1>5. /\ q \in [Conns -> ConnectionStorage] /\ q[c] = y
      /\ \A d \in Conns \ {c} : q[d] = r[d]
  BY <1>1, <1>4
<1> HIDE DEF q
<1>6. Continued(cs[c], y)
  BY <1>1, <1>3 DEF Reschedules, Continued, Untouched
<1>7. \A d \in Conns : Continued(cs[d], q[d]) /\ (SameEvent(cs[d], q[d]) \/ Ahead(q[d]))
  BY <1>3, <1>5, <1>6 DEF AfterUpdate, Reschedules
<1>8. ShareOk(y)
  BY <1>1, <1>3 DEF SharesOk, ShareOk, Progressing, Reschedules, Untouched
<1>9. SharesFit(q)
  <2>1. \A d \in Conns : q[d].availableBw = r[d].availableBw
    BY <1>3, <1>5 DEF Reschedules
  <2>2. [d \in Conns |-> q[d].availableBw] = [d \in Conns |-> r[d].availableBw]
    BY <2>1
  <2> QED BY <1>1, <2>2 DEF SharesOk, SharesFit
<1>10. SharesOk(q)
  BY <1>1, <1>5, <1>8, <1>9 DEF SharesOk
<1>11. AfterUpdate(cs, q)
  BY <1>5, <1>7, <1>10 DEF AfterUpdate
<1>12. Ahead(q[c])
  BY <1>3, <1>5 DEF Reschedules
<1>13. KeepsWindows(cs, r) => KeepsWindows(cs, q)
  BY <1>3, <1>5 DEF KeepsWindows, Windowed, Reschedules
<1> QED BY <1>11, <1>12, <1>13 DEF q, y

LEMMA StartNextInv ==
  ASSUME IInv, NEW c \in Conns, StartNext(c)
  PROVE  IInv' /\ EventsKept /\ WindowsKept /\ PipesStep
<1> DEFINE pipe == conn[c].transfers
           h == Head(pipe)
           n == pipe[2]
           x == [conn[c] EXCEPT !.transfers = Tail(pipe)]
           cs == [conn EXCEPT ![c] = x]
           updated == UpdateDesiredBw(cs, c)
<1>1. /\ conn \in [Conns -> ConnectionStorage] /\ conn[c] \in ConnectionStorage
      /\ tState \in [Transfers -> {"ENABLED", "ENQUEUED", "ACTIVE", "FINISHED"}]
      /\ tConn \in [Transfers -> Conns \cup {None}] /\ None \notin Conns /\ IsInjective(pipe)
  BY Types, Constants DEF IInv, TypeOK
<1>2. [conn EXCEPT ![c].transfers = Tail(@)] = cs
  BY <1>1
<1>3. /\ event = c /\ TransferDone(c) /\ Len(pipe) > 1
      /\ conn' = [updated EXCEPT ![c] = ScheduleNextEvent(@)]
      /\ tState' = [tState EXCEPT ![h] = "FINISHED", ![n] = "ACTIVE"]
      /\ event' = None /\ UNCHANGED <<now, connections, outstandingBytes, tConn, size>>
  BY <1>2 DEF StartNext
<1>4. /\ conn[c].state = "BUSY" /\ pipe # <<>> /\ pipe \in Seq(Transfers) /\ h \in Transfers
      /\ outstandingBytes[h] = 0 /\ tConn[h] = c /\ tState[h] = "ACTIVE"
      /\ Progressing(conn[c]) /\ c \in Open
      /\ Tail(pipe) \in Seq(Transfers) /\ IsInjective(Tail(pipe))
      /\ ToSet(Tail(pipe)) = ToSet(pipe) \ {h} /\ h \in ToSet(pipe)
      /\ Len(Tail(pipe)) = Len(pipe) - 1
  BY <1>3, DoneTransfer DEF Done
<1>5. /\ Tail(pipe) # <<>> /\ n = Head(Tail(pipe)) /\ n \in ToSet(pipe) /\ n \in Transfers /\ n # h
  <2> DEFINE rest == Tail(pipe)
  <2>a. /\ rest \in Seq(Transfers) /\ Len(rest) >= 1
        /\ \A i \in 1 .. Len(rest) : rest[i] = pipe[i + 1]
    BY <1>1, <1>3, <1>4, TailOfInjective
  <2> HIDE DEF rest, pipe
  <2>1. rest # <<>> /\ n = Head(rest)
    <3>1. rest[1] = pipe[2]
      BY <2>a
    <3> QED BY <2>a, <3>1
  <2>2. Head(rest) \in ToSet(rest)
    BY <1>4, <2>1, TailOfInjective DEF rest
  <2> QED BY <1>3, <1>4, <2>1, <2>2 DEF rest
<1>6. /\ x \in ConnectionStorage /\ x.ssState = conn[c].ssState /\ x.state = "BUSY"
      /\ x.cwnd = conn[c].cwnd /\ x.desiredBw = conn[c].desiredBw
      /\ x.availableBw = conn[c].availableBw /\ x.transfers = Tail(pipe)
      /\ x.outstandingTransferBytesSum = conn[c].outstandingTransferBytesSum
      /\ x.transferredBytesSum = conn[c].transferredBytesSum
  <2> DEFINE rest == Tail(pipe)
  <2>1. rest \in Seq(Transfers) /\ x = [conn[c] EXCEPT !.transfers = rest]
    BY <1>4
  <2> HIDE DEF rest, x
  <2>2. x \in ConnectionStorage /\ x.transfers = rest
    BY <1>1, <2>1 DEF ConnectionStorage
  <2>3. /\ x.ssState = conn[c].ssState /\ x.state = conn[c].state
        /\ x.cwnd = conn[c].cwnd /\ x.desiredBw = conn[c].desiredBw
        /\ x.availableBw = conn[c].availableBw
        /\ x.outstandingTransferBytesSum = conn[c].outstandingTransferBytesSum
        /\ x.transferredBytesSum = conn[c].transferredBytesSum
    BY <1>1, <2>1 DEF ConnectionStorage
  <2> QED BY <1>4, <2>2, <2>3 DEF rest
<1> HIDE DEF x
<1>7. Prepared(conn[c], x)
  <2>1. Ready(conn[c]) /\ WindowOk(conn[c])
    BY SharesOf
  <2> QED BY <1>5, <1>6, <2>1 DEF Prepared, Ready, WindowOk
<1>8. AfterUpdate(cs, conn') /\ Ahead(conn'[c]) /\ KeepsWindows(cs, conn')
  <2>1. BeforeUpdate(cs, c) /\ cs[c] = x
    BY <1>1, <1>4, <1>7, PreparedIsBefore
  <2>2. TypeOK
    BY DEF IInv
  <2>3. Ready(cs[c]) /\ cs[c].state = "BUSY"
    BY <1>6, <1>7, <2>1 DEF Prepared
  <2> HIDE DEF cs
  <2>4. AfterUpdate(cs, updated) /\ KeepsWindows(cs, updated)
    BY <2>1, <2>2, UpdateProperties
  <2> HIDE DEF updated
  <2>5. Progressing(updated[c])
    <3>1. Continued(cs[c], updated[c])
      BY <2>4 DEF AfterUpdate
    <3>2. cs[c].ssState # "NEW"
      BY <1>4, <1>6, <2>1 DEF Progressing
    <3> QED BY <2>3, <3>1, <3>2 DEF Progressing, Continued, Untouched
  <2>6. updated[c].availableBw > 0
    BY <2>4, <2>5 DEF AfterUpdate, SharesOk, ShareOk
  <2> QED BY <1>3, <2>2, <2>3, <2>4, <2>6, RescheduledToo
<1>9. Stepped(c, x)
  BY <1>3, <1>4, <1>7, <1>8, UpdateStep
<1> HIDE DEF cs
<1>10. /\ \A d \in Conns \ {c} : conn'[d].transfers = conn[d].transfers
       /\ conn'[c].transfers = Tail(pipe)
       /\ \A d \in Conns : /\ conn'[d].state = conn[d].state
                           /\ conn'[d].ssState = "NEW" <=> conn[d].ssState = "NEW"
                           /\ conn'[d].outstandingTransferBytesSum
                                = conn[d].outstandingTransferBytesSum
                           /\ conn'[d].transferredBytesSum = conn[d].transferredBytesSum
  BY <1>4, <1>6, <1>9 DEF Stepped, Resembles
<1>11. /\ tState'[h] = "FINISHED" /\ tState'[n] = "ACTIVE"
       /\ \A u \in Transfers \ {h, n} : tState'[u] = tState[u]
  BY <1>1, <1>3, <1>4, <1>5
<1>12. TypeOK'
  <2>1. tState' \in [Transfers -> {"ENABLED", "ENQUEUED", "ACTIVE", "FINISHED"}]
    BY <1>1, <1>3
  <2> QED BY <1>3, <1>9, <2>1 DEF IInv, TypeOK, Stepped
<1>13. tConn' = tConn /\ tConn[n] = c /\ tState[n] = "ENQUEUED"
  <2>1. tConn[n] = c /\ tState[n] \in {"ENQUEUED", "ACTIVE"}
    BY <1>5 DEF IInv, PipelinesOk
  <2>2. tState[n] # "ACTIVE"
    BY <1>5, <2>1 DEF IInv, PipelinesOk
  <2> QED BY <1>3, <2>1, <2>2
<1>14. PipelinesOk'
  <2>1. (\A u \in Transfers : tState[u] = "ENABLED" <=> tConn[u] = None)'
    BY <1>1, <1>4, <1>5, <1>11, <1>13 DEF IInv, PipelinesOk
  <2>2. ASSUME NEW d \in Conns
        PROVE  (/\ IsInjective(conn[d].transfers)
                /\ conn[d].state = "BUSY" <=> conn[d].transfers # <<>>
                /\ conn[d].state = "NONE" => /\ conn[d].ssState = "NEW"
                                             /\ \A u \in Transfers : tConn[u] # d
                /\ \A u \in Transfers : u \in ToSet(conn[d].transfers)
                                         <=> tConn[u] = d /\ tState[u] \in {"ENQUEUED", "ACTIVE"}
                /\ \A u \in Transfers : tConn[u] = d /\ tState[u] = "ACTIVE"
                                    <=> conn[d].transfers # <<>> /\ u = Head(conn[d].transfers))'
    <3>1. \A u \in Transfers : u \in ToSet(conn[d].transfers)
                              <=> tConn[u] = d /\ tState[u] \in {"ENQUEUED", "ACTIVE"}
      BY DEF IInv, PipelinesOk
    <3>2. \A u \in Transfers : tConn[u] = d /\ tState[u] = "ACTIVE"
                              <=> conn[d].transfers # <<>> /\ u = Head(conn[d].transfers)
      BY DEF IInv, PipelinesOk
    <3>3. CASE d = c
      <4>1. conn'[d].transfers = Tail(pipe) /\ conn'[d].state = "BUSY"
        BY <1>4, <1>10, <3>3
      <4>2. \A u \in Transfers : u \in ToSet(Tail(pipe)) <=> u \in ToSet(pipe) /\ u # h
        BY <1>4
      <4>3. \A u \in Transfers : u \in ToSet(conn'[d].transfers)
                                <=> tConn'[u] = d /\ tState'[u] \in {"ENQUEUED", "ACTIVE"}
        BY <1>5, <1>11, <1>13, <3>1, <3>3, <4>1, <4>2
      <4>4. \A u \in Transfers : tConn'[u] = d /\ tState'[u] = "ACTIVE" <=> u = n
        BY <1>4, <1>11, <1>13, <3>2, <3>3
      <4>5. IsInjective(conn'[d].transfers) /\ conn'[d].transfers # <<>>
            /\ n = Head(conn'[d].transfers)
        BY <1>4, <1>5, <4>1
      <4> QED BY <4>1, <4>3, <4>4, <4>5
    <3>4. CASE d # c
      <4>1. conn'[d].state = conn[d].state /\ conn'[d].transfers = conn[d].transfers
        BY <1>10, <3>4
      <4>2. \A u \in Transfers : tConn[u] = d => tState'[u] = tState[u]
        BY <1>4, <1>11, <1>13, <3>4
      <4>3. /\ IsInjective(conn[d].transfers)
            /\ conn[d].state = "BUSY" <=> conn[d].transfers # <<>>
            /\ conn[d].state = "NONE" => conn[d].ssState = "NEW"
                                         /\ \A u \in Transfers : tConn[u] # d
        BY DEF IInv, PipelinesOk
      <4>4. conn'[d].ssState = "NEW" <=> conn[d].ssState = "NEW"
        BY <1>10
      <4>5. \A u \in Transfers : u \in ToSet(conn'[d].transfers)
                                <=> tConn'[u] = d /\ tState'[u] \in {"ENQUEUED", "ACTIVE"}
        BY <1>13, <3>1, <4>1, <4>2
      <4>6. \A u \in Transfers :
               tConn'[u] = d /\ tState'[u] = "ACTIVE"
               <=> conn'[d].transfers # <<>> /\ u = Head(conn'[d].transfers)
        BY <1>13, <3>2, <4>1, <4>2
      <4> QED BY <1>13, <4>1, <4>3, <4>4, <4>5, <4>6
    <3> QED BY <3>3, <3>4
  <2> QED BY <2>1, <2>2 DEF PipelinesOk
<1>15. BytesOk'
  <2>1. ASSUME NEW u \in Transfers
        PROVE  (/\ outstandingBytes[u] <= size[u]
                /\ tState[u] = "ENABLED" => outstandingBytes[u] = size[u]
                /\ tConn[u] \in Conns /\ conn[tConn[u]].ssState = "NEW"
                     => outstandingBytes[u] = size[u]
                /\ tState[u] = "FINISHED" => outstandingBytes[u] = 0)'
    <3>1. tState'[u] = "ENABLED" => tState[u] = "ENABLED"
      BY <1>11
    <3>2. tState'[u] = "FINISHED" => tState[u] = "FINISHED" \/ u = h
      BY <1>11
    <3> QED BY <1>3, <1>4, <1>10, <1>13, <3>1, <3>2 DEF IInv, BytesOk
  <2> QED BY <2>1 DEF BytesOk
<1>16. BytesConserved'
  <2>1. SumsKept
    BY <1>3, <1>10 DEF SumsKept
  <2> QED BY <2>1, BytesKept DEF IInv
<1>17. EventsKept
  <2> SUFFICES ASSUME EventsOk
               PROVE  EventsOk' /\ \A d \in Conns : Waits(d) => Waits(d)'
    BY DEF EventsKept
  <2>1. AfterUpdate([conn EXCEPT ![c] = x], conn')
    BY <1>8 DEF cs
  <2>2. \A d \in Conns \ {c} : EventOk(d)' /\ (Waits(d) => Waits(d)')
    BY <1>3, <1>4, <1>7, <2>1, OthersWait
  <2>3. EventOk(c)' /\ Waits(c)'
    BY <1>3, <1>4, <1>8, <1>10, AheadOk
  <2> QED BY <1>3, <2>2, <2>3 DEF EventsOk
<1>18. PipesStep
  <2>1. \A u \in Transfers \ {h} : \/ tState'[u] = tState[u]
                                   \/ tState[u] = "ENQUEUED" /\ tState'[u] = "ACTIVE"
    BY <1>11, <1>13
  <2> QED BY <1>4, <1>10, <1>11, <2>1, ServeStep
<1>19. WindowsKept
  <2> SUFFICES ASSUME WindowsCarryHalf, Windows PROVE Windows'
    BY DEF WindowsKept
  <2>1. KeepsWindows([conn EXCEPT ![c] = x], conn')
    BY <1>8 DEF cs
  <2>2. \A d \in Conns : Windowed(conn'[d])
    BY <1>4, <1>6, <1>7, <2>1, UpdatedWindows
  <2> QED BY <2>2 DEF Windows, Windowed
<1> QED BY <1>19, <1>18, <1>17, <1>9, <1>12, <1>14, <1>15, <1>16 DEF IInv, SharesOk, Stepped

-----------------------------------------------------------------------------
(* Progress of time *)

\* What the active transfer of c gets.
Got(c, time) == IF Progressing(conn[c]) /\ time # now THEN TickBytes(conn[c], time) ELSE 0

LEMMA TickBytesBound ==
  ASSUME IInv, NEW c \in Conns, Progressing(conn[c]), NEW time \in Nat
  PROVE  TickBytes(conn[c], time) \in 0 .. outstandingBytes[Head(conn[c].transfers)]
<1> DEFINE s == conn[c]
           out == outstandingBytes[Head(s.transfers)]
           a == s.availableBw * (time - now)
           b == s.availableBw * (time - s.lastBwUpdate)
           naive == a \div Second
           allowed == s.lastBwUpdateTransferredBytesSum - s.transferredBytesSum + b \div Second
           low == Min({naive, allowed})
           bytes == Max({0, low})
<1>1. /\ s \in ConnectionStorage /\ now \in Nat /\ s.availableBw \in Nat /\ Second \in Nat \ {0}
      /\ s.lastBwUpdate \in Nat /\ s.lastBwUpdateTransferredBytesSum \in Nat
      /\ s.transferredBytesSum \in Nat
  <2>1. s \in ConnectionStorage /\ now \in Nat /\ s.availableBw \in Nat /\ Second \in Nat \ {0}
    BY Types, Constants
  <2> QED BY <2>1 DEF ConnectionStorage
<1>2. out \in Nat
  <2>1. Ready(s) /\ s.state = "BUSY"
    BY SharesOf DEF Progressing
  <2> QED BY <2>1, HeadIsTransfer, Types
<1>3. a \in Int /\ b \in Int
  BY <1>1
<1>4. naive \in Int /\ allowed \in Int
  <2> HIDE DEF a, b
  <2>1. \A k \in Int : k \div Second \in Int
    BY <1>1
  <2> QED BY <1>1, <1>3, <2>1
<1>5. TickBytes(s, time) = IF time = s.currTransferFinishTime \/ bytes > out THEN out ELSE bytes
  BY DEF TickBytes
<1> HIDE DEF naive, allowed, out, s
<1>6. low \in Int
  BY <1>4 DEF Min
<1> HIDE DEF low
<1>7. bytes \in Nat
  BY <1>6 DEF Max
<1> HIDE DEF bytes
<1>8. TickBytes(s, time) \in 0 .. out
  BY <1>2, <1>5, <1>7
<1> QED BY <1>8 DEF s, out

\* The bytes that are left of a transfer are no more than those of its connection.
LEMMA PartOfSum ==
  ASSUME IInv, NEW c \in Conns, NEW t \in Transfers, tConn[t] = c
  PROVE  outstandingBytes[t] <= conn[c].outstandingTransferBytesSum
<1> DEFINE on == {u \in Transfers : tConn[u] = c}
           rest == on \ {t}
<1>1. IsFiniteSet(on) /\ IsFiniteSet(rest) /\ t \in on
  BY Constants, FS_Subset
<1>2. \A u \in Transfers : outstandingBytes[u] \in Nat
  BY Types
<1>3. conn[c].outstandingTransferBytesSum = SumFunctionOnSet(outstandingBytes, on)
  BY DEF IInv, BytesConserved
<1>4. \A u \in on : outstandingBytes[u] \in Int
  BY <1>2
<1>5. \A u \in rest : outstandingBytes[u] \in Nat
  BY <1>2
<1> HIDE DEF on
<1>6. SumFunctionOnSet(outstandingBytes, on)
        = outstandingBytes[t] + SumFunctionOnSet(outstandingBytes, rest)
  BY <1>1, <1>4, SumWithout
<1> HIDE DEF rest
<1>7. SumFunctionOnSet(outstandingBytes, rest) \in Nat
  BY <1>1, <1>5, SumOfNaturals
<1> QED BY <1>2, <1>3, <1>6, <1>7

\* A connection that gets b bytes.
Moves(s, r, b) ==
  /\ r \in ConnectionStorage
  /\ r.state = s.state /\ r.ssState = s.ssState /\ r.transfers = s.transfers
  /\ r.availableBw = s.availableBw /\ r.desiredBw = s.desiredBw /\ r.cwnd >= s.cwnd
  /\ r.transferredBytesSum = s.transferredBytesSum + b
  /\ r.outstandingTransferBytesSum = s.outstandingTransferBytesSum - b

LEMMA Ticked ==
  ASSUME IInv, NEW time \in Nat
  PROVE  /\ TickedConns(time) \in [Conns -> ConnectionStorage]
         /\ \A c \in Conns : Moves(conn[c], TickedConns(time)[c], Got(c, time))
<1> DEFINE cs == TickedConns(time)
<1>1. conn \in [Conns -> ConnectionStorage]
  BY Types
<1>2. ASSUME NEW c \in Conns PROVE Moves(conn[c], cs[c], Got(c, time))
  <2> DEFINE s == conn[c]
             b == Got(c, time)
  <2>1. s \in ConnectionStorage /\ s.cwnd \in Nat /\ s.transferredBytesSum \in Nat
        /\ s.outstandingTransferBytesSum \in Nat
    BY <1>1, Types
  <2>2. CASE time = now \/ ~Progressing(s)
    <3>1. cs[c] = s /\ b = 0
      BY <1>1, <2>2 DEF TickedConns, TickTime, Got
    <3> HIDE DEF cs, s, b
    <3>2. Moves(s, cs[c], b)
      BY <2>1, <3>1 DEF Moves
    <3> QED BY <3>2 DEF s, b
  <2>3. CASE time # now /\ Progressing(s)
    <3> DEFINE y == s.transferredBytesSum + b
               z == s.outstandingTransferBytesSum - b
               w == IF s.ssState = "SS" THEN s.cwnd + b ELSE s.cwnd
    <3>1. b = TickBytes(s, time)
      BY <2>3 DEF Got
    <3>2. cs[c] = [s EXCEPT !.transferredBytesSum = y, !.outstandingTransferBytesSum = z,
                            !.cwnd = w]
      BY <2>3, <3>1 DEF TickedConns, TickTime
    <3>3. b \in Nat /\ b <= s.outstandingTransferBytesSum
      <4> DEFINE t == Head(s.transfers)
      <4>1. Ready(s) /\ s.state = "BUSY"
        BY <2>3, SharesOf DEF Progressing
      <4>2. t \in Transfers /\ s.transfers # <<>>
        BY <4>1, HeadIsTransfer DEF Ready
      <4>3. tConn[t] = c
        BY <4>2 DEF IInv, PipelinesOk
      <4>4. outstandingBytes[t] <= s.outstandingTransferBytesSum /\ outstandingBytes[t] \in Nat
        BY <4>2, <4>3, PartOfSum, Types
      <4>5. TickBytes(s, time) \in 0 .. outstandingBytes[t]
        BY <2>3, TickBytesBound
      <4> HIDE DEF s, t, b
      <4> QED BY <2>1, <3>1, <4>4, <4>5
    <3> HIDE DEF cs, s, b
    <3>4. y \in Nat /\ z \in Nat /\ w \in Nat /\ w >= s.cwnd
      BY <2>1, <3>3
    <3> HIDE DEF w
    <3>5. /\ y = s.transferredBytesSum + b /\ z = s.outstandingTransferBytesSum - b
      OBVIOUS
    <3> HIDE DEF y, z
    <3>6. cs[c] \in ConnectionStorage
      BY <2>1, <3>2, <3>4 DEF ConnectionStorage
    <3>7. /\ cs[c].state = s.state /\ cs[c].ssState = s.ssState /\ cs[c].transfers = s.transfers
          /\ cs[c].availableBw = s.availableBw /\ cs[c].desiredBw = s.desiredBw
          /\ cs[c].transferredBytesSum = y /\ cs[c].outstandingTransferBytesSum = z
          /\ cs[c].cwnd = w
      BY <2>1, <3>2 DEF ConnectionStorage
    <3>8. Moves(s, cs[c], b)
      BY <3>4, <3>5, <3>6, <3>7 DEF Moves
    <3> QED BY <3>8 DEF s, b
  <2> QED BY <2>2, <2>3
<1>3. cs \in [Conns -> ConnectionStorage]
  <2>1. cs = [c \in Conns |-> cs[c]]
    BY <1>1 DEF TickedConns
  <2>2. \A c \in Conns : cs[c] \in ConnectionStorage
    BY <1>2 DEF Moves
  <2> HIDE DEF cs
  <2> QED BY <2>1, <2>2
<1> QED BY <1>2, <1>3

LEMMA TickInv ==
  ASSUME IInv, NEW time \in Nat, conn' \in [Conns -> ConnectionStorage],
         \A c \in Conns : Moves(conn[c], conn'[c], Got(c, time)),
         outstandingBytes' = TickedBytes(time), now' = time, event' \in Conns \cup {None},
         UNCHANGED <<connections, tState, tConn, size>>
  PROVE  IInv'
<1>1. \A c \in Conns :
        /\ conn'[c].state = conn[c].state /\ conn'[c].ssState = conn[c].ssState
        /\ conn'[c].transfers = conn[c].transfers
        /\ conn'[c].availableBw = conn[c].availableBw /\ conn'[c].desiredBw = conn[c].desiredBw
        /\ conn'[c].cwnd >= conn[c].cwnd /\ conn'[c].cwnd \in Nat
        /\ conn'[c].transferredBytesSum = conn[c].transferredBytesSum + Got(c, time)
        /\ conn'[c].outstandingTransferBytesSum
             = conn[c].outstandingTransferBytesSum - Got(c, time)
  BY DEF Moves, ConnectionStorage
<1>2. \A t \in Transfers : outstandingBytes[t] \in Nat /\ size[t] \in Nat
  BY Types
<1>3. \A t \in Transfers : tState[t] = "ACTIVE" => /\ tConn[t] \in Conns
                                                   /\ conn[tConn[t]].transfers # <<>>
                                                   /\ t = Head(conn[tConn[t]].transfers)
  <2>1. \A t \in Transfers : tConn[t] \in Conns \cup {None}
    BY Types
  <2> QED BY <2>1 DEF IInv, PipelinesOk
<1>4. ASSUME NEW c \in Conns
      PROVE  /\ Got(c, time) \in Nat
             /\ conn[c].transfers # <<>> => Head(conn[c].transfers) \in Transfers
             /\ Got(c, time) # 0 => /\ conn[c].transfers # <<>> /\ conn[c].ssState # "NEW"
                                    /\ Got(c, time) <= outstandingBytes[Head(conn[c].transfers)]
  <2>1. conn[c].transfers \in Seq(Transfers) /\ conn[c].state = "BUSY" <=> conn[c].transfers # <<>>
    BY Types DEF IInv, PipelinesOk
  <2>2. conn[c].transfers # <<>> => Head(conn[c].transfers) \in Transfers
    <3>1. conn[c].transfers \in Seq(Transfers)
      BY Types
    <3> QED BY <3>1
  <2>3. CASE Progressing(conn[c]) /\ time # now
    <3>1. Got(c, time) = TickBytes(conn[c], time)
      BY <2>3 DEF Got
    <3>2. TickBytes(conn[c], time) \in 0 .. outstandingBytes[Head(conn[c].transfers)]
      BY <2>3, TickBytesBound
    <3>3. conn[c].transfers # <<>> /\ conn[c].ssState # "NEW"
      BY <2>3 DEF Progressing, IInv, PipelinesOk
    <3>4. outstandingBytes[Head(conn[c].transfers)] \in Nat
      BY <1>2, <2>2, <3>3
    <3> QED BY <2>2, <3>1, <3>2, <3>3, <3>4
  <2>4. CASE ~(Progressing(conn[c]) /\ time # now)
    BY <2>2, <2>4 DEF Got
  <2> QED BY <2>3, <2>4
<1>5. \A t \in Transfers :
        outstandingBytes'[t] = outstandingBytes[t]
                                 - IF tState[t] = "ACTIVE" THEN Got(tConn[t], time) ELSE 0
  <2>1. outstandingBytes \in [Transfers -> Nat]
    BY Types
  <2>2. CASE time = now
    BY <1>2, <2>2 DEF TickedBytes, Got
  <2>3. CASE time # now
    BY <1>2, <2>3 DEF TickedBytes, Got, Active
  <2> QED BY <2>2, <2>3
<1>6. \A t \in Transfers : /\ outstandingBytes'[t] \in Nat
                           /\ outstandingBytes'[t] <= outstandingBytes[t]
  <2> SUFFICES ASSUME NEW t \in Transfers
               PROVE  outstandingBytes'[t] \in Nat /\ outstandingBytes'[t] <= outstandingBytes[t]
    OBVIOUS
  <2>1. CASE tState[t] = "ACTIVE"
    <3> DEFINE b == Got(tConn[t], time)
    <3>1. b \in Nat /\ (b # 0 => b <= outstandingBytes[t])
      BY <1>3, <1>4, <2>1
    <3>2. outstandingBytes'[t] = outstandingBytes[t] - b
      BY <1>5, <2>1
    <3> HIDE DEF b
    <3> QED BY <1>2, <3>1, <3>2
  <2>2. CASE tState[t] # "ACTIVE"
    BY <1>2, <1>5, <2>2
  <2> QED BY <2>1, <2>2
<1>7. TypeOK'
  <2>1. DOMAIN outstandingBytes' = Transfers /\ outstandingBytes' = [t \in Transfers |-> outstandingBytes'[t]]
    <3>1. outstandingBytes \in [Transfers -> Nat]
      BY Types
    <3> QED BY <3>1 DEF TickedBytes
  <2>2. outstandingBytes' \in [Transfers -> Nat]
    BY <1>6, <2>1
  <2> QED BY <2>2 DEF IInv, TypeOK
<1>8. Listed'
  <2>1. Open' = Open
    BY <1>1 DEF Open
  <2> QED BY <2>1 DEF IInv, Listed
<1>9. PipelinesOk'
  <2>1. \A c \in Conns : conn[c].state = "NONE" => conn'[c].ssState = "NEW"
    BY <1>1 DEF IInv, PipelinesOk
  <2> QED BY <1>1, <2>1, PipelinesKept DEF IInv
<1>10. BytesOk'
  <2>1. ASSUME NEW t \in Transfers
        PROVE  (/\ outstandingBytes[t] <= size[t]
                /\ tState[t] = "ENABLED" => outstandingBytes[t] = size[t]
                /\ tConn[t] \in Conns /\ conn[tConn[t]].ssState = "NEW"
                     => outstandingBytes[t] = size[t]
                /\ tState[t] = "FINISHED" => outstandingBytes[t] = 0)'
    <3>1. /\ outstandingBytes[t] <= size[t]
          /\ tState[t] = "ENABLED" => outstandingBytes[t] = size[t]
          /\ tConn[t] \in Conns /\ conn[tConn[t]].ssState = "NEW" => outstandingBytes[t] = size[t]
          /\ tState[t] = "FINISHED" => outstandingBytes[t] = 0
      BY DEF IInv, BytesOk
    <3>2. tState[t] # "ACTIVE" => outstandingBytes'[t] = outstandingBytes[t]
      BY <1>2, <1>5
    <3>3. ASSUME tState[t] = "ACTIVE", conn[tConn[t]].ssState = "NEW"
          PROVE  outstandingBytes'[t] = outstandingBytes[t]
      <4>1. Got(tConn[t], time) = 0
        BY <1>3, <1>4, <3>3
      <4> QED BY <1>2, <1>5, <3>3, <4>1
    <3>4. outstandingBytes'[t] <= size[t]
      BY <1>2, <1>6, <3>1
    <3> QED BY <1>1, <3>1, <3>2, <3>3, <3>4
  <2> QED BY <2>1 DEF BytesOk
<1>11. BytesConserved'
  <2> SUFFICES ASSUME NEW c \in Conns
               PROVE  LET on == {t \in Transfers : tConn'[t] = c}
                      IN  /\ conn'[c].outstandingTransferBytesSum
                               = SumFunctionOnSet(outstandingBytes', on)
                          /\ conn'[c].transferredBytesSum
                               = SumFunctionOnSet([t \in Transfers |-> size'[t] - outstandingBytes'[t]], on)
    BY DEF BytesConserved
  <2> DEFINE on == {t \in Transfers : tConn[t] = c}
             f == outstandingBytes
             g == outstandingBytes'
             p == [t \in Transfers |-> size[t] - outstandingBytes[t]]
             q == [t \in Transfers |-> size[t] - outstandingBytes'[t]]
             b == Got(c, time)
             h == Head(conn[c].transfers)
  <2>1. /\ conn[c].outstandingTransferBytesSum = SumFunctionOnSet(f, on)
        /\ conn[c].transferredBytesSum = SumFunctionOnSet(p, on)
    BY DEF IInv, BytesConserved
  <2>2. IsFiniteSet(on)
    BY Constants, FS_Subset
  <2>3. \A t \in on : f[t] \in Int /\ g[t] \in Int /\ p[t] \in Int /\ q[t] \in Int
    BY <1>2, <1>6
  <2>4. \A t \in on : ~(conn[c].transfers # <<>> /\ t = h) => g[t] = f[t] /\ q[t] = p[t]
    <3> SUFFICES ASSUME NEW t \in on, ~(conn[c].transfers # <<>> /\ t = h)
                 PROVE  g[t] = f[t]
      OBVIOUS
    <3>1. tState[t] # "ACTIVE"
      BY <1>3
    <3> QED BY <1>2, <1>5, <3>1
  <2>5. /\ SumFunctionOnSet(g, on) = SumFunctionOnSet(f, on) - b
        /\ SumFunctionOnSet(q, on) = SumFunctionOnSet(p, on) + b
    <3>1. CASE conn[c].transfers = <<>>
      <4>1. b = 0
        BY <1>4, <3>1
      <4>2. \A t \in on : g[t] = f[t] /\ q[t] = p[t]
        BY <2>4, <3>1
      <4>3. SumFunctionOnSet(f, on) \in Int /\ SumFunctionOnSet(p, on) \in Int
        <5> HIDE DEF f, p, on
        <5> QED BY <2>2, <2>3, SumType
      <4> HIDE DEF f, g, p, q, on, b
      <4>4. SumFunctionOnSet(g, on) = SumFunctionOnSet(f, on)
        BY <2>2, <4>2, SumOfEqual
      <4>5. SumFunctionOnSet(q, on) = SumFunctionOnSet(p, on)
        BY <2>2, <4>2, SumOfEqual
      <4> QED BY <4>1, <4>3, <4>4, <4>5
    <3>2. CASE conn[c].transfers # <<>>
      <4>1. h \in Transfers /\ tConn[h] = c /\ tState[h] = "ACTIVE"
        BY <1>4, <3>2 DEF IInv, PipelinesOk
      <4>a. b \in Nat /\ g[h] = f[h] - b /\ f[h] \in Nat /\ size[h] \in Nat
        BY <1>2, <1>4, <1>5, <4>1
      <4>b. p[h] = size[h] - f[h] /\ q[h] = size[h] - g[h] /\ h \in on
        BY <4>1
      <4>2. h \in on /\ g[h] = f[h] - b /\ f[h] \in Int /\ g[h] \in Int /\ b \in Int
            /\ p[h] \in Int /\ q[h] = p[h] + b
        <5> HIDE DEF f, g, p, q, on, b, h
        <5> QED BY <4>a, <4>b
      <4>3. SumFunctionOnSet(f, on) \in Int /\ SumFunctionOnSet(p, on) \in Int
        <5> HIDE DEF f, p, on
        <5> QED BY <2>2, <2>3, SumType
      <4>4. \A t \in on \ {h} : f[t] = g[t] /\ p[t] = q[t]
        BY <2>4
      <4> HIDE DEF f, g, p, q, on, b, h
      <4>5. SumFunctionOnSet(g, on) = SumFunctionOnSet(f, on) - f[h] + g[h]
        BY <2>2, <2>3, <4>2, <4>4, SumWithChange
      <4>6. SumFunctionOnSet(q, on) = SumFunctionOnSet(p, on) - p[h] + q[h]
        BY <2>2, <2>3, <4>2, <4>4, SumWithChange
      <4> QED BY <4>2, <4>3, <4>5, <4>6
    <3> QED BY <3>1, <3>2
  <2>6. /\ conn'[c].transferredBytesSum = conn[c].transferredBytesSum + b
        /\ conn'[c].outstandingTransferBytesSum = conn[c].outstandingTransferBytesSum - b
    BY <1>1
  <2> HIDE DEF b
  <2> QED BY <2>1, <2>5, <2>6
<1>12. (\A c \in Conns : WindowOk(conn[c]) /\ ShareOk(conn[c]))'
  <2>1. ASSUME NEW c \in Conns PROVE WindowOk(conn'[c]) /\ ShareOk(conn'[c])
    <3>1. WindowOk(conn[c]) /\ ShareOk(conn[c])
      BY DEF IInv, SharesOk
    <3>2. conn[c].cwnd \in Nat /\ InitialCwnd \in Nat
      BY Types, Constants
    <3>3. WindowOk(conn'[c])
      BY <1>1, <3>1, <3>2 DEF WindowOk
    <3>4. Progressing(conn'[c]) <=> Progressing(conn[c])
      BY <1>1 DEF Progressing
    <3> QED BY <1>1, <3>1, <3>3, <3>4 DEF ShareOk
  <2> QED BY <2>1
<1>13. SharesFit(conn)'
  <2>1. [c \in Conns |-> conn'[c].availableBw] = [c \in Conns |-> conn[c].availableBw]
    BY <1>1
  <2> QED BY <2>1 DEF IInv, SharesOk, SharesFit
<1> QED BY <1>7, <1>8, <1>9, <1>10, <1>11, <1>12, <1>13 DEF IInv, SharesOk

LEMMA TickWindows ==
  ASSUME IInv, NEW time, conn' \in [Conns -> ConnectionStorage],
         \A c \in Conns : Moves(conn[c], conn'[c], Got(c, time))
  PROVE  WindowsKept
<1> SUFFICES ASSUME Windows, NEW c \in Conns, conn'[c].ssState # "CA"
             PROVE  conn'[c].desiredBw <= PerRtt(conn'[c].cwnd)
                    /\ conn'[c].availableBw <= PerRtt(conn'[c].cwnd)
  BY DEF WindowsKept, Windows, Windowed
<1>1. /\ conn[c].ssState # "CA" /\ conn'[c].cwnd >= conn[c].cwnd
      /\ conn'[c].desiredBw = conn[c].desiredBw /\ conn'[c].availableBw = conn[c].availableBw
  BY DEF Moves
<1>2. conn[c].desiredBw <= PerRtt(conn[c].cwnd) /\ conn[c].availableBw <= PerRtt(conn[c].cwnd)
  BY <1>1 DEF Windows, Windowed
<1>3. conn[c] \in ConnectionStorage /\ conn'[c] \in ConnectionStorage
  BY Types
<1>4. /\ conn[c].cwnd \in Nat /\ conn'[c].cwnd \in Nat /\ conn[c].desiredBw \in Nat
      /\ conn[c].availableBw \in Nat
  <2>1. \A b \in 0 .. Bandwidth : b \in Nat
    BY Constants
  <2>2. conn[c].cwnd \in Nat /\ conn[c].desiredBw \in Nat /\ conn[c].availableBw \in 0 .. Bandwidth
    BY <1>3 DEF ConnectionStorage
  <2>3. conn'[c].cwnd \in Nat
    BY <1>3 DEF ConnectionStorage
  <2> QED BY <2>1, <2>2, <2>3
<1>5. /\ PerRtt(conn[c].cwnd) \in Nat /\ PerRtt(conn'[c].cwnd) \in Nat
      /\ PerRtt(conn[c].cwnd) <= PerRtt(conn'[c].cwnd)
  BY <1>1, <1>4, PerRttType, PerRttMonotone
<1> QED BY <1>1, <1>2, <1>4, <1>5

\* Time moves on, at most to the next event.
Elapses(time) ==
  /\ event = None /\ time >= now /\ NoneBefore(time) /\ now' = time
  /\ outstandingBytes' = TickedBytes(time)
  /\ event' # None => event' \in Open /\ conn[event'].nextEvent = time

\* What a tick leaves alone; the event that is taken is gone.
EventTaken(d) ==
  /\ conn'[d].nextEvent = IF d = event' THEN None ELSE conn[d].nextEvent
  /\ conn'[d].idleTimestamp = conn[d].idleTimestamp
  /\ conn'[d].currTransferFinishTime = conn[d].currTransferFinishTime

LEMMA EventsTicked ==
  ASSUME IInv, NEW time \in Nat, NEW c \in Conns
  PROVE  /\ TickedConns(time)[c].nextEvent = conn[c].nextEvent
         /\ TickedConns(time)[c].idleTimestamp = conn[c].idleTimestamp
         /\ TickedConns(time)[c].currTransferFinishTime = conn[c].currTransferFinishTime
<1>1. conn[c] \in ConnectionStorage
  BY Types
<1> QED BY <1>1 DEF TickedConns, TickTime, ConnectionStorage

LEMMA TickEvents ==
  ASSUME IInv, EventsOk, NEW time \in Nat, Elapses(time),
         \A d \in Conns : Moves(conn[d], conn'[d], Got(d, time)) /\ EventTaken(d)
  PROVE  EventsOk' /\ \A d \in Conns : Waits(d) => Waits(d)'
<1>1. \A d \in Conns : /\ conn'[d].state = conn[d].state /\ conn'[d].ssState = conn[d].ssState
                       /\ conn'[d].transfers = conn[d].transfers
  BY DEF Moves
<1>2. Open' = Open
  BY <1>1 DEF Open
<1>3. /\ event = None /\ time >= now /\ NoneBefore(time) /\ now' = time
      /\ outstandingBytes' = TickedBytes(time)
      /\ event' # None => event' \in Open /\ conn[event'].nextEvent = time
  BY DEF Elapses
<1>4. ASSUME NEW d \in Conns
      PROVE  EventOk(d)' /\ (Waits(d) => Waits(d)')
  <2> DEFINE h == Head(conn[d].transfers)
  <2>1. EventOk(d) /\ d # event
    BY <1>3, Constants DEF EventsOk
  <2>2. /\ conn'[d].nextEvent = IF d = event' THEN None ELSE conn[d].nextEvent
        /\ conn'[d].idleTimestamp = conn[d].idleTimestamp
        /\ conn'[d].currTransferFinishTime = conn[d].currTransferFinishTime
    BY DEF EventTaken
  <2>3. conn[d].nextEvent # None => d \in Open /\ conn[d].nextEvent >= time
    BY <1>3, <2>1 DEF EventOk, NoneBefore, Pending
  <2>4. ASSUME conn[d].state = "BUSY", conn[d].ssState = "CA", conn[d].nextEvent = time
        PROVE  outstandingBytes'[h] = 0
    <3>1. conn[d].currTransferFinishTime = time /\ (time = now => outstandingBytes[h] = 0)
      BY <2>1, <2>4 DEF EventOk
    <3>2. Ready(conn[d]) /\ Progressing(conn[d])
      BY <2>4, SharesOf DEF Progressing
    <3>3. h \in Transfers /\ conn[d].transfers # <<>>
      BY <2>4, <3>2, HeadIsTransfer DEF Ready
    <3>4. tConn[h] = d /\ tState[h] = "ACTIVE"
      BY <3>3 DEF IInv, PipelinesOk
    <3>5. CASE time = now
      BY <1>3, <3>1, <3>5 DEF TickedBytes
    <3>6. CASE time # now
      <4>1. outstandingBytes'[h] = outstandingBytes[h] - TickBytes(conn[d], time)
        BY <1>3, <3>2, <3>3, <3>4, <3>6 DEF TickedBytes, Active
      <4>2. TickBytes(conn[d], time) = outstandingBytes[h]
        BY <3>1 DEF TickBytes
      <4>3. outstandingBytes[h] \in Nat
        BY <3>3, Types
      <4> QED BY <4>1, <4>2, <4>3
    <3> QED BY <3>5, <3>6
  <2>5. d = event' => d \in Open /\ conn[d].nextEvent = time
    BY <1>3, Constants
  <2>6. outstandingBytes'[Head(conn'[d].transfers)] = outstandingBytes'[h]
    BY <1>1
  <2> HIDE DEF h
  <2>7. conn'[d].nextEvent # None => d \in Open' /\ d # event' /\ conn'[d].nextEvent >= now'
    BY <1>2, <1>3, <2>2, <2>3
  <2>8. d \in Open' /\ d # event' /\ conn'[d].nextEvent = None =>
          conn'[d].state = "BUSY" /\ conn'[d].ssState = "SS"
    BY <1>1, <1>2, <2>1, <2>2 DEF EventOk
  <2>9. conn'[d].state = "IDLE" =>
          conn'[d].idleTimestamp + IdleTimeout = IF d = event' THEN now' ELSE conn'[d].nextEvent
    BY <1>1, <1>3, <2>1, <2>2, <2>5 DEF EventOk
  <2>10. ASSUME conn'[d].state = "BUSY", conn'[d].ssState = "CA"
         PROVE  IF d = event' THEN outstandingBytes'[h] = 0
                ELSE /\ conn'[d].nextEvent = conn'[d].currTransferFinishTime
                     /\ conn'[d].nextEvent = now' => outstandingBytes'[h] = 0
    <3>1. conn[d].state = "BUSY" /\ conn[d].ssState = "CA"
      BY <1>1, <2>10
    <3>2. conn[d].nextEvent = conn[d].currTransferFinishTime
      BY <2>1, <3>1 DEF EventOk
    <3> QED BY <1>3, <2>2, <2>4, <2>5, <3>1, <3>2
  <2>11. EventOk(d)'
    BY <2>6, <2>7, <2>8, <2>9, <2>10 DEF EventOk
  <2>12. Waits(d) => Waits(d)'
    BY <1>2, <2>1, <2>2 DEF Waits
  <2> QED BY <2>11, <2>12
<1> QED BY <1>2, <1>3, <1>4 DEF EventsOk

LEMMA TakeEventInv ==
  ASSUME IInv, NEW c \in Conns, TakeEvent(c)
  PROVE  IInv' /\ EventsKept /\ WindowsKept /\ PipesStep
<1> DEFINE time == conn[c].nextEvent
           cs == TickedConns(time)
<1>1. /\ event' = c /\ now' = time /\ conn' = [cs EXCEPT ![c].nextEvent = None]
      /\ outstandingBytes' = TickedBytes(time) /\ UNCHANGED <<connections, tState, tConn, size>>
      /\ event = None /\ c \in Open /\ time # None /\ NoneBefore(time)
  BY DEF TakeEvent, Pending
<1>2. time \in Nat
  <2>1. conn[c] \in ConnectionStorage
    BY Types
  <2> QED BY <1>1, <2>1 DEF ConnectionStorage
<1> HIDE DEF time
<1>3. cs \in [Conns -> ConnectionStorage] /\ \A d \in Conns : Moves(conn[d], cs[d], Got(d, time))
  BY <1>2, Ticked
<1>a. \A d \in Conns : /\ cs[d].nextEvent = conn[d].nextEvent
                       /\ cs[d].idleTimestamp = conn[d].idleTimestamp
                       /\ cs[d].currTransferFinishTime = conn[d].currTransferFinishTime
  BY <1>2, EventsTicked
<1> HIDE DEF cs
<1>4. /\ conn' \in [Conns -> ConnectionStorage] /\ \A d \in Conns \ {c} : conn'[d] = cs[d]
      /\ conn'[c] = [cs[c] EXCEPT !.nextEvent = None]
  <2>1. cs[c] \in ConnectionStorage
    BY <1>3
  <2>2. [cs[c] EXCEPT !.nextEvent = None] \in ConnectionStorage
    BY <2>1 DEF ConnectionStorage
  <2> QED BY <1>1, <1>3, <2>2
<1>5. Moves(conn[c], conn'[c], Got(c, time))
  <2>1. cs[c] \in ConnectionStorage /\ conn'[c] \in ConnectionStorage
    BY <1>3, <1>4
  <2> QED BY <1>3, <1>4, <2>1, ZenonT(60) DEF Moves, ConnectionStorage
<1>6. \A d \in Conns : Moves(conn[d], conn'[d], Got(d, time))
  BY <1>3, <1>4, <1>5
<1>7. IInv'
  BY <1>1, <1>2, <1>4, <1>6, TickInv
<1>8. \A d \in Conns : EventTaken(d)
  <2>1. EventTaken(c)
    <3>1. cs[c] \in ConnectionStorage
      BY <1>3
    <3> QED BY <1>1, <1>4, <1>a, <3>1 DEF EventTaken, ConnectionStorage
  <2> QED BY <1>1, <1>4, <1>a, <2>1 DEF EventTaken
<1>9. ASSUME EventsOk PROVE Elapses(time)
  <2>1. time >= now
    BY <1>1, <1>9 DEF EventsOk, EventOk, time
  <2> QED BY <1>1, <2>1 DEF Elapses, time
<1>10. PipesStep
  BY <1>1, <1>6, StutterStep DEF Moves
<1>11. WindowsKept
  BY <1>4, <1>6, TickWindows
<1> QED BY <1>11, <1>10, <1>2, <1>6, <1>7, <1>8, <1>9, TickEvents DEF EventsKept

LEMMA OtherEventInv ==
  ASSUME IInv, NEW time \in OtherTimes, OtherEvent(time)
  PROVE  IInv' /\ EventsKept /\ WindowsKept /\ PipesStep
<1>1. time \in Nat
  BY TimesAssumption
<1>2. /\ event' \in Conns \cup {None} /\ now' = time /\ conn' = TickedConns(time)
      /\ outstandingBytes' = TickedBytes(time) /\ UNCHANGED <<connections, tState, tConn, size>>
      /\ event' = None /\ Elapses(time)
  <2>1. now \in Nat
    BY Types
  <2> QED BY <1>1, <2>1 DEF OtherEvent, Elapses
<1>3. /\ conn' \in [Conns -> ConnectionStorage]
      /\ \A d \in Conns : Moves(conn[d], conn'[d], Got(d, time))
  BY <1>1, <1>2, Ticked
<1>4. IInv'
  BY <1>1, <1>2, <1>3, TickInv
<1>5. \A d \in Conns : EventTaken(d)
  BY <1>1, <1>2, EventsTicked, Constants DEF EventTaken
<1>6. PipesStep
  BY <1>2, <1>3, StutterStep DEF Moves
<1>7. WindowsKept
  BY <1>3, TickWindows
<1> QED BY <1>7, <1>6, <1>1, <1>2, <1>3, <1>4, <1>5, TickEvents DEF EventsKept

-----------------------------------------------------------------------------
(* Every step *)

LEMMA StutterInv == ASSUME IInv, UNCHANGED vars PROVE IInv'
<1>1. /\ now' = now /\ event' = event /\ conn' = conn /\ connections' = connections
      /\ tState' = tState /\ outstandingBytes' = outstandingBytes /\ tConn' = tConn
      /\ size' = size
  BY DEF vars
<1>2. TypeOK'
  BY <1>1 DEF IInv, TypeOK
<1>3. Listed'
  BY <1>1 DEF IInv, Listed, Open
<1>4. PipelinesOk'
  BY <1>1, PipelinesKept DEF IInv, PipelinesOk
<1>5. BytesOk'
  BY <1>1 DEF IInv, BytesOk
<1>6. BytesConserved'
  BY <1>1, BytesKept DEF IInv, SumsKept
<1>7. (\A c \in Conns : WindowOk(conn[c]) /\ ShareOk(conn[c]))'
  BY <1>1 DEF IInv, SharesOk
<1>8. SharesFit(conn)'
  BY <1>1 DEF IInv, SharesOk, SharesFit
<1> QED BY <1>2, <1>3, <1>4, <1>5, <1>6, <1>7, <1>8 DEF IInv, SharesOk

LEMMA NextInv ==
  ASSUME IInv, [Next]_vars
  PROVE  /\ IInv' /\ WindowsKept /\ PipesStep
         /\ EventsOk => EventsOk' /\ \A d \in Conns : (\A c \in Conns : NextRound(c) => NewWish(c))
                                                     /\ Waits(d) => Waits(d)'
<1> DEFINE Kept == EventsOk => EventsOk' /\ \A d \in Conns :
                                              (\A c \in Conns : NextRound(c) => NewWish(c))
                                              /\ Waits(d) => Waits(d)'
           Preserved == IInv' /\ Kept /\ WindowsKept /\ PipesStep
<1>0. EventsKept => Kept
  BY DEF EventsKept
<1> HIDE DEF Kept
<1>1. ASSUME NEW c \in Conns, NEW t \in Transfers, Connect(c, t) PROVE Preserved
  BY <1>0, <1>1, ConnectInv
<1>2. ASSUME NEW c \in Conns, NEW t \in Transfers, AddTransfer(c, t) PROVE Preserved
  BY <1>0, <1>2, AddTransferInv
<1>3. ASSUME NEW c \in Conns, CloseIdle(c) PROVE Preserved
  BY <1>0, <1>3, ClosedInv DEF CloseIdle
<1>4. ASSUME NEW c \in Conns, TakeEvent(c) PROVE Preserved
  BY <1>0, <1>4, TakeEventInv
<1>5. ASSUME NEW c \in Conns, GoIdle(c) PROVE Preserved
  BY <1>0, <1>5, GoIdleInv
<1>6. ASSUME NEW c \in Conns, StartNext(c) PROVE Preserved
  BY <1>0, <1>6, StartNextInv
<1>7. ASSUME NEW c \in Conns, NextRound(c) PROVE Preserved
  BY <1>7, NextRoundInv DEF Kept
<1>8. ASSUME NEW c \in Conns, TimeOut(c) PROVE Preserved
  BY <1>0, <1>8, ClosedInv DEF TimeOut
<1>9. ASSUME NEW time \in OtherTimes, OtherEvent(time) PROVE Preserved
  BY <1>0, <1>9, OtherEventInv
<1>10. ASSUME UNCHANGED vars PROVE Preserved
  <2>1. EventsKept
    BY <1>10 DEF vars, EventsKept, EventsOk, EventOk, Waits, Open
  <2>2. PipesStep
    BY <1>10, StutterStep DEF vars
  <2>3. WindowsKept
    BY <1>10 DEF vars, WindowsKept, Windows
  <2> QED BY <1>0, <1>10, <2>1, <2>2, <2>3, StutterInv
<1>11. Preserved
  BY <1>1, <1>2, <1>3, <1>4, <1>5, <1>6, <1>7, <1>8, <1>9, <1>10 DEF Next, Run
<1> QED BY <1>11 DEF Kept

LEMMA InitEvents == Init => EventsOk /\ \A c \in Conns : Waits(c)
<1> SUFFICES ASSUME Init PROVE EventsOk /\ \A c \in Conns : Waits(c)
  OBVIOUS
<1>1. event = None /\ \A c \in Conns : conn[c].state = "NONE" /\ conn[c].nextEvent = None
  BY DEF Init, NewStorage
<1> QED BY <1>1, Constants DEF EventsOk, EventOk, Waits, Open

\* The inductive invariants: the listed connections are those that are open, the pipelines
\* hold what was sent and is not finished, the shares fit the interface, and the events are
\* those that the state of the connection asks for.
THEOREM InvariantHolds == Spec => [](IInv /\ EventsOk)
<1>1. Init => IInv /\ EventsOk
  BY InitInv, InitEvents
<1>2. (IInv /\ EventsOk) /\ [Next]_vars => (IInv /\ EventsOk)'
  BY NextInv
<1> QED BY <1>1, <1>2, PTL DEF Spec

\* The variables keep their types: no sum of bytes and no bandwidth becomes negative,
\* whatever is truncated and whatever a transfer gets at its deadline.
THEOREM TypeCorrect == Spec => []TypeOK
<1>1. IInv => TypeOK
  BY DEF IInv
<1> QED BY <1>1, InvariantHolds, PTL

\* Every byte is counted once: the sums that _tickTime and addTransfer keep with a
\* connection are those of the transfers sent on it.
THEOREM BytesAreConserved == Spec => []BytesConserved
<1>1. IInv => BytesConserved
  BY DEF IInv
<1> QED BY <1>1, InvariantHolds, PTL

\* A connection has a share of the bandwidth if and only if it transfers something
\* (_scheduleNextEvent divides by it), and the shares together are never more than the
\* bandwidth of the interface, whoever joins, leaves or changes what it wants.
THEOREM SharesAreRight == Spec => []SharesOk(conn)
<1>1. IInv => SharesOk(conn)
  BY DEF IInv
<1> QED BY <1>1, InvariantHolds, PTL

\* The assertions of the event handler (tcpConnection.py:176): no branch is missing for the
\* connection whose event has come.  In congestion avoidance no byte of its active transfer is
\* left, whatever the ticks before have truncated and however often its share has changed, and if
\* it is idle its timeout is over, not only near.
EventIsHandled ==
  \A c \in Conns : c = event =>
    /\ c \in Open
    /\ conn[c].state = "BUSY" /\ conn[c].ssState = "CA" => TransferDone(c)
    /\ conn[c].state = "IDLE" => now = conn[c].idleTimestamp + IdleTimeout
THEOREM HandlerAssertion == Spec => []EventIsHandled
<1>1. EventsOk => EventIsHandled
  BY Constants DEF EventsOk, EventOk, EventIsHandled, TransferDone
<1> QED BY <1>1, InvariantHolds, PTL

\* Time never runs backwards (the assertion of eventSimulator.py:236).
THEOREM TimeIsMonotone == Spec => [][now' >= now]_vars
<1>1. IInv /\ EventsOk /\ [Next]_vars => [now' >= now]_vars
  <2> SUFFICES ASSUME IInv, EventsOk, Next PROVE now' >= now
    BY DEF vars
  <2>1. now \in Nat
    BY Types
  <2>2. ASSUME NEW c \in Conns, TakeEvent(c) PROVE now' >= now
    BY <2>2 DEF TakeEvent, Pending, EventsOk, EventOk
  <2>3. ASSUME NEW time \in OtherTimes, OtherEvent(time) PROVE now' >= now
    <3>1. time \in Nat
      BY TimesAssumption
    <3> QED BY <2>1, <2>3, <3>1 DEF OtherEvent
  <2>4. now' = now => now' >= now
    BY <2>1
  <2> QED BY <2>2, <2>3, <2>4, ZenonT(60)
          DEF Next, Run, Connect, AddTransfer, CloseIdle, GoIdle, StartNext, NextRound, TimeOut
<1> QED BY <1>1, InvariantHolds, PTL DEF Spec

\* Every open connection has an event to come, provided that a round of slow start changes what
\* its connection wants: this is what the code relies on (tcpConnection.py:158), whose handler
\* calculates the next event of a connection only with its new share.
RoundsCount == [][\A c \in Conns : NextRound(c) => NewWish(c)]_vars
THEOREM EventsAreToCome == Spec /\ RoundsCount => []EventToCome
<1> DEFINE Inv == IInv /\ EventsOk /\ \A c \in Conns : Waits(c)
           Round == \A c \in Conns : NextRound(c) => NewWish(c)
<1>1. Init => Inv
  BY InitInv, InitEvents
<1>2. Inv /\ [Next]_vars /\ [Round]_vars => Inv'
  <2> SUFFICES ASSUME Inv, [Next]_vars, [Round]_vars PROVE Inv'
    OBVIOUS
  <2>1. CASE Round
    BY <2>1, NextInv
  <2>2. CASE UNCHANGED vars
    <3>1. IInv' /\ EventsOk'
      BY NextInv
    <3>2. (\A c \in Conns : Waits(c))'
      BY <2>2 DEF vars, Waits, Open
    <3> QED BY <3>1, <3>2
  <2> QED BY <2>1, <2>2
<1>3. Inv => EventToCome
  BY Constants DEF EventsOk, EventOk, Waits, EventToCome
<1> QED BY <1>1, <1>2, <1>3, PTL DEF Spec, RoundsCount

\* Every step is a step of the pipelines or none: a connection serves what was sent on it one
\* after the other, each transfer once, and is closed for good when it has none.  This is the
\* safety part of RefinesPipelines.
THEOREM SafePipelines == Spec => Pipes!Init /\ [][Pipes!Next]_(Pipes!vars)
<1>1. Init => Pipes!Init
  <2> SUFFICES ASSUME Init PROVE Pipes!Init
    OBVIOUS
  <2>1. /\ \A c \in Conns : conn[c].state = "NONE" /\ conn[c].transfers = <<>>
        /\ \A t \in Transfers : tState[t] = "ENABLED"
    BY DEF Init, NewStorage
  <2> QED BY <2>1 DEF Pipes!Init, Open
<1>2. IInv /\ [Next]_vars => [Pipes!Next]_(Pipes!vars)
  BY NextInv DEF PipesStep
<1> QED BY <1>1, <1>2, InvariantHolds, PTL DEF Spec

-----------------------------------------------------------------------------
(* Deadlines and capacity, as long as windows can use what their connections have *)

\* No connection in slow start has more bandwidth than its window can use.  It asks for no more
\* (tcpConnection.py:257), but an equal share of the bandwidth may be more (interface.py:109).  As
\* long as it is not, every smaller share ends slow start and sets a new deadline.  Otherwise the
\* end of a round may take the place of a deadline that stays in currTransferFinishTime.
WindowLimits ==
  \A c \in Conns : conn[c].state = "BUSY" /\ conn[c].ssState = "SS" =>
                   conn[c].availableBw <= PerRtt(conn[c].cwnd)

\* The windows limit the bandwidth if the first one carries half of it in a round: whatever the
\* connections want, a share is more than a wish only if there are two that get it.
THEOREM WindowsDoLimit == Spec /\ WindowsCarryHalf => []WindowLimits
<1> DEFINE Inv == IInv /\ Windows /\ WindowsCarryHalf
<1>1. Init /\ WindowsCarryHalf => Inv
  <2> SUFFICES ASSUME Init, NEW c \in Conns PROVE Windowed(conn[c])
    BY InitInv DEF Windows
  <2>1. conn[c].desiredBw = 0 /\ conn[c].availableBw = 0 /\ conn[c].cwnd = InitialCwnd
    BY DEF Init, NewStorage
  <2>2. PerRtt(conn[c].cwnd) \in Nat
    BY <2>1, Constants, PerRttType
  <2> QED BY <2>1, <2>2 DEF Windowed
<1>2. Inv /\ [Next]_vars => Inv'
  BY NextInv DEF WindowsKept, WindowsCarryHalf, PerRtt
<1>3. Inv => WindowLimits
  BY DEF Windows, Windowed, WindowLimits
<1> QED BY <1>1, <1>2, <1>3, PTL DEF Spec

\* The bytes that were transferred since the share was set, those that are left of the active
\* transfer, and what the share allows until time.
Since(s) == s.transferredBytesSum - s.lastBwUpdateTransferredBytesSum
Left(s) == outstandingBytes[Head(s.transfers)]
Allowed(s, time) == s.availableBw * (time - s.lastBwUpdate)
Target(s) == (Since(s) + Left(s)) * Second

\* A connection has not got more than its share allows, or just that.
Limited(s) == s.lastBwUpdate <= now /\ Since(s) * Second <= Allowed(s, now)
Settled(s) == Since(s) * Second = Allowed(s, now)

\* The next event is the deadline of the active transfer, which its share meets exactly.
Due(s) ==
  /\ s.currTransferFinishTime >= now /\ s.nextEvent = s.currTransferFinishTime
  /\ Target(s) = Allowed(s, s.nextEvent)
  /\ s.nextEvent = now => Left(s) = 0
  /\ s.ssState = "SS" => Left(s) * Second <= s.availableBw * RTT

\* The next event is the end of a round of slow start, and the transfer is not done by then.
RoundDue(s) ==
  /\ s.ssState = "SS" /\ s.currTransferFinishTime <= now
  /\ s.nextEvent # None => Target(s) > Allowed(s, s.nextEvent)

\* No deadline that is to come is stale.
OnTime(s, handled) ==
  /\ Limited(s)
  /\ ~Progressing(s) => s.currTransferFinishTime <= now
  /\ Progressing(s) /\ ~handled => Due(s) \/ RoundDue(s)
  /\ Progressing(s) /\ handled => /\ s.currTransferFinishTime <= now
                                  /\ Left(s) = 0 => Settled(s)
                                  /\ Left(s) # 0 => s.ssState = "SS"
Timed(c) == OnTime(conn[c], c = event)

LEMMA TimeTypes ==
  ASSUME TypeOK, NEW s \in ConnectionStorage
  PROVE  /\ now \in Nat /\ Since(s) \in Int /\ s.lastBwUpdate \in Nat
         /\ s.currTransferFinishTime \in Int /\ s.nextEvent \in Int
         /\ s.availableBw \in Nat /\ s.availableBw \in 0 .. Bandwidth
         /\ s.transferredBytesSum \in Nat /\ s.lastBwUpdateTransferredBytesSum \in Nat
         /\ s.cwnd \in Nat /\ s.ssState \in {"NEW", "SS", "CA"}
         /\ Ready(s) /\ s.state = "BUSY" => Left(s) \in Nat /\ Target(s) \in Int
<1>1. /\ now \in Nat /\ s.lastBwUpdate \in Nat
      /\ s.currTransferFinishTime \in Int /\ s.nextEvent \in Int
      /\ s.availableBw \in Nat /\ s.availableBw \in 0 .. Bandwidth
      /\ s.transferredBytesSum \in Nat /\ s.lastBwUpdateTransferredBytesSum \in Nat
      /\ s.cwnd \in Nat /\ s.ssState \in {"NEW", "SS", "CA"}
  <2>1. now \in Nat /\ Bandwidth \in Nat /\ None \in Int
    BY Constants DEF TypeOK
  <2>2. /\ s.lastBwUpdate \in Nat /\ s.transferredBytesSum \in Nat
        /\ s.lastBwUpdateTransferredBytesSum \in Nat
        /\ s.cwnd \in Nat /\ s.ssState \in {"NEW", "SS", "CA"}
    BY DEF ConnectionStorage
  <2>3. s.currTransferFinishTime \in Nat \cup {None} /\ s.nextEvent \in Nat \cup {None}
    BY DEF ConnectionStorage
  <2>4. s.availableBw \in 0 .. Bandwidth
    BY DEF ConnectionStorage
  <2>5. s.availableBw \in Nat
    BY <2>1, <2>4
  <2> QED BY <2>1, <2>2, <2>3, <2>4, <2>5
<1>2. Since(s) \in Int
  BY <1>1 DEF Since
<1>3. ASSUME Ready(s), s.state = "BUSY" PROVE Left(s) \in Nat /\ Target(s) \in Int
  <2>1. Left(s) \in Nat
    BY <1>3, HeadIsTransfer DEF TypeOK, Left
  <2> QED BY <1>2, <2>1, Constants DEF Target
<1> QED BY <1>1, <1>2, <1>3

\* A deadline that is calculated for a share which is used up until now.
LEMMA ScheduleTimes ==
  ASSUME TypeOK, NEW s, Ready(s), Progressing(s), s.availableBw > 0, Limited(s), Settled(s),
         s.ssState = "SS" /\ s.currTransferFinishTime > now
           => Left(s) * Second <= s.availableBw * RTT
  PROVE  OnTime(ScheduleNextEvent(s), FALSE) /\ Settled(ScheduleNextEvent(s))
<1> DEFINE r == ScheduleNextEvent(s)
           out == Left(s)
           bw == s.availableBw
           q == (out * Second) \div bw
           last == s.lastBwUpdate
           since == Since(s)
           finish == now + q
           round == now + RTT
<1>1. s \in ConnectionStorage /\ s.state = "BUSY"
  BY DEF Ready, Progressing
<1>2. /\ now \in Nat /\ since \in Int /\ last \in Nat /\ bw \in 1 .. Bandwidth /\ bw \in Nat \ {0}
      /\ out \in Nat /\ s.currTransferFinishTime \in Int /\ Second \in Nat \ {0} /\ RTT \in Nat \ {0}
  <2>1. s.availableBw \in 0 .. Bandwidth /\ s.availableBw \in Nat /\ Bandwidth \in Nat
    BY <1>1, TimeTypes, Constants
  <2> QED BY <1>1, <2>1, TimeTypes, Constants
<1>3. last <= now /\ since * Second = bw * (now - last)
  BY DEF Limited, Settled, Allowed
<1>4. \/ /\ r = [s EXCEPT !.nextEvent = finish, !.currTransferFinishTime = finish]
         /\ s.ssState = "CA" \/ finish <= round
      \/ /\ r = [s EXCEPT !.nextEvent = round]
         /\ s.ssState # "CA" /\ ~(finish <= round)
  BY <1>1 DEF ScheduleNextEvent, Left
<1>5. s.ssState = "SS" /\ s.currTransferFinishTime > now => out * Second <= bw * RTT
  OBVIOUS
<1>a. Ready(s) /\ Progressing(s)
  OBVIOUS
<1> HIDE DEF r, out, bw, last, since
<1>6. q \in Nat /\ bw * q = out * Second /\ (q = 0 => out = 0)
  <2>1. Second % bw = 0
    BY <1>2, SecondAssumption
  <2> QED BY <1>2, <2>1, ExactDivision, ZenonT(60)
<1> HIDE DEF q
<1>7. (since + out) * Second = bw * (finish - last)
  <2>1. (since + out) * Second = since * Second + out * Second
    BY <1>2
  <2>2. bw * ((now - last) + q) = bw * (now - last) + bw * q
    BY <1>2, <1>6
  <2>3. (now - last) + q = finish - last
    BY <1>2, <1>6
  <2> QED BY <1>3, <1>6, <2>1, <2>2, <2>3
<1>8. ASSUME finish <= round PROVE out * Second <= bw * RTT
  <2>1. q <= RTT
    BY <1>2, <1>6, <1>8
  <2>2. bw * q <= bw * RTT
    BY <1>2, <1>6, <2>1
  <2> QED BY <1>6, <2>2
<1>9. ASSUME ~(finish <= round) PROVE out * Second > bw * RTT /\ bw * (finish - last) > bw * (round - last)
  <2>1. q > RTT /\ finish - last > round - last /\ finish - last \in Int /\ round - last \in Int
    BY <1>2, <1>6, <1>9
  <2>2. bw * q > bw * RTT
    BY <1>2, <1>6, <2>1
  <2> DEFINE a == finish - last
             b == round - last
  <2>3. a \in Int /\ b \in Int /\ a > b
    BY <2>1
  <2> HIDE DEF a, b
  <2>4. bw * a > bw * b
    BY <1>2, <2>3
  <2> QED BY <1>6, <2>2, <2>4 DEF a, b
<1>b. finish \in Nat /\ round \in Nat /\ finish >= now /\ (finish = now => out = 0)
  BY <1>2, <1>6
<1> HIDE DEF finish, round
<1>10. /\ r.ssState = s.ssState /\ r.availableBw = bw /\ r.lastBwUpdate = last
       /\ Since(r) = since /\ Left(r) = out /\ Progressing(r)
       /\ \/ /\ r.nextEvent = finish /\ r.currTransferFinishTime = finish
             /\ s.ssState = "CA" \/ finish <= round
          \/ /\ r.nextEvent = round /\ r.currTransferFinishTime = s.currTransferFinishTime
             /\ s.ssState # "CA" /\ ~(finish <= round)
  BY <1>1, <1>4, <1>a DEF ConnectionStorage, Since, Left, Progressing, bw, last, since, out
<1>11. Limited(r) /\ Settled(r)
  BY <1>2, <1>3, <1>10, Constants DEF Limited, Settled, Allowed
<1>12. Target(r) = bw * (finish - last)
  BY <1>7, <1>10 DEF Target
<1>13. CASE r.nextEvent = finish /\ r.currTransferFinishTime = finish
            /\ (s.ssState = "CA" \/ finish <= round)
  <2>1. r.ssState = "SS" => out * Second <= bw * RTT
    BY <1>8, <1>10, <1>13
  <2>2. Due(r)
    BY <1>b, <1>10, <1>12, <1>13, <2>1 DEF Due, Allowed
  <2> QED BY <1>10, <1>11, <2>2 DEF OnTime, r
<1>14. CASE /\ r.nextEvent = round /\ r.currTransferFinishTime = s.currTransferFinishTime
            /\ s.ssState # "CA" /\ ~(finish <= round)
  <2>1. s.ssState = "SS"
    BY <1>1, <1>14, <1>a, TimeTypes DEF Progressing
  <2>2. s.currTransferFinishTime <= now
    <3>1. out * Second \in Nat /\ bw * RTT \in Nat
      BY <1>2
    <3>2. ~(out * Second <= bw * RTT)
      BY <1>9, <1>14, <3>1
    <3> QED BY <1>2, <1>5, <2>1, <3>2
  <2>3. RoundDue(r)
    BY <1>9, <1>10, <1>12, <1>14, <2>1, <2>2 DEF RoundDue, Allowed
  <2> QED BY <1>10, <1>11, <2>3 DEF OnTime, r
<1> QED BY <1>10, <1>13, <1>14

\* What a connection may transfer until now, had it used its share since it was set.
Weight(s) == s.lastBwUpdateTransferredBytesSum * Second + Allowed(s, now)

\* A new share keeps the deadline of such a connection, or moves it towards the present.
Fine(s) ==
  /\ Limited(s)
  /\ \/ s.currTransferFinishTime <= now
     \/ /\ Progressing(s)
        /\ s.ssState = "SS" => /\ Left(s) * Second <= s.availableBw * RTT
                               /\ s.availableBw <= PerRtt(s.cwnd)

SameTimes(s, r) ==
  /\ r.state = s.state /\ r.transfers = s.transfers /\ r.ssState = s.ssState
  /\ r.availableBw = s.availableBw /\ r.nextEvent = s.nextEvent
  /\ r.currTransferFinishTime = s.currTransferFinishTime /\ r.lastBwUpdate = s.lastBwUpdate
  /\ r.lastBwUpdateTransferredBytesSum = s.lastBwUpdateTransferredBytesSum
  /\ r.transferredBytesSum = s.transferredBytesSum
FreshTimes(r) == OnTime(r, FALSE) /\ (Progressing(r) => Settled(r))
Reshared(s, r) == (SameTimes(s, r) \/ FreshTimes(r)) /\ Weight(r) <= Weight(s)

LEMMA WeightType ==
  ASSUME TypeOK, NEW s \in ConnectionStorage
  PROVE  Weight(s) \in Int /\ Allowed(s, now) \in Int
<1>1. /\ now \in Nat /\ s.lastBwUpdate \in Nat /\ s.availableBw \in Nat
      /\ s.lastBwUpdateTransferredBytesSum \in Nat
  BY TimeTypes
<1> QED BY <1>1, Constants DEF Weight, Allowed

LEMMA SameIsReshared ==
  ASSUME TypeOK, NEW s \in ConnectionStorage, NEW r, SameTimes(s, r)
  PROVE  Reshared(s, r)
<1>1. Weight(r) = Weight(s) /\ Weight(s) \in Int
  BY WeightType DEF SameTimes, Weight, Allowed
<1> QED BY <1>1 DEF Reshared

\* What the connection has transferred is no more than it may.
LEMMA WeightIsLimit ==
  ASSUME TypeOK, NEW s \in ConnectionStorage, Limited(s)
  PROVE  s.transferredBytesSum * Second <= Weight(s)
<1> DEFINE a == s.transferredBytesSum
           b == s.lastBwUpdateTransferredBytesSum
           w == Allowed(s, now)
<1>1. a \in Nat /\ b \in Nat /\ Second \in Nat /\ w \in Int /\ (a - b) * Second <= w
  BY TimeTypes, WeightType, Constants DEF Limited, Since
<1> HIDE DEF a, b, w
<1>2. (a - b) * Second = a * Second - b * Second
  BY <1>1
<1>3. a * Second \in Int /\ b * Second \in Int
  BY <1>1
<1>4. a * Second <= b * Second + w
  BY <1>1, <1>2, <1>3
<1> QED BY <1>4 DEF Weight, a, b, w

LEMMA ShareTimes ==
  ASSUME TypeOK, NEW s, Ready(s), s.state \in {"IDLE", "BUSY"}, NEW bw \in 0 .. Bandwidth,
         Progressing(s) => bw > 0, s.state = "BUSY" /\ ~Progressing(s) => bw = s.availableBw,
         Fine(s)
  PROVE  Reshared(s, SetAvailableBw(s, bw))
<1> DEFINE r == SetAvailableBw(s, bw)
           t == [s EXCEPT !.availableBw = bw, !.lastBwUpdate = now,
                          !.lastBwUpdateTransferredBytesSum = s.transferredBytesSum]
           m == Max({PerRtt(s.outstandingTransferBytesSum), s.desiredBw})
           u == IF DropsOut(s, bw)
                THEN [t EXCEPT !.ssState = "CA", !.cwnd = 0,
                               !.desiredBw = Max({PerRtt(s.outstandingTransferBytesSum), @})]
                ELSE t
<1>1. s \in ConnectionStorage /\ now \in Nat /\ bw \in Nat
  BY Constants DEF Ready, TypeOK
<1>2. CASE s.availableBw = bw /\ s.ssState # "SS"
  <2>1. r = s
    BY <1>2 DEF SetAvailableBw
  <2>2. SameTimes(s, s)
    BY DEF SameTimes
  <2> QED BY <1>1, <2>1, <2>2, SameIsReshared
<1>3. CASE ~(s.availableBw = bw /\ s.ssState # "SS")
  <2>1. r = ScheduleNextEvent(u)
    BY <1>3 DEF SetAvailableBw
  <2>2. /\ t \in ConnectionStorage /\ t.state = s.state /\ t.transfers = s.transfers
        /\ t.ssState = s.ssState /\ t.availableBw = bw /\ t.lastBwUpdate = now
        /\ t.lastBwUpdateTransferredBytesSum = s.transferredBytesSum
        /\ t.transferredBytesSum = s.transferredBytesSum
        /\ t.currTransferFinishTime = s.currTransferFinishTime /\ t.desiredBw = s.desiredBw
    BY <1>1 DEF ConnectionStorage
  <2>3. m \in Nat
    <3>1. PerRtt(s.outstandingTransferBytesSum) \in Nat /\ s.desiredBw \in Nat
      BY <1>1, PerRttType DEF ConnectionStorage
    <3> QED BY <3>1 DEF Max
  <2>4. u = IF DropsOut(s, bw) THEN [t EXCEPT !.ssState = "CA", !.cwnd = 0, !.desiredBw = m] ELSE t
    BY <2>2
  <2> HIDE DEF r, t, m, u
  <2>5. /\ u \in ConnectionStorage /\ u.state = s.state /\ u.transfers = s.transfers
        /\ u.ssState = IF DropsOut(s, bw) THEN "CA" ELSE s.ssState
        /\ u.availableBw = bw /\ u.lastBwUpdate = now
        /\ u.lastBwUpdateTransferredBytesSum = s.transferredBytesSum
        /\ u.transferredBytesSum = s.transferredBytesSum
        /\ u.currTransferFinishTime = s.currTransferFinishTime
    <3>1. CASE DropsOut(s, bw)
      BY <2>2, <2>3, <2>4, <3>1 DEF ConnectionStorage
    <3>2. CASE ~DropsOut(s, bw)
      BY <2>2, <2>4, <3>2
    <3> QED BY <3>1, <3>2
  <2>6. Ready(u) /\ Left(u) = Left(s) /\ (Progressing(u) <=> Progressing(s))
    BY <2>5 DEF Ready, Left, Progressing, DropsOut
  <2>7. Since(u) = 0 /\ Limited(u) /\ Settled(u)
    <3>1. Since(u) = 0
      BY <1>1, <2>5, TimeTypes DEF Since
    <3> QED BY <1>1, <2>5, <3>1, Constants DEF Limited, Settled, Allowed
  <2>8. u.state = "BUSY" => u.availableBw > 0
    <3>1. s.state = "BUSY" /\ ~Progressing(s) => s.ssState = "NEW"
      BY DEF Progressing
    <3> QED BY <1>3, <2>5, <3>1
  <2>9. Reschedules(u, r)
    BY <2>1, <2>5, <2>6, <2>8, ScheduleProperties
  <2>10. FreshTimes(r)
    <3>1. CASE Progressing(s)
      <4>1. ASSUME u.ssState = "SS", u.currTransferFinishTime > now
            PROVE  Left(u) * Second <= u.availableBw * RTT
        <5>1. s.ssState = "SS" /\ ~DropsOut(s, bw) /\ s.state = "BUSY"
          BY <2>5, <3>1, <4>1 DEF Progressing
        <5>2. s.currTransferFinishTime \in Int /\ s.cwnd \in Nat /\ s.availableBw \in Nat
              /\ Left(s) \in Nat
          BY <1>1, <5>1, TimeTypes
        <5>3. Left(s) * Second <= s.availableBw * RTT /\ s.availableBw <= PerRtt(s.cwnd)
          BY <1>1, <2>5, <4>1, <5>1, <5>2 DEF Fine
        <5>4. PerRtt(s.cwnd) \in Nat
          BY <5>2, PerRttType
        <5>5. s.availableBw <= bw
          BY <1>1, <5>1, <5>2, <5>3, <5>4 DEF DropsOut
        <5> DEFINE old == s.availableBw
                   left == Left(s) * Second
        <5>6. old * RTT <= bw * RTT /\ left <= old * RTT /\ left \in Nat /\ old * RTT \in Nat
              /\ bw * RTT \in Nat
          BY <1>1, <5>2, <5>3, <5>5, Constants
        <5> HIDE DEF old, left
        <5>7. left <= bw * RTT
          BY <5>6
        <5> QED BY <2>5, <2>6, <5>7 DEF left
      <4>2. OnTime(r, FALSE) /\ Settled(r)
        BY <2>1, <2>5, <2>6, <2>7, <3>1, <4>1, ScheduleTimes
      <4> QED BY <4>2 DEF FreshTimes
    <3>2. CASE ~Progressing(s)
      <4>1. ~Progressing(r) /\ Since(r) = Since(u) /\ r.lastBwUpdate = u.lastBwUpdate
            /\ r.availableBw = u.availableBw
        BY <2>6, <2>9, <3>2 DEF Reschedules, Untouched, Progressing, Since
      <4>2. Limited(r)
        BY <2>7, <4>1 DEF Limited, Allowed
      <4>3. u.state = "IDLE"
        BY <1>3, <2>5, <3>2 DEF Progressing
      <4>4. r = [u EXCEPT !.nextEvent = u.idleTimestamp + IdleTimeout]
        BY <2>1, <4>3 DEF ScheduleNextEvent
      <4>5. r.currTransferFinishTime = s.currTransferFinishTime
        BY <2>5, <4>4 DEF ConnectionStorage
      <4>6. s.currTransferFinishTime <= now
        BY <3>2 DEF Fine
      <4> QED BY <4>1, <4>2, <4>5, <4>6 DEF FreshTimes, OnTime
    <3> QED BY <3>1, <3>2
  <2>11. Weight(r) <= Weight(s)
    <3>1. s.transferredBytesSum * Second <= Weight(s)
      BY <1>1, WeightIsLimit DEF Fine
    <3>2. Weight(r) = s.transferredBytesSum * Second + bw * (now - now)
      BY <2>5, <2>9 DEF Reschedules, Weight, Allowed
    <3>3. s.transferredBytesSum * Second \in Int /\ bw * (now - now) = 0
      BY <1>1, TimeTypes, Constants
    <3> QED BY <3>1, <3>2, <3>3
  <2>12. Reshared(s, r)
    BY <2>10, <2>11 DEF Reshared
  <2> QED BY <2>12 DEF r
<1> QED BY <1>2, <1>3

LEMMA ShareIsSet ==
  ASSUME NEW s \in ConnectionStorage, NEW bw
  PROVE  SetAvailableBw(s, bw).availableBw = bw
<1> DEFINE t == [s EXCEPT !.availableBw = bw, !.lastBwUpdate = now,
                          !.lastBwUpdateTransferredBytesSum = s.transferredBytesSum]
           u == IF DropsOut(s, bw)
                THEN [t EXCEPT !.ssState = "CA", !.cwnd = 0,
                               !.desiredBw = Max({PerRtt(s.outstandingTransferBytesSum), @})]
                ELSE t
<1>1. CASE s.availableBw = bw /\ s.ssState # "SS"
  BY <1>1 DEF SetAvailableBw
<1>2. CASE ~(s.availableBw = bw /\ s.ssState # "SS")
  <2>1. SetAvailableBw(s, bw) = ScheduleNextEvent(u)
    BY <1>2 DEF SetAvailableBw
  <2>2. t.availableBw = bw
    BY DEF ConnectionStorage
  <2> HIDE DEF t
  <2>3. u.availableBw = bw
    BY <2>2
  <2> HIDE DEF u
  <2>4. ScheduleNextEvent(u).availableBw = u.availableBw
    BY DEF ScheduleNextEvent
  <2> QED BY <2>1, <2>3, <2>4
<1> QED BY <1>1, <1>2

LEMMA UpdateTimes ==
  ASSUME TypeOK, NEW cs, NEW c \in Conns, BeforeUpdate(cs, c),
         \A d \in Conns : cs[d].state \in {"IDLE", "BUSY"} => Fine(cs[d]), NEW d \in Conns
  PROVE  Reshared(cs[d], UpdateDesiredBw(cs, c)[d])
<1> DEFINE r == UpdateDesiredBw(cs, c)
           wish == NewDesiredBw(cs[c])
           u == [cs EXCEPT ![c].desiredBw = wish]
           share == Shares(connections, [e \in Conns |-> u[e].desiredBw], Bandwidth)
<1>1. AfterUpdate(cs, r)
  BY UpdateProperties
<1>2. cs \in [Conns -> ConnectionStorage] /\ Ready(cs[d]) /\ Served(cs[d])
  BY DEF BeforeUpdate
<1>3. CASE wish = cs[c].desiredBw
  <2>1. r = cs
    BY <1>3 DEF UpdateDesiredBw
  <2>2. SameTimes(cs[d], cs[d])
    BY DEF SameTimes
  <2> QED BY <1>2, <2>1, <2>2, SameIsReshared
<1>4. CASE wish # cs[c].desiredBw
  <2>1. r = [e \in Conns |-> IF e \in ToSet(connections) THEN SetAvailableBw(u[e], share[e]) ELSE u[e]]
    BY <1>4 DEF UpdateDesiredBw, UpdateConnectionBwShare
  <2>2. wish \in Nat
    BY WishProperties DEF BeforeUpdate
  <2>3. /\ u[d] \in ConnectionStorage /\ SameTimes(cs[d], u[d]) /\ u[d].cwnd = cs[d].cwnd
    <3>1. u[d] = IF d = c THEN [cs[d] EXCEPT !.desiredBw = wish] ELSE cs[d]
      BY <1>2
    <3> HIDE DEF u, wish, r
    <3> QED BY <1>2, <2>2, <3>1 DEF ConnectionStorage, SameTimes
  <2> HIDE DEF r, u, share, wish
  <2>4. Ready(u[d]) /\ (Progressing(u[d]) <=> Progressing(cs[d]))
    BY <1>2, <2>3 DEF Ready, SameTimes, Progressing
  <2>5. CASE d \notin ToSet(connections)
    <3>1. r[d] = u[d]
      BY <2>1, <2>5
    <3> QED BY <1>2, <2>3, <3>1, SameIsReshared DEF r
  <2>6. CASE d \in ToSet(connections)
    <3> DEFINE bw == share[d]
    <3>1. r[d] = SetAvailableBw(u[d], bw)
      BY <2>1, <2>6
    <3> HIDE DEF bw
    <3>2. r[d].availableBw = bw
      BY <2>3, <3>1, ShareIsSet
    <3>3. r[d] \in ConnectionStorage /\ Continued(cs[d], r[d]) /\ ShareOk(r[d])
      BY <1>1 DEF AfterUpdate, SharesOk, r
    <3>4. bw \in 0 .. Bandwidth
      BY <3>2, <3>3 DEF ConnectionStorage
    <3>5. Progressing(r[d]) <=> Progressing(u[d])
      BY <2>4, <3>3 DEF Continued, Untouched, Progressing
    <3>6. u[d].state \in {"IDLE", "BUSY"} /\ cs[d].state \in {"IDLE", "BUSY"}
      BY <2>3, <2>6 DEF BeforeUpdate, SameTimes
    <3>7. Progressing(u[d]) => bw > 0
      BY <3>2, <3>3, <3>5 DEF ShareOk
    <3>8. ASSUME u[d].state = "BUSY", ~Progressing(u[d])
          PROVE  bw = u[d].availableBw
      <4>1. bw = 0
        BY <3>2, <3>3, <3>5, <3>8 DEF ShareOk
      <4>2. cs[d].ssState = "NEW" /\ ~Progressing(cs[d])
        BY <2>3, <2>4, <3>8 DEF Progressing, SameTimes
      <4>3. cs[d].desiredBw \in Nat /\ cs[d].availableBw \in Nat
        BY <1>2, TimeTypes DEF ConnectionStorage
      <4>4. cs[d].desiredBw = 0
        <5>1. CASE d = c
          BY <4>2, <5>1 DEF BeforeUpdate
        <5>2. CASE d # c
          BY <4>2, <4>3, <5>2 DEF BeforeUpdate, Asks
        <5> QED BY <5>1, <5>2
      <4>5. cs[d].availableBw = 0
        BY <1>2, <4>3, <4>4 DEF Served
      <4> QED BY <2>3, <4>1, <4>5 DEF SameTimes
    <3>9. Fine(u[d])
      <4>1. Fine(cs[d])
        BY <3>6
      <4> QED BY <2>3, <2>4, <4>1 DEF Fine, SameTimes, Limited, Since, Allowed, Left
    <3>10. Reshared(u[d], r[d])
      BY <2>4, <3>1, <3>4, <3>6, <3>7, <3>8, <3>9, ShareTimes
    <3>11. SameTimes(u[d], r[d]) => SameTimes(cs[d], r[d])
      BY <2>3 DEF SameTimes
    <3>12. Weight(u[d]) = Weight(cs[d])
      BY <2>3 DEF SameTimes, Weight, Allowed
    <3>13. Reshared(cs[d], r[d])
      BY <3>10, <3>11, <3>12 DEF Reshared
    <3> QED BY <3>13 DEF r
  <2> QED BY <2>5, <2>6
<1> QED BY <1>3, <1>4

\* The deadline of a transfer that is started, with a new share or the one there is.
LEMMA StartTimes ==
  ASSUME TypeOK, NEW s \in ConnectionStorage, NEW r, Ready(r), Reshared(s, r),
         Progressing(r), r.availableBw > 0,
         s.currTransferFinishTime <= now, Settled(s), Limited(s)
  PROVE  FreshTimes(ScheduleNextEvent(r)) /\ Weight(ScheduleNextEvent(r)) <= Weight(s)
<1>1. r \in ConnectionStorage /\ r.state = "BUSY" /\ r.state \in {"IDLE", "BUSY"}
  BY DEF Ready, Progressing
<1>2. Limited(r) /\ Settled(r)
  <2>1. CASE SameTimes(s, r)
    BY <2>1 DEF SameTimes, Limited, Settled, Since, Allowed
  <2>2. CASE FreshTimes(r)
    BY <2>2 DEF FreshTimes, OnTime
  <2> QED BY <2>1, <2>2 DEF Reshared
<1>3. ASSUME r.ssState = "SS", r.currTransferFinishTime > now
      PROVE  Left(r) * Second <= r.availableBw * RTT
  <2>1. now \in Nat /\ r.currTransferFinishTime \in Int /\ s.currTransferFinishTime \in Int
    BY <1>1, TimeTypes
  <2>2. ~SameTimes(s, r) /\ ~RoundDue(r)
    BY <1>3, <2>1 DEF SameTimes, RoundDue
  <2>3. Due(r)
    BY <2>2 DEF Reshared, FreshTimes, OnTime
  <2> QED BY <1>3, <2>3 DEF Due
<1>4. OnTime(ScheduleNextEvent(r), FALSE) /\ Settled(ScheduleNextEvent(r))
  BY <1>2, <1>3, ScheduleTimes
<1>5. Reschedules(r, ScheduleNextEvent(r))
  BY <1>1, ScheduleProperties
<1>6. Weight(ScheduleNextEvent(r)) = Weight(r)
  BY <1>5 DEF Reschedules, Weight, Allowed
<1> QED BY <1>4, <1>6 DEF FreshTimes, Reshared

\* What the connections may have transferred until now is no more than the interface can.
Budget == Sum([c \in Conns |-> Weight(conn[c])], Conns) <= Bandwidth * now
TimesOk == (\A c \in Conns : Timed(c)) /\ Budget

\* A step in which no time passes.
NoTime == now' = now /\ outstandingBytes' = outstandingBytes

LEMMA SameOnTime ==
  ASSUME NEW s, NEW r, SameTimes(s, r), NEW handled, OnTime(s, handled)
  PROVE  OnTime(r, handled)
<1>1. /\ (Limited(r) <=> Limited(s)) /\ (Settled(r) <=> Settled(s)) /\ Left(r) = Left(s)
      /\ (Progressing(r) <=> Progressing(s)) /\ (Due(r) <=> Due(s)) /\ (RoundDue(r) <=> RoundDue(s))
  BY DEF SameTimes, Limited, Settled, Left, Progressing, Due, RoundDue, Since, Allowed, Target
<1>2. r.currTransferFinishTime = s.currTransferFinishTime /\ r.ssState = s.ssState
  BY DEF SameTimes
<1> QED BY <1>1, <1>2 DEF OnTime

LEMMA TimesKept ==
  ASSUME IInv, IInv', TimesOk, NoTime,
         \A d \in Conns : OnTime(conn'[d], d = event') /\ Weight(conn'[d]) <= Weight(conn[d])
  PROVE  TimesOk'
<1>1. ASSUME NEW d \in Conns PROVE Timed(d)'
  <2>1. OnTime(conn'[d], d = event')
    OBVIOUS
  <2> QED BY <2>1 DEF NoTime, Timed, OnTime, Limited, Settled, Since, Left, Allowed, Target, Due,
                      RoundDue
<1>2. Budget'
  <2> DEFINE f == [c \in Conns |-> Weight(conn'[c])]
             g == [c \in Conns |-> Weight(conn[c])]
  <2>1. \A d \in Conns : conn[d] \in ConnectionStorage /\ conn'[d] \in ConnectionStorage
    BY DEF IInv, TypeOK
  <2>2. TypeOK /\ IsFiniteSet(Conns) /\ Bandwidth \in Nat /\ now \in Nat
    BY Constants, Types DEF IInv
  <2>3. \A d \in Conns : f[d] \in Int /\ g[d] \in Int /\ f[d] <= g[d]
    BY <2>1, <2>2, WeightType
  <2>4. [c \in Conns |-> Weight(conn[c])]' = f
    BY DEF NoTime, Weight, Allowed
  <2>5. Sum(g, Conns) <= Bandwidth * now
    BY DEF TimesOk, Budget
  <2> HIDE DEF f, g
  <2>6. Sum(f, Conns) <= Sum(g, Conns) /\ Sum(f, Conns) \in Int /\ Sum(g, Conns) \in Int
    BY <2>2, <2>3, SumMonotone, SumType DEF Sum
  <2>7. Sum(f, Conns) <= Bandwidth * now
    BY <2>2, <2>5, <2>6
  <2> QED BY <2>4, <2>7 DEF Budget, NoTime
<1> QED BY <1>1, <1>2 DEF TimesOk

\* What is on time before its event is fine for a new share.
LEMMA OnTimeIsFine ==
  ASSUME IInv, WindowLimits, NEW d \in Conns, OnTime(conn[d], FALSE)
  PROVE  Fine(conn[d])
<1>1. CASE Progressing(conn[d])
  <2>1. conn[d].ssState = "SS" => conn[d].availableBw <= PerRtt(conn[d].cwnd)
    BY <1>1 DEF WindowLimits, Progressing
  <2>2. Limited(conn[d]) /\ (Due(conn[d]) \/ RoundDue(conn[d]))
    BY <1>1 DEF OnTime
  <2> QED BY <1>1, <2>1, <2>2 DEF Due, RoundDue, Fine
<1>2. CASE ~Progressing(conn[d])
  BY <1>2 DEF OnTime, Fine
<1> QED BY <1>1, <1>2

SameClock(s, x) ==
  /\ x.availableBw = s.availableBw /\ x.currTransferFinishTime = s.currTransferFinishTime
  /\ x.nextEvent = s.nextEvent /\ x.lastBwUpdate = s.lastBwUpdate
  /\ x.lastBwUpdateTransferredBytesSum = s.lastBwUpdateTransferredBytesSum
  /\ x.transferredBytesSum = s.transferredBytesSum

\* Connections whose shares are updated because of c, whose storage has become x.
LEMMA UpdatedTimes ==
  ASSUME IInv, WindowLimits, TimesOk, NEW c \in Open, NEW x, Prepared(conn[c], x),
         SameClock(conn[c], x), Fine(x), event \in {c, None},
         NEW r, r = UpdateDesiredBw([conn EXCEPT ![c] = x], c)
  PROVE  /\ \A d \in Conns \ {c} : OnTime(r[d], FALSE) /\ Weight(r[d]) <= Weight(conn[d])
         /\ Reshared(x, r[c]) /\ Weight(r[c]) <= Weight(conn[c]) /\ Weight(x) = Weight(conn[c])
<1> DEFINE cs == [conn EXCEPT ![c] = x]
<1>1. c \in Conns /\ conn \in [Conns -> ConnectionStorage] /\ TypeOK
  BY Types DEF Open, IInv
<1>2. /\ cs[c] = x /\ \A d \in Conns \ {c} : cs[d] = conn[d]
  BY <1>1
<1>3. BeforeUpdate(cs, c)
  BY PreparedIsBefore
<1>a. r = UpdateDesiredBw(cs, c)
  OBVIOUS
<1> HIDE DEF cs
<1>4. ASSUME NEW d \in Conns \ {c} PROVE OnTime(conn[d], FALSE)
  <2>1. Timed(d) /\ d # event
    BY Constants DEF TimesOk
  <2>2. (d = event) = FALSE
    BY <2>1
  <2> QED BY <2>1, <2>2 DEF Timed
<1>5. \A d \in Conns : cs[d].state \in {"IDLE", "BUSY"} => Fine(cs[d])
  BY <1>2, <1>4, OnTimeIsFine
<1>6. \A d \in Conns : Reshared(cs[d], r[d])
  BY <1>1, <1>3, <1>5, <1>a, UpdateTimes
<1>7. ASSUME NEW d \in Conns \ {c} PROVE OnTime(r[d], FALSE) /\ Weight(r[d]) <= Weight(conn[d])
  <2>1. Reshared(conn[d], r[d])
    BY <1>2, <1>6
  <2> QED BY <1>4, <2>1, SameOnTime DEF Reshared, FreshTimes
<1>8. Weight(x) = Weight(conn[c])
  BY DEF SameClock, Weight, Allowed
<1>9. Reshared(x, r[c])
  BY <1>1, <1>2, <1>6
<1> QED BY <1>7, <1>8, <1>9 DEF Reshared

LEMMA NextRoundTimes ==
  ASSUME IInv, EventsOk, WindowLimits, TimesOk, NEW c \in Conns, NextRound(c)
  PROVE  TimesOk'
<1> DEFINE x == [conn[c] EXCEPT !.ssState = "SS"]
<1>1. /\ event = c /\ conn[c].state = "BUSY" /\ conn[c].ssState \in {"NEW", "SS"}
      /\ conn' = UpdateDesiredBw([conn EXCEPT ![c].ssState = "SS"], c) /\ event' = None /\ NoTime
  BY DEF NextRound, NoTime
<1>2. conn \in [Conns -> ConnectionStorage] /\ conn[c] \in ConnectionStorage /\ c \in Open
  BY <1>1, Types DEF Open
<1>3. /\ x \in ConnectionStorage /\ x.ssState = "SS" /\ x.transfers = conn[c].transfers
      /\ x.state = "BUSY" /\ x.cwnd = conn[c].cwnd /\ x.desiredBw = conn[c].desiredBw
      /\ SameClock(conn[c], x)
  BY <1>1, <1>2 DEF ConnectionStorage, SameClock
<1>4. [conn EXCEPT ![c].ssState = "SS"] = [conn EXCEPT ![c] = x]
  BY <1>2
<1> HIDE DEF x
<1>5. Prepared(conn[c], x)
  <2>1. Ready(conn[c]) /\ WindowOk(conn[c])
    BY SharesOf
  <2> QED BY <1>1, <1>3, <2>1 DEF Prepared, Ready, WindowOk, SameClock
<1>6. Limited(conn[c]) /\ conn[c].currTransferFinishTime <= now
  <2>1. OnTime(conn[c], c = event) /\ (c = event) = TRUE
    BY <1>1 DEF TimesOk, Timed
  <2> QED BY <2>1 DEF OnTime
<1>7. Limited(x) /\ x.currTransferFinishTime <= now
  BY <1>3, <1>6 DEF SameClock, Limited, Since, Allowed
<1>8. /\ \A d \in Conns \ {c} : OnTime(conn'[d], FALSE) /\ Weight(conn'[d]) <= Weight(conn[d])
      /\ Reshared(x, conn'[c]) /\ Weight(conn'[c]) <= Weight(conn[c])
  BY <1>1, <1>2, <1>3, <1>4, <1>5, <1>7, UpdatedTimes DEF Fine
<1>9. OnTime(conn'[c], FALSE)
  <2>1. CASE SameTimes(x, conn'[c])
    <3>1. x.nextEvent = None
      BY <1>1, <1>3 DEF EventsOk, EventOk, SameClock
    <3>2. Progressing(x) /\ RoundDue(x)
      BY <1>3, <1>7, <3>1 DEF RoundDue, Progressing
    <3>3. OnTime(x, FALSE)
      BY <1>7, <3>2 DEF OnTime
    <3> QED BY <2>1, <3>3, SameOnTime
  <2>2. CASE FreshTimes(conn'[c])
    BY <2>2 DEF FreshTimes
  <2> QED BY <1>8, <2>1, <2>2 DEF Reshared
<1>10. \A d \in Conns : (d = event') = FALSE
  BY <1>1, Constants
<1>11. IInv'
  BY NextRoundInv
<1> QED BY <1>1, <1>8, <1>9, <1>10, <1>11, TimesKept

LEMMA AddTransferTimes ==
  ASSUME IInv, WindowLimits, TimesOk, NEW c \in Conns, NEW t \in Transfers, AddTransfer(c, t)
  PROVE  TimesOk'
<1> DEFINE s == conn[c]
           longer == Append(s.transfers, t)
           more == s.outstandingTransferBytesSum + outstandingBytes[t]
           x == [s EXCEPT !.state = "BUSY", !.transfers = longer,
                          !.outstandingTransferBytesSum = more]
<1>1. /\ event = None /\ s.state \in {"IDLE", "BUSY"} /\ tState[t] = "ENABLED"
      /\ conn' = UpdateDesiredBw([conn EXCEPT ![c].state = "BUSY", ![c].transfers = Append(@, t),
                                   ![c].outstandingTransferBytesSum = @ + outstandingBytes[t]], c)
      /\ event' = None /\ NoTime
  BY DEF AddTransfer, NoTime
<1>2. /\ conn \in [Conns -> ConnectionStorage] /\ s \in ConnectionStorage /\ c \in Open
      /\ s.transfers \in Seq(Transfers) /\ more \in Nat
  BY <1>1, Types DEF Open
<1>3. [conn EXCEPT ![c].state = "BUSY", ![c].transfers = Append(@, t),
                   ![c].outstandingTransferBytesSum = @ + outstandingBytes[t]]
        = [conn EXCEPT ![c] = x]
  BY <1>2
<1>4. /\ longer \in Seq(Transfers) /\ longer # <<>>
      /\ s.transfers # <<>> => Head(longer) = Head(s.transfers)
  <2>1. t \notin ToSet(s.transfers) /\ IsInjective(s.transfers)
    <3>1. tConn[t] = None /\ None \notin Conns
      BY <1>1, Constants DEF IInv, PipelinesOk
    <3> QED BY <3>1, Types DEF IInv, PipelinesOk
  <2> QED BY <1>2, <2>1, AppendToInjective
<1>a. conn[c] = s
  OBVIOUS
<1> HIDE DEF longer, more
<1>5. /\ x \in ConnectionStorage /\ x.state = "BUSY" /\ x.transfers = longer
      /\ x.ssState = s.ssState /\ x.cwnd = s.cwnd /\ x.desiredBw = s.desiredBw
      /\ SameClock(s, x)
  BY <1>2, <1>4 DEF ConnectionStorage, SameClock
<1> HIDE DEF x, s
<1>6. Prepared(s, x)
  <2>1. Ready(s) /\ WindowOk(s)
    BY <1>a, SharesOf
  <2> QED BY <1>4, <1>5, <2>1 DEF Prepared, Ready, WindowOk, SameClock
<1>7. OnTime(s, FALSE) /\ (s.state = "BUSY" => s.transfers # <<>>)
  <2>1. OnTime(s, c = event) /\ (c = event) = FALSE
    BY <1>1, <1>a, Constants DEF TimesOk, Timed
  <2>2. Ready(s)
    BY <1>a, SharesOf
  <2> QED BY <2>1, <2>2 DEF Ready
<1>8. Limited(x)
  BY <1>5, <1>7 DEF OnTime, SameClock, Limited, Since, Allowed
<1>9. s.state = "BUSY" => (Progressing(x) <=> Progressing(s)) /\ Left(x) = Left(s)
  BY <1>4, <1>5, <1>7 DEF Progressing, Left
<1>10. Fine(x)
  <2>1. Fine(s)
    BY <1>7, <1>a, OnTimeIsFine
  <2>2. CASE s.state = "BUSY"
    BY <1>5, <1>8, <1>9, <2>1, <2>2 DEF Fine, SameClock
  <2>3. CASE s.state # "BUSY"
    BY <1>5, <1>8, <2>1, <2>3 DEF Fine, Progressing, SameClock
  <2> QED BY <2>2, <2>3
<1>11. /\ \A d \in Conns \ {c} : OnTime(conn'[d], FALSE) /\ Weight(conn'[d]) <= Weight(conn[d])
       /\ Reshared(x, conn'[c]) /\ Weight(conn'[c]) <= Weight(conn[c])
  BY <1>1, <1>2, <1>3, <1>5, <1>6, <1>10, <1>a, UpdatedTimes
<1>12. IInv'
  BY AddTransferInv
<1>13. OnTime(conn'[c], FALSE)
  <2>1. CASE SameTimes(x, conn'[c]) /\ s.state = "BUSY"
    <3>1. OnTime(x, FALSE)
      BY <1>5, <1>7, <1>8, <1>9, <2>1
         DEF OnTime, SameClock, Due, RoundDue, Target, Since, Allowed
    <3> QED BY <2>1, <3>1, SameOnTime
  <2>2. CASE SameTimes(x, conn'[c]) /\ s.state # "BUSY"
    <3>1. ~Progressing(s)
      BY <2>2 DEF Progressing
    <3>2. s.availableBw = 0
      BY <1>a, <3>1, SharesOf
    <3>3. conn'[c].availableBw = 0
      BY <1>5, <2>2, <3>2 DEF SameTimes, SameClock
    <3>4. ShareOk(conn'[c])
      <4>1. (\A d \in Conns : ShareOk(conn[d]))'
        BY <1>12 DEF IInv, SharesOk
      <4> QED BY <4>1 DEF ShareOk, Progressing
    <3>5. ~Progressing(conn'[c])
      BY <3>3, <3>4 DEF ShareOk
    <3>6. conn'[c].currTransferFinishTime <= now /\ Limited(conn'[c])
      BY <1>5, <1>7, <1>8, <2>2, <3>1
         DEF SameTimes, SameClock, OnTime, Limited, Since, Allowed
    <3> QED BY <3>5, <3>6 DEF OnTime
  <2>3. CASE FreshTimes(conn'[c])
    BY <2>3 DEF FreshTimes
  <2> QED BY <1>11, <2>1, <2>2, <2>3 DEF Reshared
<1>14. \A d \in Conns : (d = event') = FALSE
  BY <1>1, Constants
<1> QED BY <1>1, <1>11, <1>12, <1>13, <1>14, TimesKept

\* The event of a connection whose transfer is done is its deadline.
LEMMA DoneTimes ==
  ASSUME IInv, TimesOk, NEW c \in Conns, event = c, TransferDone(c)
  PROVE  /\ Limited(conn[c]) /\ Settled(conn[c]) /\ conn[c].currTransferFinishTime <= now
         /\ Progressing(conn[c]) /\ c \in Open
<1>1. OnTime(conn[c], c = event) /\ (c = event) = TRUE
  BY DEF TimesOk, Timed
<1>2. Progressing(conn[c]) /\ c \in Open
  BY DoneTransfer DEF Done
<1>3. Left(conn[c]) = 0
  BY DEF TransferDone, Left
<1> QED BY <1>1, <1>2, <1>3 DEF OnTime

LEMMA GoIdleTimes ==
  ASSUME IInv, WindowLimits, TimesOk, NEW c \in Conns, GoIdle(c)
  PROVE  TimesOk'
<1> DEFINE x == [conn[c] EXCEPT !.state = "IDLE", !.transfers = <<>>, !.idleTimestamp = now]
<1>1. /\ event = c /\ TransferDone(c)
      /\ conn' = UpdateDesiredBw([conn EXCEPT ![c].state = "IDLE", ![c].transfers = <<>>,
                                              ![c].idleTimestamp = now], c)
      /\ event' = None /\ NoTime
  BY DEF GoIdle, NoTime
<1>2. conn \in [Conns -> ConnectionStorage] /\ conn[c] \in ConnectionStorage /\ now \in Nat
  BY Types
<1>3. /\ Limited(conn[c]) /\ conn[c].currTransferFinishTime <= now /\ c \in Open
      /\ Progressing(conn[c])
  BY <1>1, DoneTimes
<1>4. [conn EXCEPT ![c].state = "IDLE", ![c].transfers = <<>>, ![c].idleTimestamp = now]
        = [conn EXCEPT ![c] = x]
  BY <1>2
<1>5. x \in ConnectionStorage
  <2>1. <<>> \in Seq(Transfers)
    OBVIOUS
  <2> QED BY <1>2, <2>1 DEF ConnectionStorage
<1>6. /\ x.state = "IDLE" /\ x.transfers = <<>> /\ x.ssState = conn[c].ssState
      /\ x.cwnd = conn[c].cwnd /\ x.desiredBw = conn[c].desiredBw /\ SameClock(conn[c], x)
  BY <1>2 DEF ConnectionStorage, SameClock
<1> HIDE DEF x
<1>7. Prepared(conn[c], x)
  <2>1. Ready(conn[c]) /\ WindowOk(conn[c])
    BY SharesOf
  <2> QED BY <1>5, <1>6, <2>1 DEF Prepared, Ready, WindowOk, SameClock
<1>8. Limited(x) /\ x.currTransferFinishTime <= now
  BY <1>3, <1>6 DEF SameClock, Limited, Since, Allowed
<1>9. /\ \A d \in Conns \ {c} : OnTime(conn'[d], FALSE) /\ Weight(conn'[d]) <= Weight(conn[d])
      /\ Reshared(x, conn'[c]) /\ Weight(conn'[c]) <= Weight(conn[c])
  BY <1>1, <1>3, <1>4, <1>6, <1>7, <1>8, UpdatedTimes, ZenonT(60) DEF Fine
<1>10. OnTime(conn'[c], FALSE)
  <2>1. ~Progressing(x) /\ OnTime(x, FALSE)
    BY <1>6, <1>8 DEF Progressing, OnTime
  <2> QED BY <1>9, <2>1, SameOnTime DEF Reshared, FreshTimes
<1>11. \A d \in Conns : (d = event') = FALSE
  BY <1>1, Constants
<1>12. IInv'
  BY GoIdleInv
<1> QED BY <1>1, <1>9, <1>10, <1>11, <1>12, TimesKept

LEMMA StartNextTimes ==
  ASSUME IInv, WindowLimits, TimesOk, NEW c \in Conns, StartNext(c)
  PROVE  TimesOk'
<1> DEFINE pipe == conn[c].transfers
           rest == Tail(pipe)
           x == [conn[c] EXCEPT !.transfers = rest]
           cs == [conn EXCEPT ![c] = x]
           r == UpdateDesiredBw(cs, c)
<1>1. conn \in [Conns -> ConnectionStorage] /\ conn[c] \in ConnectionStorage /\ TypeOK
  BY Types DEF IInv
<1>2. [conn EXCEPT ![c].transfers = Tail(@)] = cs
  BY <1>1
<1>3. /\ event = c /\ TransferDone(c) /\ Len(pipe) > 1
      /\ conn' = [r EXCEPT ![c] = ScheduleNextEvent(@)]
      /\ event' = None /\ NoTime
  BY <1>2 DEF StartNext, NoTime
<1>4. /\ Limited(conn[c]) /\ Settled(conn[c]) /\ conn[c].currTransferFinishTime <= now
      /\ Progressing(conn[c]) /\ c \in Open
  BY <1>3, DoneTimes
<1>5. rest \in Seq(Transfers) /\ rest # <<>>
  <2>1. rest \in Seq(Transfers) /\ Len(rest) = Len(pipe) - 1 /\ pipe \in Seq(Transfers)
    BY <1>3, DoneTransfer DEF Done
  <2> HIDE DEF rest, pipe
  <2> QED BY <1>3, <2>1
<1> HIDE DEF rest
<1>6. /\ x \in ConnectionStorage /\ x.transfers = rest /\ x.state = conn[c].state
      /\ x.ssState = conn[c].ssState /\ x.cwnd = conn[c].cwnd /\ x.desiredBw = conn[c].desiredBw
      /\ SameClock(conn[c], x)
  BY <1>1, <1>5 DEF ConnectionStorage, SameClock
<1>7. cs[c] = x
  BY <1>1
<1> HIDE DEF x, pipe
<1>8. x.state = "BUSY" /\ Progressing(x) /\ Ready(x)
  BY <1>4, <1>5, <1>6 DEF Progressing, Ready
<1>9. Prepared(conn[c], x)
  <2>1. WindowOk(conn[c])
    BY SharesOf
  <2> QED BY <1>6, <1>8, <2>1 DEF Prepared, WindowOk, SameClock
<1>10. Limited(x) /\ Settled(x) /\ x.currTransferFinishTime <= now
  BY <1>4, <1>6 DEF SameClock, Limited, Settled, Since, Allowed
<1>11. /\ \A d \in Conns \ {c} : OnTime(r[d], FALSE) /\ Weight(r[d]) <= Weight(conn[d])
       /\ Reshared(x, r[c]) /\ Weight(x) = Weight(conn[c])
  BY <1>3, <1>4, <1>6, <1>9, <1>10, UpdatedTimes DEF Fine
<1>12. AfterUpdate(cs, r)
  <2>1. BeforeUpdate(cs, c)
    BY <1>4, <1>9, PreparedIsBefore
  <2> HIDE DEF cs
  <2> QED BY <1>1, <2>1, UpdateProperties
<1> HIDE DEF r, cs
<1>13. /\ r \in [Conns -> ConnectionStorage] /\ Ready(r[c]) /\ Progressing(r[c])
       /\ r[c].availableBw > 0
  <2>1. r \in [Conns -> ConnectionStorage] /\ Continued(x, r[c]) /\ ShareOk(r[c])
    BY <1>7, <1>12 DEF AfterUpdate, SharesOk
  <2>2. Progressing(r[c]) /\ Ready(r[c])
    BY <1>8, <2>1 DEF Continued, Untouched, Progressing, Ready
  <2> QED BY <2>1, <2>2 DEF ShareOk
<1>14. FreshTimes(ScheduleNextEvent(r[c])) /\ Weight(ScheduleNextEvent(r[c])) <= Weight(x)
  BY <1>1, <1>6, <1>10, <1>11, <1>13, StartTimes
<1>15. conn'[c] = ScheduleNextEvent(r[c]) /\ \A d \in Conns \ {c} : conn'[d] = r[d]
  BY <1>3, <1>13
<1>16. \A d \in Conns : (d = event') = FALSE
  BY <1>3, Constants
<1>17. IInv'
  BY StartNextInv
<1>18. \A d \in Conns : OnTime(conn'[d], FALSE) /\ Weight(conn'[d]) <= Weight(conn[d])
  BY <1>11, <1>14, <1>15 DEF FreshTimes
<1> QED BY <1>3, <1>16, <1>17, <1>18, TimesKept

LEMMA ConnectTimes ==
  ASSUME IInv, TimesOk, NEW c \in Conns, NEW t \in Transfers, Connect(c, t)
  PROVE  TimesOk'
<1>1. event = None /\ event' = None /\ conn[c].state = "NONE" /\ NoTime /\ now \in Nat
  BY Types DEF Connect, NoTime
<1>2. conn \in [Conns -> ConnectionStorage] /\ conn[c] \in ConnectionStorage /\ TypeOK
  BY Types DEF IInv
<1>3. /\ conn'[c].ssState = conn[c].ssState /\ conn'[c].availableBw = conn[c].availableBw
      /\ conn'[c].currTransferFinishTime = conn[c].currTransferFinishTime
      /\ conn'[c].lastBwUpdate = now
      /\ conn'[c].lastBwUpdateTransferredBytesSum = conn[c].lastBwUpdateTransferredBytesSum
      /\ conn'[c].transferredBytesSum = conn[c].transferredBytesSum
      /\ \A d \in Conns \ {c} : conn'[d] = conn[d]
  <2>1. PICK round \in Handshakes :
          conn' = [conn EXCEPT ![c].state = "BUSY", ![c].transfers = <<t>>,
                            ![c].outstandingTransferBytesSum = outstandingBytes[t],
                            ![c].lastBwUpdate = now, ![c].nextEvent = now + round * RTT]
    BY DEF Connect
  <2> DEFINE x == now + round * RTT
             y == [conn[c] EXCEPT !.state = "BUSY", !.transfers = <<t>>,
                                  !.outstandingTransferBytesSum = outstandingBytes[t],
                                  !.lastBwUpdate = now, !.nextEvent = x]
  <2>2. conn'[c] = y /\ \A d \in Conns \ {c} : conn'[d] = conn[d]
    BY <1>2, <2>1
  <2> HIDE DEF x
  <2> QED BY <1>2, <2>2 DEF ConnectionStorage
<1>4. \A d \in Conns : OnTime(conn[d], FALSE) /\ (d = event') = FALSE
  BY <1>1, Constants DEF TimesOk, Timed
<1>5. ~Progressing(conn[c]) /\ ~Progressing(conn'[c]) /\ conn[c].availableBw = 0
  <2>1. conn[c].ssState = "NEW"
    BY <1>1 DEF IInv, PipelinesOk
  <2> QED BY <1>3, <2>1, SharesOf DEF Progressing
<1>6. Since(conn[c]) \in Int /\ conn[c].lastBwUpdate \in Nat
  BY <1>2, TimeTypes
<1>7. /\ \A time \in Int : Allowed(conn[c], time) = 0
      /\ Allowed(conn'[c], now) = 0 /\ Since(conn'[c]) = Since(conn[c])
  BY <1>1, <1>3, <1>5, <1>6 DEF Allowed, Since
<1>8. Limited(conn'[c]) /\ conn'[c].currTransferFinishTime <= now
  BY <1>1, <1>3, <1>4, <1>5, <1>7 DEF OnTime, Limited
<1>9. Weight(conn'[c]) = Weight(conn[c])
  BY <1>1, <1>3, <1>7 DEF Weight
<1>10. ASSUME NEW d \in Conns PROVE OnTime(conn'[d], FALSE) /\ Weight(conn'[d]) <= Weight(conn[d])
  <2>1. Weight(conn[d]) \in Int
    BY <1>2, WeightType
  <2>2. CASE d = c
    <3>1. OnTime(conn'[c], FALSE)
      BY <1>5, <1>8 DEF OnTime
    <3>2. Weight(conn'[c]) <= Weight(conn[c])
      BY <1>9, <2>1, <2>2
    <3> QED BY <2>2, <3>1, <3>2
  <2>3. CASE d # c
    <3>1. conn'[d] = conn[d] /\ OnTime(conn[d], FALSE)
      BY <1>3, <1>4, <2>3
    <3>2. Weight(conn'[d]) <= Weight(conn[d])
      BY <2>1, <3>1
    <3> QED BY <3>1, <3>2
  <2> QED BY <2>2, <2>3
<1>11. IInv'
  BY ConnectInv
<1> QED BY <1>1, <1>4, <1>10, <1>11, TimesKept

LEMMA ClosedTimes ==
  ASSUME IInv, TimesOk, NEW c \in Conns, CloseIdle(c) \/ TimeOut(c)
  PROVE  TimesOk'
<1>1. /\ event \in {c, None} /\ event' = None /\ conn[c].state = "IDLE" /\ NoTime
      /\ conn' = [conn EXCEPT ![c] = Closed(@)] /\ connections' = RemoveFirst(connections, c)
      /\ UNCHANGED <<now, tState, outstandingBytes, tConn, size>>
  BY DEF CloseIdle, TimeOut, NoTime
<1>2. conn \in [Conns -> ConnectionStorage] /\ TypeOK
  BY Types DEF IInv
<1>3. /\ conn'[c] = [conn[c] EXCEPT !.state = "CLOSED", !.nextEvent = None]
      /\ \A d \in Conns \ {c} : conn'[d] = conn[d]
  BY <1>1, <1>2 DEF Closed
<1>4. /\ conn'[c].availableBw = conn[c].availableBw /\ conn'[c].state = "CLOSED"
      /\ conn'[c].currTransferFinishTime = conn[c].currTransferFinishTime
      /\ conn'[c].lastBwUpdate = conn[c].lastBwUpdate
      /\ conn'[c].lastBwUpdateTransferredBytesSum = conn[c].lastBwUpdateTransferredBytesSum
      /\ conn'[c].transferredBytesSum = conn[c].transferredBytesSum
  BY <1>2, <1>3 DEF ConnectionStorage
<1>5. OnTime(conn'[c], FALSE) /\ Weight(conn'[c]) = Weight(conn[c])
  <2>1. ~Progressing(conn[c]) /\ ~Progressing(conn'[c])
    BY <1>1, <1>4 DEF Progressing
  <2>2. OnTime(conn[c], c = event)
    BY DEF TimesOk, Timed
  <2>3. Limited(conn'[c]) /\ conn'[c].currTransferFinishTime <= now
    BY <1>4, <2>1, <2>2 DEF OnTime, Limited, Since, Allowed
  <2> QED BY <1>4, <2>1, <2>3 DEF OnTime, Weight, Allowed
<1>6. \A d \in Conns : (d = event') = FALSE
  BY <1>1, Constants
<1>7. ASSUME NEW d \in Conns PROVE OnTime(conn'[d], FALSE) /\ Weight(conn'[d]) <= Weight(conn[d])
  <2>1. Weight(conn[d]) \in Int
    BY <1>2, WeightType
  <2>2. CASE d = c
    <3>1. Weight(conn'[c]) <= Weight(conn[c])
      BY <1>5, <2>1, <2>2
    <3> QED BY <1>5, <2>2, <3>1
  <2>3. CASE d # c
    <3>1. (d = event) = FALSE /\ OnTime(conn[d], d = event)
      BY <1>1, <2>3, Constants DEF TimesOk, Timed
    <3>2. OnTime(conn[d], FALSE) /\ conn'[d] = conn[d]
      BY <1>3, <2>3, <3>1
    <3>3. Weight(conn'[d]) <= Weight(conn[d])
      BY <2>1, <3>2
    <3> QED BY <3>2, <3>3
  <2> QED BY <2>2, <2>3
<1>8. IInv'
  BY <1>1, ClosedInv
<1> QED BY <1>1, <1>6, <1>7, <1>8, TimesKept

\* What a connection gets until time is what its share allows, and all that is left at its
\* deadline.
Gains(s, b, time) ==
  /\ b \in Nat /\ (Progressing(s) => b <= Left(s))
  /\ (Since(s) + b) * Second <= Allowed(s, time)
  /\ Due(s) /\ s.nextEvent = time /\ Progressing(s) => b = Left(s)

LEMMA TickBytesAllowed ==
  ASSUME IInv, NEW c \in Conns, Progressing(conn[c]), NEW time \in Nat, time >= now,
         Limited(conn[c])
  PROVE  IF time = conn[c].currTransferFinishTime THEN TickBytes(conn[c], time) = Left(conn[c])
         ELSE (Since(conn[c]) + TickBytes(conn[c], time)) * Second <= Allowed(conn[c], time)
<1> DEFINE s == conn[c]
           out == Left(s)
           since == Since(s)
           a == s.availableBw * (time - now)
           d == Allowed(s, time)
           e == Allowed(s, now)
           naive == a \div Second
           allowed == s.lastBwUpdateTransferredBytesSum - s.transferredBytesSum + d \div Second
           low == Min({naive, allowed})
           bytes == Max({0, low})
           got == TickBytes(s, time)
<1>1. got = IF time = s.currTransferFinishTime \/ bytes > out THEN out ELSE bytes
  BY DEF TickBytes, Left, Allowed
<1>2. s \in ConnectionStorage /\ TypeOK /\ s.state = "BUSY" /\ Ready(s)
  BY SharesOf DEF IInv, TypeOK, Progressing
<1>3. /\ out \in Nat /\ since \in Int /\ now \in Nat /\ s.availableBw \in Nat
      /\ s.lastBwUpdate \in Nat /\ s.lastBwUpdateTransferredBytesSum \in Nat
      /\ s.transferredBytesSum \in Nat /\ Second \in Nat \ {0}
      /\ s.lastBwUpdate <= now /\ since * Second <= e
  BY <1>2, TimeTypes, Constants DEF Limited
<1>4. a \in Int /\ d \in Nat /\ e \in Nat /\ e <= d
  <2>1. time - s.lastBwUpdate \in Nat /\ now - s.lastBwUpdate \in Nat /\ time - now \in Nat
        /\ now - s.lastBwUpdate <= time - s.lastBwUpdate
    BY <1>3
  <2> QED BY <1>3, <2>1 DEF Allowed
<1>5. allowed = d \div Second - since
  <2>1. d \div Second \in Nat
    BY <1>3, <1>4, Division
  <2> DEFINE k == d \div Second
  <2> HIDE DEF k
  <2>2. k \in Nat
    BY <2>1 DEF k
  <2>3. s.lastBwUpdateTransferredBytesSum - s.transferredBytesSum + k = k - since
    BY <1>3, <2>2 DEF Since
  <2> QED BY <2>3 DEF k
<1>6. naive \in Int
  <2> HIDE DEF a
  <2>1. \A k \in Int : k \div Second \in Int
    BY <1>3
  <2> QED BY <1>4, <2>1
<1> HIDE DEF s, out, since, a, d, e, naive, allowed, got
<1> DEFINE k == d \div Second
<1>7. k \in Nat /\ k * Second <= d
  BY <1>3, <1>4, Division
<1>8. allowed = k - since /\ allowed \in Int
  BY <1>3, <1>5, <1>7
<1> HIDE DEF k
<1>9. low \in Int /\ low <= allowed
  BY <1>6, <1>8 DEF Min
<1> HIDE DEF low
<1>10. bytes \in Nat /\ (bytes = 0 \/ bytes <= allowed)
  BY <1>9, <1>8 DEF Max
<1> HIDE DEF bytes
<1>11. ASSUME time # s.currTransferFinishTime PROVE (since + got) * Second <= d
  <2>1. got \in Nat /\ got <= bytes
    BY <1>1, <1>3, <1>10, <1>11
  <2>2. CASE got = 0
    BY <1>3, <1>4, <2>2
  <2>3. CASE got # 0
    <3>1. got <= k - since
      BY <1>8, <1>10, <1>3, <1>7, <2>1, <2>3
    <3>2. since + got <= k
      BY <1>3, <1>7, <2>1, <3>1
    <3> DEFINE sum == since + got
    <3>3. sum \in Int /\ sum <= k
      BY <1>3, <2>1, <3>2
    <3> HIDE DEF sum
    <3>4. sum * Second <= k * Second
      BY <1>3, <1>7, <3>3
    <3>5. sum * Second <= d
      BY <1>3, <1>4, <1>7, <3>3, <3>4
    <3> QED BY <3>5 DEF sum
  <2> QED BY <2>2, <2>3
<1>12. time = s.currTransferFinishTime => got = out
  BY <1>1
<1> QED BY <1>11, <1>12 DEF s, out, since, d, got

LEMMA GainsAtTick ==
  ASSUME IInv, NEW c \in Conns, NEW time \in Nat, time >= now, OnTime(conn[c], FALSE)
  PROVE  Gains(conn[c], Got(c, time), time)
<1> DEFINE s == conn[c]
           b == Got(c, time)
<1>1. s \in ConnectionStorage /\ TypeOK /\ now \in Nat /\ Limited(s)
  BY Types DEF IInv, TypeOK, OnTime
<1>2. /\ s.lastBwUpdate \in Nat /\ s.availableBw \in Nat /\ Since(s) \in Int
      /\ s.currTransferFinishTime \in Int /\ s.lastBwUpdate <= now
      /\ Since(s) * Second <= Allowed(s, now) /\ Second \in Nat \ {0}
  BY <1>1, TimeTypes, Constants DEF Limited
<1>3. Allowed(s, now) <= Allowed(s, time) /\ Allowed(s, now) \in Int /\ Allowed(s, time) \in Int
  <2>1. time - s.lastBwUpdate \in Nat /\ now - s.lastBwUpdate \in Nat
        /\ now - s.lastBwUpdate <= time - s.lastBwUpdate
    BY <1>1, <1>2
  <2> QED BY <1>2, <2>1 DEF Allowed
<1>4. (Since(s) + 0) * Second <= Allowed(s, time)
  <2> DEFINE x == Since(s)
             y == Allowed(s, now)
             z == Allowed(s, time)
  <2>1. x \in Int /\ y \in Int /\ z \in Int /\ x * Second <= y /\ y <= z /\ x + 0 = x
    BY <1>2, <1>3
  <2> HIDE DEF x, y, z
  <2>2. x * Second \in Int
    BY <1>2, <2>1
  <2>3. (x + 0) * Second <= z
    BY <2>1, <2>2
  <2> QED BY <2>3 DEF x, z
<1>5. CASE ~Progressing(s)
  <2>1. b = 0
    BY <1>5 DEF Got
  <2> QED BY <1>4, <1>5, <2>1 DEF Gains
<1>6. CASE Progressing(s)
  <2>1. Left(s) \in Nat /\ Target(s) \in Int
    BY <1>1, <1>6, SharesOf, TimeTypes DEF Progressing
  <2>2. Due(s) \/ RoundDue(s)
    BY <1>6 DEF OnTime
  <2>3. CASE time = now
    <3>1. b = 0
      BY <2>3 DEF Got
    <3>2. Due(s) /\ s.nextEvent = time => Left(s) = 0
      BY <2>3 DEF Due
    <3> QED BY <1>4, <2>1, <3>1, <3>2 DEF Gains
  <2>4. CASE time # now
    <3>1. b = TickBytes(s, time) /\ time > now
      BY <1>1, <1>6, <2>4 DEF Got
    <3>2. b \in 0 .. Left(s)
      BY <1>6, <3>1, TickBytesBound DEF Left
    <3>3. IF time = s.currTransferFinishTime THEN b = Left(s)
          ELSE (Since(s) + b) * Second <= Allowed(s, time)
      BY <1>1, <1>6, <3>1, TickBytesAllowed
    <3>4. Due(s) /\ s.nextEvent = time => b = Left(s)
      BY <3>3 DEF Due
    <3>5. (Since(s) + b) * Second <= Allowed(s, time)
      <4>1. CASE time = s.currTransferFinishTime
        <5>1. Due(s)
          BY <1>1, <2>2, <3>1, <4>1 DEF RoundDue
        <5>2. Target(s) = Allowed(s, time) /\ b = Left(s)
          BY <3>3, <4>1, <5>1 DEF Due
        <5> QED BY <1>3, <5>2 DEF Target
      <4>2. CASE time # s.currTransferFinishTime
        BY <3>3, <4>2
      <4> QED BY <4>1, <4>2
    <3>6. b \in Nat /\ b <= Left(s)
      BY <2>1, <3>2
    <3> QED BY <3>4, <3>5, <3>6 DEF Gains
  <2> QED BY <2>3, <2>4
<1> QED BY <1>5, <1>6

\* What a tick leaves alone as well.
ShareKept(d) ==
  /\ conn'[d].lastBwUpdate = conn[d].lastBwUpdate
  /\ conn'[d].lastBwUpdateTransferredBytesSum = conn[d].lastBwUpdateTransferredBytesSum

LEMMA TickTimes ==
  ASSUME IInv, IInv', NEW time \in Nat, Elapses(time), NEW d \in Conns, OnTime(conn[d], FALSE),
         Moves(conn[d], conn'[d], Got(d, time)), EventTaken(d), ShareKept(d)
  PROVE  Timed(d)'
<1> DEFINE s == conn[d]
           r == conn'[d]
           b == Got(d, time)
           left == outstandingBytes'[Head(r.transfers)]
           since == Since(s)
           A == Allowed(s, time)
<1>1. /\ event = None /\ time >= now /\ now' = time /\ outstandingBytes' = TickedBytes(time)
      /\ s \in ConnectionStorage /\ TypeOK /\ now \in Nat
      /\ d = event' => s.nextEvent = time
      /\ s.nextEvent # None /\ d \in Open => s.nextEvent >= time
  BY Types, Constants DEF Elapses, NoneBefore, Pending, IInv
<1>2. Gains(s, b, time)
  BY <1>1, GainsAtTick
<1>3. /\ r.state = s.state /\ r.ssState = s.ssState /\ r.transfers = s.transfers
      /\ r.availableBw = s.availableBw /\ r.transferredBytesSum = s.transferredBytesSum + b
      /\ r.lastBwUpdate = s.lastBwUpdate
      /\ r.lastBwUpdateTransferredBytesSum = s.lastBwUpdateTransferredBytesSum
      /\ r.currTransferFinishTime = s.currTransferFinishTime
      /\ r.nextEvent = IF d = event' THEN None ELSE s.nextEvent
      /\ Progressing(r) <=> Progressing(s)
  BY DEF Moves, EventTaken, ShareKept, Progressing
<1>4. /\ since \in Int /\ b \in Nat /\ s.lastBwUpdate \in Nat /\ s.availableBw \in Nat
      /\ s.currTransferFinishTime \in Int /\ s.nextEvent \in Int /\ s.lastBwUpdate <= time
      /\ s.transferredBytesSum \in Nat /\ s.lastBwUpdateTransferredBytesSum \in Nat
      /\ Second \in Nat \ {0} /\ RTT \in Nat
  <2>1. s.lastBwUpdate <= now /\ s.lastBwUpdate \in Nat
    BY <1>1, TimeTypes DEF OnTime, Limited
  <2> QED BY <1>1, <1>2, <2>1, TimeTypes, Constants DEF Gains
<1>5. Since(r) = since + b /\ Allowed(r, time) = A /\ A \in Int
      /\ \A t \in Int : Allowed(r, t) = Allowed(s, t) /\ Allowed(s, t) \in Int
  BY <1>3, <1>4 DEF Since, Allowed
<1>6. Limited(conn[d])'
  BY <1>1, <1>2, <1>3, <1>4, <1>5 DEF Limited, Gains, Since, Allowed
<1>7. CASE ~Progressing(s)
  <2>1. r.currTransferFinishTime <= time
    BY <1>1, <1>3, <1>4, <1>7 DEF OnTime
  <2> QED BY <1>1, <1>3, <1>6, <1>7, <2>1 DEF Timed, OnTime, Progressing
<1>8. CASE Progressing(s)
  <2>1. Left(s) \in Nat /\ d \in Open /\ b <= Left(s)
    BY <1>1, <1>2, <1>8, SharesOf, TimeTypes DEF Progressing, Open, Gains
  <2>2. left = Left(s) - b
    <3> DEFINE h == Head(s.transfers)
    <3>1. h \in Transfers /\ s.transfers # <<>>
      BY <1>8, SharesOf, HeadIsTransfer DEF Progressing, Ready
    <3>2. tConn[h] = d /\ tState[h] = "ACTIVE"
      BY <3>1 DEF IInv, PipelinesOk
    <3>3. left = TickedBytes(time)[h]
      BY <1>1, <1>3
    <3>4. CASE time = now
      <4>1. b = 0 /\ TickedBytes(time)[h] = outstandingBytes[h]
        BY <3>4 DEF Got, TickedBytes
      <4> QED BY <2>1, <3>3, <4>1 DEF Left
    <3>5. CASE time # now
      <4>1. b = TickBytes(conn[d], time)
        BY <1>8, <3>5 DEF Got
      <4> QED BY <1>8, <3>1, <3>2, <3>3, <3>5, <4>1 DEF TickedBytes, Active, Left
    <3> QED BY <3>4, <3>5
  <2>3. (Since(r) + left) * Second = Target(s)
    <3>1. since + b + (Left(s) - b) = since + Left(s)
      BY <1>4, <2>1
    <3> QED BY <1>5, <2>2, <3>1 DEF Target
  <2>4. Due(s) \/ RoundDue(s)
    BY <1>8 DEF OnTime
  <2>5. Target(s) \in Int /\ (since + b) * Second <= A
    BY <1>1, <1>2, <1>8, SharesOf, TimeTypes DEF Progressing, Gains
  <2>6. RoundDue(s) => s.ssState = "SS" /\ r.currTransferFinishTime <= time
    BY <1>1, <1>3, <1>4 DEF RoundDue
  <2> HIDE DEF left
  <2>7. CASE d = event'
    <3>1. s.nextEvent = time /\ s.nextEvent # None
      BY <1>1, <2>7, Constants
    <3>2. ASSUME Due(s)
          PROVE  left = 0 /\ (since + b) * Second = A /\ r.currTransferFinishTime <= time
      <4>1. b = Left(s) /\ Target(s) = A /\ s.currTransferFinishTime = time
        BY <1>2, <1>8, <3>1, <3>2 DEF Gains, Due
      <4>2. (since + b) * Second = A
        BY <4>1 DEF Target
      <4> QED BY <1>1, <1>3, <1>4, <2>1, <2>2, <4>1, <4>2
    <3>3. ASSUME RoundDue(s)
          PROVE  left # 0
      <4>1. Target(s) > A
        BY <3>1, <3>3 DEF RoundDue
      <4> SUFFICES ASSUME left = 0 PROVE FALSE
        OBVIOUS
      <4>2. Target(s) = (since + b) * Second
        BY <1>4, <1>5, <2>3
      <4> QED BY <1>5, <2>5, <4>1, <4>2
    <3>4. r.currTransferFinishTime <= time
      BY <2>4, <2>6, <3>2
    <3>5. left = 0 => Since(r) * Second = Allowed(r, time)
      BY <1>5, <2>4, <3>2, <3>3
    <3>6. left # 0 => r.ssState = "SS"
      BY <1>3, <2>4, <2>6, <3>2
    <3>7. (left = 0 => Settled(conn[d])') /\ Left(conn[d])' = left
      BY <1>1, <3>5 DEF Settled, Since, Allowed, Left, left
    <3> QED BY <1>1, <1>3, <1>6, <1>8, <2>7, <3>4, <3>6, <3>7 DEF Timed, OnTime, Progressing
  <2>8. CASE d # event'
    <3>1. r.nextEvent = s.nextEvent /\ (s.nextEvent # None => s.nextEvent >= time)
      BY <1>1, <1>3, <2>1, <2>8
    <3>2. Left(conn[d])' = left /\ Target(conn[d])' = Target(s)
      BY <2>3 DEF Left, Target, Since, left
    <3>3. ASSUME Due(s) PROVE Due(conn[d])'
      <4>1. /\ s.currTransferFinishTime >= now /\ s.nextEvent = s.currTransferFinishTime
            /\ Target(s) = Allowed(s, s.nextEvent)
            /\ s.ssState = "SS" => Left(s) * Second <= s.availableBw * RTT
        BY <3>3 DEF Due
      <4>2. s.nextEvent # None /\ s.nextEvent >= time
        BY <1>1, <1>4, <3>1, <4>1, Constants
      <4>3. r.nextEvent = time => left = 0
        BY <1>2, <1>8, <2>1, <2>2, <3>1, <3>3 DEF Gains
      <4>4. left * Second <= Left(s) * Second /\ left * Second \in Int /\ Left(s) * Second \in Int
            /\ s.availableBw * RTT \in Int
        <5>1. left \in Nat /\ left <= Left(s)
          BY <1>4, <2>1, <2>2
        <5> DEFINE l == Left(s)
        <5>2. l \in Nat /\ left <= l
          BY <2>1, <5>1
        <5> HIDE DEF l
        <5>3. left * Second <= l * Second /\ left * Second \in Int /\ l * Second \in Int
          BY <1>4, <5>1, <5>2
        <5>4. s.availableBw * RTT \in Int
          BY <1>4
        <5> QED BY <5>3, <5>4 DEF l
      <4>5. r.ssState = "SS" => left * Second <= r.availableBw * RTT
        BY <1>3, <4>1, <4>4
      <4>6. Target(s) = Allowed(r, r.nextEvent)
        BY <1>4, <1>5, <3>1, <4>1
      <4>7. r.currTransferFinishTime >= time /\ r.nextEvent = r.currTransferFinishTime
        BY <1>3, <3>1, <4>1, <4>2
      <4>8. Allowed(conn[d], conn[d].nextEvent)' = Allowed(r, r.nextEvent)
        BY DEF Allowed
      <4> QED BY <1>1, <3>2, <4>3, <4>5, <4>6, <4>7, <4>8 DEF Due
    <3>4. ASSUME RoundDue(s) PROVE RoundDue(conn[d])'
      <4>1. r.nextEvent # None => Target(s) > Allowed(r, r.nextEvent)
        BY <1>4, <1>5, <3>1, <3>4 DEF RoundDue
      <4>2. Allowed(conn[d], conn[d].nextEvent)' = Allowed(r, r.nextEvent)
        BY DEF Allowed
      <4> QED BY <1>1, <1>3, <2>6, <3>2, <3>4, <4>1, <4>2 DEF RoundDue
    <3> QED BY <1>3, <1>6, <1>8, <2>4, <2>8, <3>3, <3>4 DEF Timed, OnTime, Progressing
  <2> QED BY <2>7, <2>8
<1> QED BY <1>7, <1>8

\* The time that elapses allows all shares together no more than the bandwidth.
LEMMA TickBudget ==
  ASSUME IInv, IInv', Budget, NEW time \in Nat, time >= now, now' = time,
         \A d \in Conns : Moves(conn[d], conn'[d], Got(d, time)) /\ ShareKept(d)
  PROVE  Budget'
<1> DEFINE f == [c \in Conns |-> Weight(conn[c])]
           g == [c \in Conns |-> conn[c].availableBw * (time - now)]
           h == [c \in Conns |-> Weight(conn[c])]'
           bws == [c \in Conns |-> conn[c].availableBw]
           dt == time - now
<1>1. /\ TypeOK /\ IsFiniteSet(Conns) /\ Bandwidth \in Nat /\ now \in Nat /\ dt \in Nat
      /\ \A d \in Conns : conn[d] \in ConnectionStorage
  <2>1. now \in Nat /\ TypeOK /\ \A d \in Conns : conn[d] \in ConnectionStorage
    BY Types DEF IInv
  <2> QED BY <2>1, Constants
<1>2. ASSUME NEW d \in Conns
      PROVE  f[d] \in Int /\ g[d] \in Int /\ bws[d] \in Nat /\ g[d] * 1 <= bws[d] * dt
             /\ h[d] = f[d] + g[d]
  <2> DEFINE s == conn[d]
             base == s.lastBwUpdateTransferredBytesSum * Second
             bw == s.availableBw
             last == s.lastBwUpdate
  <2>1. base \in Int /\ bw \in Nat /\ last \in Nat /\ Weight(s) \in Int
    <3>1. s \in ConnectionStorage
      BY <1>1
    <3> QED BY <1>1, <3>1, TimeTypes, WeightType, Constants
  <2>2. h[d] = base + bw * (time - last)
    BY DEF Moves, ShareKept, Weight, Allowed
  <2>3. f[d] = base + bw * (now - last) /\ g[d] = bw * dt /\ bws[d] = bw /\ f[d] \in Int
    BY <2>1 DEF Weight, Allowed
  <2> HIDE DEF base, bw, last, f, g, h, bws
  <2>4. bw * (time - last) = bw * (now - last) + bw * dt
    <3>1. time - last = (now - last) + dt /\ now - last \in Int /\ dt \in Int
      BY <1>1, <2>1
    <3> DEFINE a == now - last
    <3>2. a \in Int /\ bw * (a + dt) = bw * a + bw * dt
      <4>1. a \in Int
        BY <3>1
      <4> HIDE DEF a, dt
      <4> QED BY <2>1, <3>1, <4>1
    <3> QED BY <3>1, <3>2
  <2>5. bw * (now - last) \in Int /\ bw * dt \in Int
    <3>1. now - last \in Int
      BY <1>1, <2>1
    <3> HIDE DEF dt
    <3> QED BY <1>1, <2>1, <3>1
  <2> HIDE DEF dt
  <2>6. h[d] = f[d] + g[d]
    BY <2>1, <2>2, <2>3, <2>4, <2>5
  <2>7. g[d] * 1 <= bws[d] * dt
    BY <2>3, <2>5
  <2> QED BY <2>1, <2>3, <2>5, <2>6, <2>7
<1>3. Sum(f, Conns) <= Bandwidth * now
  BY DEF Budget
<1>4. Sum(bws, Conns) <= Bandwidth
  BY DEF IInv, SharesOk, SharesFit
<1>5. Budget' <=> Sum(h, Conns) <= Bandwidth * time
  BY DEF Budget
<1>a. now + dt = time
  BY <1>1
<1> HIDE DEF f, g, h, bws, dt
<1>6. Sum(h, Conns) = Sum(f, Conns) + Sum(g, Conns)
  BY <1>1, <1>2, SumOfSums DEF Sum
<1>7. Sum(g, Conns) * 1 <= Sum(bws, Conns) * dt
  <2>1. \A d \in Conns : g[d] \in Int /\ bws[d] \in Int /\ g[d] * 1 <= bws[d] * dt
    BY <1>2
  <2> QED BY <1>1, <2>1, SumScaled DEF Sum
<1>8. Sum(f, Conns) \in Int /\ Sum(g, Conns) \in Int /\ Sum(bws, Conns) \in Int
  <2>1. \A d \in Conns : f[d] \in Int /\ g[d] \in Int /\ bws[d] \in Int
    BY <1>2
  <2> QED BY <1>1, <2>1, SumType DEF Sum
<1> DEFINE F == Sum(f, Conns)
           G == Sum(g, Conns)
           W == Sum(bws, Conns)
<1>9. F \in Int /\ G \in Int /\ W \in Int /\ F <= Bandwidth * now /\ G * 1 <= W * dt /\ W <= Bandwidth
  BY <1>3, <1>4, <1>7, <1>8
<1> HIDE DEF F, G, W
<1>10. W * dt <= Bandwidth * dt /\ W * dt \in Int /\ Bandwidth * dt \in Int /\ Bandwidth * now \in Int
  BY <1>1, <1>9
<1>11. Bandwidth * (now + dt) = Bandwidth * now + Bandwidth * dt
  BY <1>1
<1>12. F + G <= Bandwidth * (now + dt)
  BY <1>9, <1>10, <1>11
<1> QED BY <1>5, <1>6, <1>12, <1>a DEF F, G

LEMMA SharesTicked ==
  ASSUME IInv, NEW time \in Nat, NEW c \in Conns
  PROVE  /\ TickedConns(time)[c].lastBwUpdate = conn[c].lastBwUpdate
         /\ TickedConns(time)[c].lastBwUpdateTransferredBytesSum
              = conn[c].lastBwUpdateTransferredBytesSum
<1>1. conn[c] \in ConnectionStorage
  BY Types
<1> QED BY <1>1 DEF TickedConns, TickTime, ConnectionStorage

LEMMA ElapsedTimes ==
  ASSUME IInv, IInv', TimesOk, NEW time \in Nat, Elapses(time),
         \A d \in Conns : Moves(conn[d], conn'[d], Got(d, time)) /\ EventTaken(d) /\ ShareKept(d)
  PROVE  TimesOk'
<1>1. event = None /\ time >= now /\ now' = time
  BY DEF Elapses
<1>2. ASSUME NEW d \in Conns PROVE Timed(d)'
  <2>1. (d = event) = FALSE /\ OnTime(conn[d], d = event)
    BY <1>1, Constants DEF TimesOk, Timed
  <2>2. OnTime(conn[d], FALSE)
    BY <2>1
  <2> QED BY <2>2, TickTimes
<1>3. Budget'
  BY <1>1, TickBudget DEF TimesOk
<1> QED BY <1>2, <1>3 DEF TimesOk

LEMMA TakeEventTimes ==
  ASSUME IInv, EventsOk, TimesOk, NEW c \in Conns, TakeEvent(c)
  PROVE  TimesOk'
<1> DEFINE time == conn[c].nextEvent
           cs == TickedConns(time)
<1>1. /\ event' = c /\ now' = time /\ conn' = [cs EXCEPT ![c].nextEvent = None]
      /\ outstandingBytes' = TickedBytes(time)
      /\ event = None /\ c \in Open /\ time # None /\ NoneBefore(time)
  BY DEF TakeEvent, Pending
<1>2. time \in Nat
  <2>1. conn[c] \in ConnectionStorage
    BY Types
  <2> QED BY <1>1, <2>1 DEF ConnectionStorage
<1>3. Elapses(time)
  <2>1. time >= now
    BY <1>1 DEF EventsOk, EventOk
  <2> QED BY <1>1, <2>1 DEF Elapses
<1> HIDE DEF time
<1>4. cs \in [Conns -> ConnectionStorage] /\ \A d \in Conns : Moves(conn[d], cs[d], Got(d, time))
  BY <1>2, Ticked
<1>5. \A d \in Conns : /\ cs[d].nextEvent = conn[d].nextEvent
                       /\ cs[d].idleTimestamp = conn[d].idleTimestamp
                       /\ cs[d].currTransferFinishTime = conn[d].currTransferFinishTime
                       /\ cs[d].lastBwUpdate = conn[d].lastBwUpdate
                       /\ cs[d].lastBwUpdateTransferredBytesSum
                            = conn[d].lastBwUpdateTransferredBytesSum
  BY <1>2, EventsTicked, SharesTicked
<1> HIDE DEF cs
<1>6. /\ \A d \in Conns \ {c} : conn'[d] = cs[d]
      /\ conn'[c] = [cs[c] EXCEPT !.nextEvent = None] /\ cs[c] \in ConnectionStorage
  BY <1>1, <1>4
<1>7. ASSUME NEW d \in Conns
      PROVE  Moves(conn[d], conn'[d], Got(d, time)) /\ EventTaken(d) /\ ShareKept(d)
  <2>1. CASE d = c
    <3>1. conn'[c] \in ConnectionStorage
      BY <1>6 DEF ConnectionStorage
    <3>2. Moves(conn[c], conn'[c], Got(c, time))
      BY <1>4, <1>6, <3>1, ZenonT(60) DEF Moves, ConnectionStorage
    <3>3. EventTaken(c) /\ ShareKept(c)
      BY <1>1, <1>5, <1>6 DEF EventTaken, ShareKept, ConnectionStorage
    <3> QED BY <2>1, <3>2, <3>3
  <2>2. CASE d # c
    BY <1>1, <1>4, <1>5, <1>6, <2>2 DEF EventTaken, ShareKept
  <2> QED BY <2>1, <2>2
<1>8. IInv'
  BY TakeEventInv
<1> QED BY <1>2, <1>3, <1>7, <1>8, ElapsedTimes

LEMMA OtherEventTimes ==
  ASSUME IInv, TimesOk, NEW time \in OtherTimes, OtherEvent(time)
  PROVE  TimesOk'
<1>1. time \in Nat /\ now \in Nat
  BY TimesAssumption, Types
<1>2. conn' = TickedConns(time) /\ event' = None /\ Elapses(time)
  BY <1>1, Constants DEF OtherEvent, Elapses
<1>3. \A d \in Conns : Moves(conn[d], conn'[d], Got(d, time)) /\ EventTaken(d) /\ ShareKept(d)
  BY <1>1, <1>2, Ticked, EventsTicked, SharesTicked, Constants DEF EventTaken, ShareKept
<1>4. IInv'
  BY OtherEventInv
<1> QED BY <1>1, <1>2, <1>3, <1>4, ElapsedTimes

LEMMA InitTimes == Init => TimesOk
<1> SUFFICES ASSUME Init PROVE TimesOk
  OBVIOUS
<1>1. now = 0 /\ event = None /\ \A c \in Conns : conn[c] = NewStorage
  BY DEF Init
<1>2. Bandwidth \in Nat /\ IsFiniteSet(Conns) /\ Second \in Nat
  BY Constants
<1>3. Weight(NewStorage) = 0
  BY <1>1, <1>2 DEF Weight, Allowed, NewStorage
<1>4. OnTime(NewStorage, FALSE)
  <2>1. ~Progressing(NewStorage) /\ NewStorage.currTransferFinishTime <= now
    BY <1>1 DEF Progressing, NewStorage, None
  <2>2. Limited(NewStorage)
    BY <1>1, <1>2 DEF Limited, Since, Allowed, NewStorage
  <2> QED BY <2>1, <2>2 DEF OnTime
<1>5. \A c \in Conns : Timed(c)
  <2>1. \A c \in Conns : (c = event) = FALSE
    BY <1>1, Constants
  <2> QED BY <1>1, <1>4, <2>1 DEF Timed
<1>6. Budget
  <2> DEFINE f == [c \in Conns |-> Weight(conn[c])]
  <2>1. \A c \in Conns : f[c] = 0
    BY <1>1, <1>3
  <2> HIDE DEF f
  <2>2. Sum(f, Conns) = 0 * Cardinality(Conns)
    BY <1>2, <2>1, SumOfConstant DEF Sum
  <2>3. Cardinality(Conns) \in Nat
    BY <1>2, FS_CardinalityType
  <2>4. Sum(f, Conns) <= Bandwidth * now
    BY <1>1, <1>2, <2>2, <2>3
  <2> QED BY <2>4 DEF Budget, f
<1> QED BY <1>5, <1>6 DEF TimesOk

LEMMA NextTimes ==
  ASSUME IInv, EventsOk, WindowLimits, TimesOk, [Next]_vars
  PROVE  TimesOk'
<1>1. ASSUME NEW c \in Conns, NEW t \in Transfers, Connect(c, t) \/ AddTransfer(c, t)
      PROVE  TimesOk'
  BY <1>1, ConnectTimes, AddTransferTimes
<1>2. ASSUME NEW c \in Conns, CloseIdle(c) \/ TimeOut(c) PROVE TimesOk'
  BY <1>2, ClosedTimes
<1>3. ASSUME NEW c \in Conns, GoIdle(c) \/ StartNext(c) \/ NextRound(c) PROVE TimesOk'
  BY <1>3, GoIdleTimes, StartNextTimes, NextRoundTimes
<1>4. ASSUME NEW c \in Conns, TakeEvent(c) PROVE TimesOk'
  BY <1>4, TakeEventTimes
<1>5. ASSUME NEW time \in OtherTimes, OtherEvent(time) PROVE TimesOk'
  BY <1>5, OtherEventTimes
<1>6. CASE UNCHANGED vars
  <2>1. \A c \in Conns : Timed(c)'
    BY <1>6 DEF vars, TimesOk, Timed, OnTime, Limited, Settled, Since, Left, Allowed, Target, Due,
                RoundDue
  <2>2. Budget'
    BY <1>6 DEF vars, TimesOk, Budget, Weight, Allowed
  <2> QED BY <2>1, <2>2 DEF TimesOk
<1> QED BY <1>1, <1>2, <1>3, <1>4, <1>5, <1>6 DEF Next, Run

\* The connections together never transfer more than the interface can, although a tick gives a
\* transfer at its deadline whatever is left of it, provided that no connection in slow start has
\* more bandwidth than its window can use: then a deadline is never replaced by a later one, and
\* no tick meets one that is stale.
THEOREM CapacityIsRespected == Spec /\ []WindowLimits => []WithinCapacity
<1> DEFINE Inv == IInv /\ EventsOk /\ TimesOk
<1>1. Init => Inv
  BY InitInv, InitEvents, InitTimes
<1>2. Inv /\ WindowLimits /\ [Next]_vars => Inv'
  BY NextInv, NextTimes
<1>3. Inv => WithinCapacity
  <2> SUFFICES ASSUME IInv, TimesOk PROVE WithinCapacity
    OBVIOUS
  <2> DEFINE f == [c \in Conns |-> conn[c].transferredBytesSum]
             g == [c \in Conns |-> Weight(conn[c])]
  <2>1. TypeOK /\ IsFiniteSet(Conns) /\ Bandwidth \in Nat /\ now \in Nat /\ Second \in Nat
    BY Constants, Types DEF IInv
  <2>2. ASSUME NEW c \in Conns PROVE f[c] \in Int /\ g[c] \in Int /\ f[c] * Second <= g[c] * 1
    <3>1. conn[c] \in ConnectionStorage /\ Limited(conn[c])
      BY Types DEF TimesOk, Timed, OnTime
    <3>2. Weight(conn[c]) \in Int /\ conn[c].transferredBytesSum \in Nat
      BY <2>1, <3>1, WeightType, TimeTypes
    <3>3. conn[c].transferredBytesSum * Second <= Weight(conn[c])
      BY <2>1, <3>1, WeightIsLimit
    <3> QED BY <3>2, <3>3
  <2>3. Sum(g, Conns) <= Bandwidth * now
    BY DEF TimesOk, Budget
  <2> HIDE DEF f, g
  <2>4. SumFunctionOnSet(f, Conns) * Second <= SumFunctionOnSet(g, Conns) * 1
    BY <2>1, <2>2, SumScaled
  <2>5. SumFunctionOnSet(f, Conns) \in Int /\ SumFunctionOnSet(g, Conns) \in Int
    BY <2>1, <2>2, SumType
  <2>6. SumFunctionOnSet(f, Conns) * Second <= Bandwidth * now
    BY <2>1, <2>3, <2>4, <2>5 DEF Sum
  <2> QED BY <2>6 DEF WithinCapacity, f
<1> QED BY <1>1, <1>2, <1>3, PTL DEF Spec

\* No connection gets more than its share allows, although a tick gives a transfer at its deadline
\* whatever is left of it (tcpConnection.py:404-407), provided that windows limit the shares: then
\* no tick meets a deadline that was replaced.  Without it TLC finds one that does.
THEOREM ShareIsNotExceeded == Spec /\ []WindowLimits => []NeverOvershoots
<1> DEFINE Inv == IInv /\ EventsOk /\ TimesOk
<1>1. Init => Inv
  BY InitInv, InitEvents, InitTimes
<1>2. Inv /\ WindowLimits /\ [Next]_vars => Inv'
  BY NextInv, NextTimes
<1>3. Inv => NeverOvershoots
  BY DEF TimesOk, Timed, OnTime, Limited, Since, Allowed, NeverOvershoots
<1> QED BY <1>1, <1>2, <1>3, PTL DEF Spec

\* The same with a condition on the constants only: if the first window carries half of the
\* bandwidth in a round, no connection gets more than its share, and all no more than there is.
THEOREM NoMoreThanThereIs ==
  Spec /\ WindowsCarryHalf => []NeverOvershoots /\ []WithinCapacity
BY WindowsDoLimit, ShareIsNotExceeded, CapacityIsRespected, PTL

\* No byte is left of the active transfer when the event of a connection in congestion avoidance
\* comes (the assertion in tcpConnection.py:176), and no transfer is complete before: no bytes are
\* lost to the truncation of the ticks, and no connection waits with nothing to send.  It takes,
\* beside the limit of the windows, that every round changes what its connection wants.
THEOREM DeadlinesAreMet == Spec /\ []WindowLimits /\ RoundsCount => []DoneAtDeadline
<1> DEFINE Inv == IInv /\ EventsOk /\ TimesOk /\ \A c \in Conns : Waits(c)
           Round == \A c \in Conns : NextRound(c) => NewWish(c)
<1>1. Init => Inv
  BY InitInv, InitEvents, InitTimes
<1>2. Inv /\ WindowLimits /\ [Next]_vars /\ [Round]_vars => Inv'
  <2> SUFFICES ASSUME Inv, WindowLimits, [Next]_vars, [Round]_vars PROVE Inv'
    OBVIOUS
  <2>1. IInv' /\ EventsOk' /\ TimesOk'
    BY NextInv, NextTimes
  <2>2. CASE Round
    BY <2>1, <2>2, NextInv
  <2>3. CASE UNCHANGED vars
    <3>1. (\A c \in Conns : Waits(c))'
      BY <2>3 DEF vars, Waits, Open
    <3> QED BY <2>1, <3>1
  <2> QED BY <2>2, <2>3
<1>3. Inv => DoneAtDeadline
  <2> SUFFICES ASSUME Inv, NEW c \in Open, Progressing(conn[c])
               PROVE  IF c = event THEN conn[c].ssState = "CA" => Left(conn[c]) = 0
                      ELSE Left(conn[c]) = 0 => conn[c].nextEvent = now
    BY DEF DoneAtDeadline, Left
  <2>1. /\ c \in Conns /\ conn[c] \in ConnectionStorage /\ TypeOK /\ now \in Nat
        /\ OnTime(conn[c], c = event) /\ EventOk(c) /\ Waits(c)
    BY Types DEF Open, TimesOk, Timed, EventsOk, IInv
  <2>2. CASE c = event
    BY <2>1, <2>2 DEF OnTime
  <2>3. ASSUME c # event, Left(conn[c]) = 0 PROVE conn[c].nextEvent = now
    <3> DEFINE s == conn[c]
               ago == now - s.lastBwUpdate
               ahead == s.nextEvent - s.lastBwUpdate
    <3>1. /\ s.nextEvent # None /\ s.nextEvent >= now /\ s.nextEvent \in Int
          /\ s.lastBwUpdate \in Nat /\ s.availableBw \in Nat /\ Since(s) \in Int
      BY <2>1, <2>3, TimeTypes DEF Waits, EventOk
    <3>2. s.availableBw > 0
      <4>1. ShareOk(s)
        BY <2>1 DEF IInv, SharesOk
      <4> QED BY <4>1 DEF ShareOk
    <3>3. Limited(s) /\ (Due(s) \/ RoundDue(s))
      BY <2>1, <2>3 DEF OnTime
    <3>4. Target(s) = Since(s) * Second
      BY <2>3, <3>1 DEF Target
    <3>5. s.availableBw * ahead <= s.availableBw * ago
      <4>1. Target(s) >= Allowed(s, s.nextEvent)
        <5>1. Target(s) \in Int /\ Allowed(s, s.nextEvent) \in Int
          BY <3>1, <3>4, Constants DEF Allowed
        <5> QED BY <3>1, <3>3, <5>1 DEF Due, RoundDue
      <4>2. Since(s) * Second <= Allowed(s, now)
        BY <3>3 DEF Limited
      <4>3. Target(s) \in Int /\ Allowed(s, s.nextEvent) \in Int /\ Allowed(s, now) \in Int
        BY <2>1, <3>1, <3>4, Constants DEF Allowed
      <4> QED BY <3>4, <4>1, <4>2, <4>3 DEF Allowed
    <3>6. ahead \in Int /\ ago \in Int
      BY <2>1, <3>1
    <3> DEFINE bw == s.availableBw
    <3>7. bw \in Nat \ {0} /\ bw * ahead <= bw * ago
      BY <3>1, <3>2, <3>5
    <3>8. ahead = s.nextEvent - s.lastBwUpdate /\ ago = now - s.lastBwUpdate
      OBVIOUS
    <3> HIDE DEF ahead, ago, bw
    <3>9. ahead <= ago
      <4> SUFFICES ASSUME ahead > ago PROVE FALSE
        BY <3>6
      <4>1. bw * ahead > bw * ago
        BY <3>6, <3>7
      <4> QED BY <3>6, <3>7, <4>1
    <3> QED BY <2>1, <3>1, <3>6, <3>8, <3>9
  <2> QED BY <2>2, <2>3
<1> QED BY <1>1, <1>2, <1>3, PTL DEF Spec, RoundsCount

=============================================================================
