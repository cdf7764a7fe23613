--------------------------- MODULE TransferManager ---------------------------
(***************************************************************************)
(* The real run of a simulation: TransferManager, the base class Policy    *)
(* (notify and _executePrediction) and the life cycle of a connection      *)
(* (connect, addTransfer, the transfer-finished and idle-timeout events,   *)
(* close), which TcpConnection and MptcpConnection share.                  *)
(*                                                                         *)
(* Time, bytes and bandwidth are left out: a busy connection finishes its  *)
(* current transfer, and an idle one times out, at any moment.  So is the  *)
(* outcome of the predictions: the policy may pick a new connection or any *)
(* open one with the origin and the ssl flag of the transfer.              *)
(*                                                                         *)
(* One event handler is a chain of nested calls.  The three variables      *)
(* pending, finishing and toEnable are its call stack, innermost first:    *)
(* the rest of the loop of Policy.notify, then the Transfer.finish that    *)
(* comes after _notifyIdle, then the rest of the loop over the children in *)
(* finishTransfer.  An event is taken only when all three are empty.       *)
(***************************************************************************)
EXTENDS Naturals, SequencesExt

CONSTANTS N,             \* number of transfers, numbered in the order of the HAR file
          Origins,       \* host names
          Pages,         \* the pages that may be loaded: dependency, origin and ssl of each transfer
          GLOBAL_LIMIT,  \* DEFAULT_GLOBAL_LIMIT
          HOST_LIMIT     \* DEFAULT_HOST_LIMIT

Transfers == 1 .. N
NoTransfer == 0

\* A connection is named after the transfer it is opened for: scheduling a
\* transfer opens at most one, so no bound on connections is needed.
Conns == Transfers
NoConn == 0

Page == [parent : [Transfers -> Transfers \cup {NoTransfer}],
         origin : [Transfers -> Origins],
         ssl    : [Transfers -> BOOLEAN]]

ASSUME NAssumption == N \in Nat \ {0}
ASSUME LimitAssumption == GLOBAL_LIMIT \in Nat \ {0} /\ HOST_LIMIT \in Nat \ {0}
\* harParser only makes a transfer the child of one that started before it.
ASSUME PagesAssumption ==
         /\ Pages \subseteq Page
         /\ \A p \in Pages : \A t \in Transfers : p.parent[t] < t

VARIABLES
  page,               \* Transfer.children, .origin and .ssl
  tState, tConn,      \* Transfer.rStorage.state and .connection
  newTransfers, enabledTransfers, enqueuedTransfers,
  activeTransfers, finishedTransfers,    \* the lists of the manager
  finishTime,         \* TRUE once TransferManager.finishTime is set
  cState, cTransfers, \* state and pipeline of each connection
  busyConnections, idleConnections, closedConnections, connectionOrigin,
  pending,            \* what Policy.notify has still to look at
  finishing,          \* the transfer whose finish() is still to be called
  toEnable            \* children finishTransfer has still to enable

vars == <<page, tState, tConn, newTransfers, enabledTransfers, enqueuedTransfers,
          activeTransfers, finishedTransfers, finishTime, cState, cTransfers,
          busyConnections, idleConnections, closedConnections, connectionOrigin,
          pending, finishing, toEnable>>

-----------------------------------------------------------------------------

\* Mutant: the dependency is followed the wrong way round.
Children_Parent(t) == {page.parent[t]}
\* The transfers that depend on t.
Children(t) == {c \in Transfers : page.parent[c] = t}

Ascending(s) == \A i, j \in DOMAIN s : i < j => s[i] < s[j]

\* The transfers without dependency, listed in the order of the HAR file.
RootLists(p) == LET roots == {t \in Transfers : p.parent[t] = NoTransfer}
                IN  {s \in [1 .. Cardinality(roots) -> roots] : Ascending(s) /\ ToSet(s) = roots}

\* Mutant: the list is worked off from the newest transfer on.
NotifyPass_Reverse(enabled, busy) ==
  IF Cardinality(busy) >= GLOBAL_LIMIT THEN <<>> ELSE Reverse(enabled)
\* Mutant: the limit is tested one too early.
NotifyPass_OneTooEarly(enabled, busy) ==
  IF Cardinality(busy) + 1 >= GLOBAL_LIMIT THEN <<>> ELSE enabled
\* Policy.notify takes a copy of the enabled transfers, unless the global limit is reached.
NotifyPass(enabled, busy) == IF Cardinality(busy) >= GLOBAL_LIMIT THEN <<>> ELSE enabled

\* The event handler has returned to the event loop.
CallStackEmpty == pending = <<>> /\ finishing = NoTransfer /\ toEnable = {}

\* Only an idle or a busy connection has an event in the queue.
EventQueueEmpty == \A c \in Conns : cState[c] \in {"NONE", "CLOSED"}

\* runTransfers: the roots are enabled already, then the policy is notified for the first time.
Init ==
  /\ page \in Pages
  /\ enabledTransfers \in RootLists(page)
  /\ newTransfers = Transfers \ ToSet(enabledTransfers)
  /\ tState = [t \in Transfers |-> IF t \in newTransfers THEN "NEW" ELSE "ENABLED"]
  /\ tConn = [t \in Transfers |-> NoConn]
  /\ enqueuedTransfers = {} /\ activeTransfers = {} /\ finishedTransfers = {}
  /\ finishTime = FALSE
  /\ cState = [c \in Conns |-> "NONE"]
  /\ cTransfers = [c \in Conns |-> <<>>]
  /\ busyConnections = {} /\ idleConnections = {} /\ closedConnections = {}
  /\ connectionOrigin = [o \in Origins |-> {}]
  /\ pending = NotifyPass(enabledTransfers, busyConnections)
  /\ finishing = NoTransfer /\ toEnable = {}

-----------------------------------------------------------------------------
(* The loop of Policy.notify: one iteration per step *)

\* Mutant: off by one.
HostLimitReached_OneTooLate(t) == Cardinality(connectionOrigin[page.origin[t]]) > HOST_LIMIT
HostLimitReached(t) == Cardinality(connectionOrigin[page.origin[t]]) >= HOST_LIMIT

\* The open connections a transfer may be pipelined on.
Candidates(t) == {c \in busyConnections \cup idleConnections :
                    page.origin[c] = page.origin[t] /\ page.ssl[c] = page.ssl[t]}

\* Mutant: nothing is closed.
Victims_None(c) == {{}}
\* Mutant: the connection that is about to be used may be closed.
Victims_Self(c) ==
  IF /\ Cardinality(busyConnections) + Cardinality(idleConnections) >= GLOBAL_LIMIT
     /\ idleConnections # {}
  THEN {{v} : v \in idleConnections}
  ELSE {{}}
\* What _executePrediction closes before it schedules a transfer on c: at the
\* global limit, the idle connection it picks, unless that is c itself.
Victims(c) ==
  IF /\ Cardinality(busyConnections) + Cardinality(idleConnections) >= GLOBAL_LIMIT
     /\ idleConnections # {}
  THEN {{v} \ {c} : v \in idleConnections}
  ELSE {{}}

SkipHostLimited ==
  /\ pending # <<>> /\ HostLimitReached(Head(pending))
  /\ pending' = Tail(pending)
  /\ UNCHANGED <<page, tState, tConn, newTransfers, enabledTransfers, enqueuedTransfers,
                 activeTransfers, finishedTransfers, finishTime, cState, cTransfers,
                 busyConnections, idleConnections, closedConnections, connectionOrigin,
                 finishing, toEnable>>

\* TransferManager.busiedConnection, after the victims have been closed.
BusiedConnection(c, victims) ==
  /\ busyConnections' = busyConnections \cup {c}
  /\ idleConnections' = idleConnections \ (victims \cup {c})
  /\ connectionOrigin' = [connectionOrigin EXCEPT ![page.origin[c]] = @ \cup {c}]

\* Close the victims and start t on c, which is new or idle: the connection
\* becomes busy and counts for its origin.
StartOn(t, c, victims) ==
  /\ tState' = [tState EXCEPT ![t] = "ACTIVE"]
  /\ tConn' = [tConn EXCEPT ![t] = c]
  /\ enabledTransfers' = RemoveFirst(enabledTransfers, t)
  /\ activeTransfers' = activeTransfers \cup {t}
  /\ cState' = [d \in Conns |-> IF d \in victims THEN "CLOSED"
                                ELSE IF d = c THEN "BUSY" ELSE cState[d]]
  /\ cTransfers' = [cTransfers EXCEPT ![c] = Append(@, t)]
  /\ closedConnections' = closedConnections \cup victims
  /\ BusiedConnection(c, victims)
  /\ pending' = Tail(pending)
  /\ UNCHANGED <<page, newTransfers, enqueuedTransfers, finishedTransfers, finishTime,
                 finishing, toEnable>>

ScheduleOnNew ==
  /\ pending # <<>> /\ ~HostLimitReached(Head(pending))
  /\ \E victims \in Victims(NoConn) : StartOn(Head(pending), Head(pending), victims)

ScheduleOnIdle ==
  /\ pending # <<>> /\ ~HostLimitReached(Head(pending))
  /\ \E c \in Candidates(Head(pending)) \cap idleConnections :
       \E victims \in Victims(c) : StartOn(Head(pending), c, victims)

\* Mutant: the transfer jumps the queue.
EnqueueOn_First(t, c, victims) ==
  /\ tState' = [tState EXCEPT ![t] = "ENQUEUED"]
  /\ tConn' = [tConn EXCEPT ![t] = c]
  /\ enabledTransfers' = RemoveFirst(enabledTransfers, t)
  /\ enqueuedTransfers' = enqueuedTransfers \cup {t}
  /\ cState' = [d \in Conns |-> IF d \in victims THEN "CLOSED" ELSE cState[d]]
  /\ cTransfers' = [cTransfers EXCEPT ![c] = <<t>> \o @]
  /\ idleConnections' = idleConnections \ victims
  /\ closedConnections' = closedConnections \cup victims
  /\ pending' = Tail(pending)
  /\ UNCHANGED <<page, newTransfers, activeTransfers, finishedTransfers, finishTime,
                 busyConnections, connectionOrigin, finishing, toEnable>>
\* Close the victims and enqueue t behind the transfers of the busy connection c.
EnqueueOn(t, c, victims) ==
  /\ tState' = [tState EXCEPT ![t] = "ENQUEUED"]
  /\ tConn' = [tConn EXCEPT ![t] = c]
  /\ enabledTransfers' = RemoveFirst(enabledTransfers, t)
  /\ enqueuedTransfers' = enqueuedTransfers \cup {t}
  /\ cState' = [d \in Conns |-> IF d \in victims THEN "CLOSED" ELSE cState[d]]
  /\ cTransfers' = [cTransfers EXCEPT ![c] = Append(@, t)]
  /\ idleConnections' = idleConnections \ victims
  /\ closedConnections' = closedConnections \cup victims
  /\ pending' = Tail(pending)
  /\ UNCHANGED <<page, newTransfers, activeTransfers, finishedTransfers, finishTime,
                 busyConnections, connectionOrigin, finishing, toEnable>>

ScheduleOnBusy ==
  /\ pending # <<>> /\ ~HostLimitReached(Head(pending))
  /\ \E c \in Candidates(Head(pending)) \cap busyConnections :
       \E victims \in Victims(c) : EnqueueOn(Head(pending), c, victims)

-----------------------------------------------------------------------------
(* Transfer.finish and TransferManager.finishTransfer *)

\* Up to the loop over the children.  The loop finishes nothing, so whether the
\* page is finished can be decided here.
FinishTransfer ==
  /\ pending = <<>> /\ finishing # NoTransfer
  /\ tState' = [tState EXCEPT ![finishing] = "FINISHED"]
  /\ activeTransfers' = activeTransfers \ {finishing}
  /\ finishedTransfers' = finishedTransfers \cup {finishing}
  /\ finishTime' = (finishTime \/ finishedTransfers' = Transfers)
  /\ toEnable' = Children(finishing)
  /\ finishing' = NoTransfer
  /\ UNCHANGED <<page, tConn, newTransfers, enabledTransfers, enqueuedTransfers, cState,
                 cTransfers, busyConnections, idleConnections, closedConnections,
                 connectionOrigin, pending>>

\* enableTransfer of the next child, which notifies the policy.
EnableChild ==
  /\ pending = <<>> /\ finishing = NoTransfer
  /\ \E t \in toEnable :
       /\ \A u \in toEnable : t <= u
       /\ tState' = [tState EXCEPT ![t] = "ENABLED"]
       /\ newTransfers' = newTransfers \ {t}
       /\ enabledTransfers' = Append(enabledTransfers, t)
       /\ toEnable' = toEnable \ {t}
       /\ pending' = NotifyPass(enabledTransfers', busyConnections)
  /\ UNCHANGED <<page, tConn, enqueuedTransfers, activeTransfers, finishedTransfers,
                 finishTime, cState, cTransfers, busyConnections, idleConnections,
                 closedConnections, connectionOrigin, finishing>>

-----------------------------------------------------------------------------
(* The events of a connection *)

\* Mutant: the policy is not notified.
IdledConnection_NoNotify(c) ==
  /\ busyConnections' = busyConnections \ {c}
  /\ idleConnections' = idleConnections \cup {c}
  /\ connectionOrigin' = [connectionOrigin EXCEPT ![page.origin[c]] = @ \ {c}]
  /\ pending' = <<>>
\* Mutant: the connection still counts for its origin.
IdledConnection_KeepOrigin(c) ==
  /\ busyConnections' = busyConnections \ {c}
  /\ idleConnections' = idleConnections \cup {c}
  /\ pending' = NotifyPass(enabledTransfers, busyConnections')
  /\ UNCHANGED connectionOrigin
\* TransferManager.idledConnection.
IdledConnection(c) ==
  /\ busyConnections' = busyConnections \ {c}
  /\ idleConnections' = idleConnections \cup {c}
  /\ connectionOrigin' = [connectionOrigin EXCEPT ![page.origin[c]] = @ \ {c}]
  /\ pending' = NotifyPass(enabledTransfers, busyConnections')

\* The last transfer is done: the connection goes idle and the policy is
\* notified before the transfer itself is told.
GoIdle(c) ==
  /\ CallStackEmpty /\ cState[c] = "BUSY" /\ Len(cTransfers[c]) = 1
  /\ cTransfers' = [cTransfers EXCEPT ![c] = Tail(@)]
  /\ cState' = [cState EXCEPT ![c] = "IDLE"]
  /\ IdledConnection(c)
  /\ finishing' = Head(cTransfers[c])
  /\ UNCHANGED <<page, tState, tConn, newTransfers, enabledTransfers, enqueuedTransfers,
                 activeTransfers, finishedTransfers, finishTime, closedConnections, toEnable>>

\* Mutant: finish() is told to the transfer that has just been started.
StartNext_FinishWrongOne(c) ==
  /\ CallStackEmpty /\ cState[c] = "BUSY" /\ Len(cTransfers[c]) > 1
  /\ LET next == cTransfers[c][2]
     IN  /\ tState' = [tState EXCEPT ![next] = "ACTIVE"]
         /\ tConn' = [tConn EXCEPT ![next] = c]
         /\ activeTransfers' = activeTransfers \cup {next}
         /\ enqueuedTransfers' = enqueuedTransfers \ {next}
         /\ finishing' = next
  /\ cTransfers' = [cTransfers EXCEPT ![c] = Tail(@)]
  /\ UNCHANGED <<page, newTransfers, enabledTransfers, finishedTransfers, finishTime, cState,
                 busyConnections, idleConnections, closedConnections, connectionOrigin,
                 pending, toEnable>>
\* A transfer is done and another one waits: start that one first.
StartNext(c) ==
  /\ CallStackEmpty /\ cState[c] = "BUSY" /\ Len(cTransfers[c]) > 1
  /\ LET next == cTransfers[c][2]
     IN  /\ tState' = [tState EXCEPT ![next] = "ACTIVE"]
         /\ tConn' = [tConn EXCEPT ![next] = c]
         /\ activeTransfers' = activeTransfers \cup {next}
         /\ enqueuedTransfers' = enqueuedTransfers \ {next}
  /\ cTransfers' = [cTransfers EXCEPT ![c] = Tail(@)]
  /\ finishing' = Head(cTransfers[c])
  /\ UNCHANGED <<page, newTransfers, enabledTransfers, finishedTransfers, finishTime, cState,
                 busyConnections, idleConnections, closedConnections, connectionOrigin,
                 pending, toEnable>>

\* TransferManager.closedConnection.
ClosedConnection(c) ==
  /\ idleConnections' = idleConnections \ {c}
  /\ closedConnections' = closedConnections \cup {c}

IdleTimeout(c) ==
  /\ CallStackEmpty /\ cState[c] = "IDLE"
  /\ cState' = [cState EXCEPT ![c] = "CLOSED"]
  /\ ClosedConnection(c)
  /\ UNCHANGED <<page, tState, tConn, newTransfers, enabledTransfers, enqueuedTransfers,
                 activeTransfers, finishedTransfers, finishTime, cTransfers,
                 busyConnections, connectionOrigin, pending, finishing, toEnable>>

\* realRun returns when the event queue is empty.
RunEnded ==
  /\ CallStackEmpty /\ EventQueueEmpty
  /\ UNCHANGED vars

Next ==
  \/ SkipHostLimited \/ ScheduleOnNew \/ ScheduleOnIdle \/ ScheduleOnBusy
  \/ FinishTransfer \/ EnableChild
  \/ \E c \in Conns : GoIdle(c) \/ StartNext(c) \/ IdleTimeout(c)
  \/ RunEnded

Spec == Init /\ [][Next]_vars

\* The program is one thread that runs handlers and takes events until none is
\* left; a connection that is not closed always has one event in the queue.
FairSpec == Spec /\ WF_vars(Next)

-----------------------------------------------------------------------------
(* Properties *)

TransferState == {"NEW", "ENABLED", "ENQUEUED", "ACTIVE", "FINISHED"}
ConnState == {"NONE", "IDLE", "BUSY", "CLOSED"}
InState(st) == {t \in Transfers : tState[t] = st}
ConnsIn(st) == {c \in Conns : cState[c] = st}

\* Types of the variables.
TypeOK ==
  /\ page \in Pages
  /\ tState \in [Transfers -> TransferState]
  /\ tConn \in [Transfers -> Conns \cup {NoConn}]
  /\ newTransfers \subseteq Transfers
  /\ enabledTransfers \in Seq(Transfers)
  /\ enqueuedTransfers \subseteq Transfers
  /\ activeTransfers \subseteq Transfers
  /\ finishedTransfers \subseteq Transfers
  /\ finishTime \in BOOLEAN
  /\ cState \in [Conns -> ConnState]
  /\ cTransfers \in [Conns -> Seq(Transfers)]
  /\ busyConnections \subseteq Conns
  /\ idleConnections \subseteq Conns
  /\ closedConnections \subseteq Conns
  /\ connectionOrigin \in [Origins -> SUBSET Conns]
  /\ pending \in Seq(Transfers)
  /\ finishing \in Transfers \cup {NoTransfer}
  /\ toEnable \subseteq Transfers

\* The manager's lists and sets repeat what transfers and connections know of
\* themselves: every transfer is in the list of its state and in no other, every
\* connection in the set of its state, and connectionOrigin holds exactly the
\* busy connections of each host (the counts notify compares with the limits).
BookkeepingConsistent ==
  /\ newTransfers = InState("NEW")
  /\ ToSet(enabledTransfers) = InState("ENABLED") /\ IsInjective(enabledTransfers)
  /\ enqueuedTransfers = InState("ENQUEUED")
  /\ activeTransfers = InState("ACTIVE")
  /\ finishedTransfers = InState("FINISHED")
  /\ busyConnections = ConnsIn("BUSY")
  /\ idleConnections = ConnsIn("IDLE")
  /\ closedConnections = ConnsIn("CLOSED")
  /\ \A o \in Origins : connectionOrigin[o] = {c \in busyConnections : page.origin[c] = o}

\* The pipeline of c holds each transfer once, the active one at its head and the
\* enqueued ones behind it, all for the host and with the ssl flag of c, and it
\* is empty unless c is busy.
PipelineOf(c) ==
  /\ IsInjective(cTransfers[c])
  /\ cState[c] = "BUSY" <=> cTransfers[c] # <<>>
  /\ \A i \in DOMAIN cTransfers[c] :
       LET t == cTransfers[c][i]
       IN  /\ tConn[t] = c
           /\ tState[t] = IF i = 1 THEN "ACTIVE" ELSE "ENQUEUED"
           /\ page.origin[t] = page.origin[c] /\ page.ssl[t] = page.ssl[c]

\* A transfer that was scheduled and is not finished is in the pipeline of its
\* connection, except while its finish() is still to be called.
Reachable(t) ==
  tState[t] \in {"ACTIVE", "ENQUEUED"} =>
    /\ tConn[t] \in Conns
    /\ finishing = t <=> t \notin ToSet(cTransfers[tConn[t]])

\* Pipelines and transfer states agree although a connection goes idle, and is
\* used again, before its last transfer is told that it is finished: no scheduled
\* transfer gets lost, none is in two pipelines or on a connection to another host.
PipelinesConsistent ==
  /\ \A c \in Conns : PipelineOf(c)
  /\ \A t \in Transfers : Reachable(t)

\* No assertion and no list.remove of the code fails on the way back through the
\* nested calls: what the loops still have to handle is as they expect it, although
\* the state changed since the lists were taken (transferManager.py:126 and 205,
\* transfer.py:138, 148, 160, 172, tcpConnection.py:218, 227).
AssertionsHold ==
  /\ \A i \in DOMAIN pending : tState[pending[i]] = "ENABLED"
  /\ IsInjective(pending)
  /\ finishing # NoTransfer => tState[finishing] = "ACTIVE"
  /\ \A t \in toEnable : tState[t] = "NEW"
  /\ \A c \in idleConnections \cup closedConnections : cTransfers[c] = <<>>

\* Never more than HOST_LIMIT connections to a host are busy.
HostLimit == \A o \in Origins : Cardinality({c \in ConnsIn("BUSY") : page.origin[c] = o}) <= HOST_LIMIT

\* No transfer is enabled before the one it depends on is finished, and when the
\* event handler has returned no child of a finished transfer is left behind.
DependencyRespected ==
  \A t \in Transfers :
    LET parent == page.parent[t]
    IN  /\ tState[t] # "NEW" /\ parent # NoTransfer => tState[parent] = "FINISHED"
        /\ CallStackEmpty /\ tState[t] = "NEW" =>
             parent # NoTransfer /\ tState[parent] # "FINISHED"

\* A transfer stays deferred only while a limit holds it back.  notify runs when
\* a connection goes idle and when a transfer is enabled, and nowhere else, so a
\* limit that ceased to hold between two calls would leave it waiting for ever.
NoLostWakeup ==
  CallStackEmpty =>
    \A t \in InState("ENABLED") :
      Cardinality(busyConnections) >= GLOBAL_LIMIT \/ HostLimitReached(t)

\* When the event queue has run empty, every transfer is finished and the load
\* time has been recorded (the assertion at the end of runTransfers).
AllFinishedAtEnd ==
  CallStackEmpty /\ EventQueueEmpty => finishedTransfers = Transfers /\ finishTime

\* The number of open connections grows beyond the global limit only when every
\* open connection is busy: an idle one is closed instead.
Open == busyConnections \cup idleConnections
EvictBeforeOpening ==
  [][Cardinality(Open') > Cardinality(Open) =>
       Cardinality(Open') <= GLOBAL_LIMIT \/ idleConnections = {}]_vars

\* A deferred transfer is not overtaken by a transfer to the same host that was
\* enabled later, although the loop of notify goes on after skipping it.
Before(a, b, s) == \E i, j \in DOMAIN s : i < j /\ s[i] = a /\ s[j] = b
NoOvertaking ==
  [][\A a, b \in Transfers :
       /\ Before(a, b, enabledTransfers) /\ page.origin[a] = page.origin[b]
       /\ b \notin ToSet(enabledTransfers')
       => a \notin ToSet(enabledTransfers')]_vars

\* The run refines PageLoad: a transfer is requested when it is handed to a
\* connection and loaded when it is finished.
Load == INSTANCE PageLoad WITH
          requested <- InState("ENQUEUED") \cup InState("ACTIVE") \cup InState("FINISHED"),
          loaded <- InState("FINISHED")
RefinesPageLoad == Load!Spec

\* The README says (lines 55-57) that the overall number of connections is
\* limited.  notify tests the limit once, before its loop.
GlobalLimit == Cardinality(Open) <= GLOBAL_LIMIT

=============================================================================
