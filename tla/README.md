# A TLA+ model of the page-load simulator

The program in `src/` replays the loading of a web page.  It reads the transfers of the page
and the dependencies between them from a HAR file, and then simulates, event by event, how a
*policy* spreads them over TCP and MPTCP connections on several network interfaces.  To decide
where a transfer goes the policy *predicts* when it would be finished on each of the candidates:
it runs the same simulator, from inside the handler of a real event, on copies of the simulated
objects that are made lazily.

The modules here model that core: deriving the dependencies of a page, scheduling, the policies
and their predictions, bandwidth sharing, and the progress of TCP and MPTCP connections.  TLC
checks them on small instances; the modules whose names end in `Proofs` hold theorems that TLAPS checks for every instance.

Everything runs in one thread.  What is hard about the code is not preemption but *re-entrance*:
an event handler calls the manager, which calls the policy, which changes connections, lists and
events that the handlers further up the stack have already looked at.


## Inventory

| Part | State | Operations | Talks to |
| --- | --- | --- | --- |
| **Transfer manager** `transferManager.py` | one list of transfers per transfer state; sets of busy, idle and closed connections; `connectionOrigin` (busy connections per host); finish time; run and transfer of a prediction | `enableTransfer`, `enqueueTransfer`, `startTransfer`, `finishTransfer`, `idledConnection`, `busiedConnection`, `closedConnection`, `scheduleTransfer`, `predictTransfer`, `runTransfers` | is called by transfers and connections; notifies the policy; opens connections; runs the simulator |
| **Policy** `policy.py` | none but the counter of `roundRobin` | `notify` (limits, loop over enabled transfers), `predict` (six policies), `_executePrediction` (eviction) | reads the manager's sets, calls `predictTransfer`, `scheduleTransfer`, `close` |
| **Transfer** `transfer.py` | NEW, ENABLED, ENQUEUED, ACTIVE, FINISHED; bytes left; connection; times; children | `enable`, `enqueue`, `start`, `transferBytes`, `finish` | tells the manager of every change |
| **Connection, TCP** `connection.py`, `tcpConnection.py` | IDLE, BUSY, CLOSED; NEW, SS, CA; pipeline; window; desired and available bandwidth; sums of bytes; next event | `connect`, `addTransfer`, `close`, the event handler, `updateDesiredBw`, `setAvailableBw`, `_scheduleNextEvent`, `_tickTime` | interface (bandwidth), simulator (events, ticks), transfers, manager |
| **Connection, MPTCP** `mptcpConnection.py` | as TCP, and a subflow per interface, each a TCP connection without transfers | as TCP; `onSubflowHandshakeDone`, `updateAvailableBw` | as TCP; master and subflows call each other |
| **Interface** `interface.py` | bandwidth, RTT, list of connections | `addConnection`, `removeConnection`, `updateConnectionBwShare` | calls `setAvailableBw` of its connections |
| **Event simulator** `eventSimulator.py` | time, heap of events, tick listeners, each for the real run and for the prediction; number of the prediction; flags of each event | `addEvent`, `_run`, `beginPrediction`, `endPrecition`, `disableEvent`, `isDisabled` | calls event handlers and tick listeners |
| **Storage switch** (in transfers, connections, interfaces) | a storage for the real run, one for a prediction, and the run the object was used in last | `_storageSwitch` | used by every access |
| **HAR parser** `harParser.py` | local variables of a loop | `generateTransfer`, `generateTransfers` | makes transfers of the entries of a file, children of each other, and enables the first ones |
| Main programs, log adapter, job scripts, tests | none that outlives a call | | |

What makes each part correct:

* *Transfer manager and policy*: every page is loaded completely, in the order of its
  dependencies and within the limits; lists, sets and the objects' own states agree although they
  are changed in the middle of each other's loops; no transfer is deferred for ever.
* *Storage switch*: a prediction behaves as if it had copied everything when it began, and the
  real run does not notice it.
* *Interface*: shares are feasible, fair, leave nothing over and are found in a bounded number
  of rounds, although the loop removes elements from the list it walks over.
* *TCP connection*: every byte is transferred once, within the capacity of the interface; every
  open connection has exactly one event to come; no byte is left at a deadline.
* *MPTCP connection*: as TCP; the bandwidth of a master is that of its subflows whenever time
  passes, although master and subflows call each other through the interfaces; idle connections
  take no bandwidth; every subflow gets through its handshake; a connection is never left without
  an event.
* *Policies*: a prediction ends and comes true; of what a policy considers nothing would be
  finished earlier than what it takes; what it takes can be executed.
* *HAR parser*: each transfer depends on the one that finished last before it started.


## Modules

| Module | Models | Abstract specification it implements |
| --- | --- | --- |
| `TransferManager` | manager, policy and the life cycle of a connection in the real run | `PageLoad` |
| `StorageSwitch` | predictions on the objects of one interface, shared events | `Snapshot` |
| `Interface` | `updateConnectionBwShare`, loop by loop | |
| `BandwidthShare` | the same computation as a function of the wishes | |
| `Lists` | the list comprehensions of the code | |
| `TcpConnection` | windows, bytes, deadlines and shares of the connections of an interface | `Pipelines` |
| `MptcpConnection` | the same for masters and their subflows on several interfaces | `Pipelines` |
| `Forecast` | `useOneInterfaceOnly` with the predictions it makes: two copies of `TcpConnection` | |
| `Policies` | what each policy makes of its predictions | |
| `HarParser` | derivation of the dependencies | |
| `TransferManagerProofs`, `StorageSwitchProofs`, `HarParserProofs`, `InterfaceProofs`, `TcpConnectionProofs`, `MptcpConnectionProofs`, `PoliciesProofs` | theorems | |
| `DataLemmas` | lemmas on lists, sums, recursive functions, and on `Shares` | |
| `MCTransferManager`, `MCStorageSwitch`, `MCMptcpConnection` | instances for TLC | |

The modules depend on each other where the parts of the program do.  `HarParserProofs` proves
(`ParentsComeFirst`) what `TransferManager` assumes of its pages.  `InterfaceProofs` proves
(`ReturnsShares`) that the loops compute the function `Shares` of `BandwidthShare`, which
`TcpConnection` and `MptcpConnection` use as one step.  `TransferManager` lets a busy connection finish its transfer at any moment;
`TcpConnection` and `MptcpConnection` show (`RefinesPipelines`) that a connection with windows
and deadlines does so in the end and in the order of its pipeline.  `TransferManager` lets the
policy pick any connection; `Policies` says which of them a policy takes, given the predicted
times, and `StorageSwitch` that a prediction is a run on a copy, which leaves no trace in the real
run.  `Forecast` builds on that: it runs `TcpConnection` on a copy of its variables, and shows that
the policy comes to a decision and that the time it decides by comes true.

### TransferManager

A handler is a chain of nested calls, and the state between two of them is what goes wrong.  So
a step is not a handler but a piece of one: the call stack is three variables, `pending` (the
rest of the loop of `notify`), `finishing` (the `finish()` that a connection calls *after* it
has told the manager that it is idle, `tcpConnection.py:142-143`) and `toEnable` (the rest of
the loop over the children in `finishTransfer`).  An event is taken only when all three are
empty.

* `SkipHostLimited`, `ScheduleOnNew`, `ScheduleOnIdle`, `ScheduleOnBusy`: one iteration of the
  loop of `notify`.  The three kinds of connection the prediction may pick differ in what
  `_scheduleTransfer`, `addTransfer` and the notifications change.  Each includes the eviction
  of an idle connection at the global limit (`Victims`).
* `FinishTransfer`, `EnableChild`: `Transfer.finish`, `finishTransfer`, `enableTransfer`.
* `GoIdle`, `StartNext`, `IdleTimeout`: the events of a connection.
* `RunEnded`: the event queue is empty.

Which connection is picked, when a transfer is finished and when an idle connection times out is
nondeterministic, so the results hold for every policy, every network and every size.  Which
idle connection is closed is nondeterministic as well: the code takes the one idle longest.
When the policy picks that one itself, nothing is closed.  A connection is closed at the limit
even if the transfer is only pipelined and opens none; the model does so, too.

### StorageSwitch

Every object has `rStorage`, `pStorage` and `pRun` as in the code; a step in run `k` reads
through `View(_, k)` and writes through `Access(k, ...)`, which copies what is used for the first
time in `k`.  `used` is the set of objects whose `_storageSwitch` the handler calls, so a late
copy happens exactly when it does in the code.  Events carry the flags `rDisabled`, `pDisabled`
and `pRun`, and are shared by both queues.  Time is left out: the event taken next, and which
connections get a new deadline when shares change, are arbitrary.  A prediction may begin
between any two steps of the real run.  `addEvent` ignores events of a prediction that has ended
("stragglers"); in the modelled handlers the call that ends the prediction is the last one, and
the branch is not reached.

### Interface and BandwidthShare

`Interface` takes the loops apart: `BeginRound` and `EndRound` are a turn of the `while` loop,
`Keep` and `MoveToLow` an iteration of the `for` loop with Python's index into the list that
becomes shorter (the element behind a removed one is skipped), `ShareOut` the last loop.  What
a connection wants is arbitrary.  It changes between two calls, and in the middle of one: a
connection whose share is set may leave slow start and want more (`Raised`, from
`setAvailableBw`), while the loops go on with the others.  The call reads no wish after that, so
the result is judged by the wishes at its beginning, which the auxiliary variable `wished` keeps.

`BandwidthShare` has the result of the call as a function of the list of connections and what
they want.  It knows nothing of an index: `Moved` says which elements a `for` loop moves (those
that are satisfied and not right behind one that is moved), `LoopTurn` is a turn of the `while` loop,
which makes at most as many as there are connections.  It is written with recursive functions and
`Filter` (of `Lists`), about which TLAPS can reason.

### TcpConnection

The variables are the storages of connections and transfers, the time, and the event being
handled.  `TakeEvent` is an iteration of the event loop up to the handler: it picks an earliest
event, lets all connections tick, and sets the time; `GoIdle`, `StartNext`, `NextRound` and
`TimeOut` are the branches of the handler, `Connect`, `AddTransfer` and `CloseIdle` the calls of
the policy, which happen after a handler at the same time.  `OtherEvent` is an event on another
interface: the time passes for all listeners.  Each handler includes everything it calls, down
to the new deadline of every connection whose share changes.  Events at the same time are
taken in any order; the heap takes them in an order of its own.

Times are integers.  A second has a number of ticks that every possible share divides
(`SecondAssumption`), so the division that gives a deadline is exact, as the code's assertion
`outstandingBytes == round(availableBw * transferFinishTime)` wants it to be.  What `int()`
truncates in a tick, a window or a share is truncated in the model.  With integers, the
correction of overshoots against `lastBwUpdate` (`tcpConnection.py:385-402`) never has an
effect; it is there for floating point numbers and kept in the model.  The window after slow
start is left out because nothing reads it.

A slow-start round that leaves `int(cwnd / rtt)` as it was would leave the connection without an
event (`tcpConnection.py:158, 273`).  That takes a window of a few bytes; it does not happen with
the windows of the program (14600 bytes and more) nor in the instance checked, which
`EventToCome` shows.

### MptcpConnection

The steps, the treatment of time and the calls of the policy are those of `TcpConnection`.  A
connection has a record for its master and one for each subflow.  What goes wrong here is the
order of nested calls, so the operators follow the calls of the code: `UpdateDesiredBw` (the
master tells its subflows one after the other, while `bwUpdateInProgress` is set) calls
`UpdateFlowDesiredBw`, which calls `UpdateConnectionBwShare` of the interface, which calls
`SetAvailableBw` of all its subflows and `UpdateAvailableBw` of all their masters, which adds up
the shares and sets a new deadline.  Each handler is one of these chains.  `HandshakeDone` of
the first subflow connects the others (`onSubflowHandshakeDone`).  The order of the interfaces of
a connection is any in `Paths`, as a policy may tell it.

When a busy subflow leaves slow start in `setAvailableBw`, the code sets what it wants without
asking the interface again, and so does the model (`DropsOut`).  A slow-start round that changes
nothing leaves a subflow without an event; unlike that of a TCP connection this does not stop the
transfer, because the deadline is the master's.

### Forecast

`P` is a second instance of `TcpConnection` on the variables that hold the copy.  `Ask` is a call
of `predict`; `BeginPrediction`, `PredictionRun`, `EndPrediction` are the prediction for one of
the connections, or for a new one; `Execute` sends the transfer where it is finished first.  While
the policy decides, the real run stands still.

A forecast is void when another transfer is sent to a connection of the same interface, since it
takes bandwidth.  It is void as well when two events of the real run are due at the same time: the
order in which they are handled decides on the shares, the code takes them from a heap that need
not be laid out in the copy as in the original, and the model leaves the order open.

### Policies

The predicted times are any function to two values.  `Predict` is one case per policy class, and
`Best` the comparison they all make.  Where the code walks over a set or draws a sample, the
model tries all orders; the order in which `earliestArrivalFirstMPTCP` tries combinations of
interfaces is left open too, which matters only between combinations with equal times.  `Execute` and
`Close` keep what the policies read: which connections are open, over which interfaces and to
which host.  `mptcpFullMeshPolicy` tries one new connection whose order of interfaces is drawn at
random, so nothing is said of the others.

### HarParser

`Init` enumerates all recordings; `NextFinished` is an iteration of the `while` loop and
`AddTransfer` the rest of an iteration of the `for` loop.  `sorted` is stable, hence
`FinishesBefore`.


## Runs

| Run | Instance | Result |
| --- | --- | --- |
| `TransferManager` | all dependency forests over 4 transfers, 2 hosts, ssl or not for the last; both limits 2 | holds |
| `GlobalLimit` | the same | violated, see below |
| `StorageSwitch` | 2 connections, 2 transfers, 2 predictions, 3 events per connection | holds |
| `Interface` | 3 connections, bandwidth 6, wishes up to 5 | holds |
| `CappedByDesired` | the same | violated, see below |
| `TcpConnection` | 2 connections, 3 transfers of 3 or 14 bytes, 8 bytes per second | holds |
| `SlowStart` | the same | violated, see below |
| `StaleDeadline` | 2 connections, 2 transfers of 4 or 6 bytes, 8 bytes per second, a round trip of a second | violated, see below |
| `MptcpConnection` | 2 connections over 2 interfaces, the fast one first, 3 transfers of 3 or 14 bytes, 5 and 3 bytes per second, round trips of half a second and a second | holds |
| `Forecast` | 2 connections, 3 transfers, as `TcpConnection` | holds |
| `Policies` | 2 connections at a time, 2 hosts, 2 interfaces, 2 finish times | holds |
| `HarParser` | 4 transfers, times 0 to 3 | holds |

Why the bounds suffice:

* `TransferManager`: limits of 2 are reached and left again with 4 transfers, on one host and on
  two; a pipeline can hold all of them; a transfer can have up to three children; every order of
  nested calls occurs.  No bound restricts the number of connections: each transfer opens at
  most one and it is named after it.
* `StorageSwitch`: two predictions are needed for a copy or a flag of an earlier one to be taken
  for current, and both can run on either side of any real step.  `MaxEvents` counts events that
  something still refers to: 3 are enough for one in the real run, one in the prediction and one
  that is replaced.  A step that would need more is cut off.  Connections and transfers are
  symmetric; no liveness is checked under the symmetry.
* `Interface`: three connections are the smallest number with an element behind a skipped one;
  with wishes on both sides of 6/3, 6/2 and their remainders the loop takes one to three turns.
* `TcpConnection`: a window of 2 bytes and a round trip of half a second make slow start last for
  some rounds, a transfer of 3 bytes ends in the middle of one, one of 14 bytes leaves it.  Three
  transfers are enough for a pipeline next to a second connection and for using a connection
  again.  `OtherTimes` bounds events on other interfaces to one moment, between the rounds of the
  handshakes, so that one tick is cut in two.  The system stops when all connections are closed,
  so deadlock is not checked; that they do get closed is part of `Pipelines`.
* `MptcpConnection`: the handshake of the second subflow ends after that of the first, while the
  connection is busy with its first transfer, idle, busy again, or closed; both interfaces are
  shared by both connections, one of them in slow start and one not.  The interface with the
  longer round trip comes second, so that its handshake outlasts whole transfers on the other.
  Symmetry is not used, because liveness is checked in the same run.
* `Forecast`: the policy chooses between a connection that is busy, one that is idle and a new
  one; the third transfer is forecast on top of two others.
* `Policies`: two finish times are enough for earlier, later and equal; two interfaces for one to
  be passed over and for every order of two.  `MaxTurns` ends a run after three decisions for an
  interface.
* `HarParser`: four transfers with times 0 to 3 contain every order, with equal times, of starts
  and ends around one another.

What the properties say is written beside them.  Those that take most to violate:

* `NoLostWakeup`: whoever is deferred when a handler returns is really held back by a limit.
  `notify` runs in two places only, and the set it looks at changes inside it.
* `PipelinesConsistent`, `AssertionsHold`: a connection is idle and may be used again before its
  last transfer is told that it is finished.
* `EvictBeforeOpening`, `NoOvertaking`: action properties on the two limits.
* `OneEvent`, `ViewConsistent`, `RefinesSnapshot`: late copies are taken in time, shared events
  are disabled in the right runs only.
* `NoEnvy`, `WorkConserving`: fairness of the shares in spite of skipped elements.
* `DoneAtDeadline`, `WithinCapacity`, `NeverOvershoots`, `BytesConserved`: truncated ticks, stale
  deadlines (`currTransferFinishTime` is never reset) and sums kept beside the transfers.
* `SharesAddUp`, `EventsToCome`: master and subflows agree after every chain of calls through the
  interfaces, idle ones take no bandwidth, and nobody is left without an event.
* `RefinesPageLoad`, `RefinesPipelines`: with their fairness, the liveness of the whole: every page is
  loaded, every pipeline is worked off in order and every connection closed.
* `AllFlowsJoin`: no change of the shares drops a handshake.  It reaches the subflow in the middle of
  it; that an unchanged share is not set is all that keeps the event.
* `DecisionReached`, `ForecastComesTrue`: predictions end, and the real run repeats what was said for the
  connection that was chosen.  That predictions do not disturb the real run or one another is not at
  stake there, where each is a copy of its own, but in `RefinesSnapshot`.
* `BestTaken`: no alternative that a policy considers is earlier than what it decides for, and that
  can be executed.
* `InTurn`: round robin also when connections are reused and closed.

`DependencyRespected` of `TransferManager` and `TypeOK` of all other modules are not in a run, where
deeper properties are evaluated instead; they are proved.

### Disagreements found

* **Global limit.**  `src/README.md:55-57` says that the overall number of connections is limited
  to 17.  `notify` tests the limit once, before a loop that may open a connection in each
  iteration; and busy connections only count.  What does hold is `EvictBeforeOpening`.
* **Capped by the window.**  The loop in `updateConnectionBwShare` skips connections; if the share
  does not change in the next turn, a skipped one gets the equal share although it wants less.
* **Leaving slow start.**  `setAvailableBw` compares a share calculated from the window at the
  beginning of a round with the window as it has grown since.  Any update of the shares in the
  middle of a round ends slow start, with bandwidth to spare.
* **A stale deadline.**  If the end of a round takes the place of a deadline, the deadline stays in
  `currTransferFinishTime`, and a tick that ends at just this time completes the transfer, with
  bytes its share does not allow: in `StaleDeadline` 4 bytes, where the share has allowed 2, because the
  stale deadline and the end of the round coincide.  The
  comments speak of rounding only (`tcpConnection.py:385, 404`).  It takes a connection in slow
  start with more bandwidth than it wants, as in *Capped by the window*.

One more follows from a single line, and no run repeats it: `updateDesiredBw` says it makes sure not to
drop below `availableBw` when few bytes are left, and takes the maximum with 1 instead
(`tcpConnection.py:260-262`).

The prediction policies are also more willing to queue than `src/README.md:29-31` sounds (a connection
is reused if it is idle or expected to become idle before a new one can be established): they
compare when the transfer would be *finished*, and prefer an existing connection if that is equal.
On a shared interface it often is, since the two connections share its bandwidth.

### Fairness

The program is one thread that handles events until there are none.  `TransferManager` has
`WF_vars(Next)`: every busy or idle connection has an event in the queue (which `EventToCome` and
`OneEvent` show where events are modelled), so the program does not stop as long as something can
happen.  Nothing is assumed of the order in which connections are served; that all of them are in
the end follows because transfers are finite in number.  `TcpConnection` and
`MptcpConnection` have `WF_event(Takes)` and `WF_event(Handles)`: the event loop takes and handles
events.  The calls of the policy are not fair, and neither are events on other interfaces.  The loop
takes an event when none is being handled and one is pending, and only `TakeEvent` does that; an event
being handled is one of those that `EventToCome` (`EventsToCome`)
and `DoneAtDeadline` speak of, and there is exactly one handler for each.  In `Forecast` it is the
policy that is fair (`WF(Decide)`): the event loop waits for it, and a prediction goes on by itself.
The real run needs no fairness there.  `Interface`, `StorageSwitch`, `HarParser`
and `Policies` have no fairness: that a computation of shares ends is said by `RoundsBounded`.


## Theorems

`TransferManagerProofs` proves, for every number of transfers, every set of pages in which
dependencies come first, every set of hosts and both limits at least 1 (`NAssumption`,
`LimitAssumption`, `PagesAssumption`):

`TypeCorrect`, `Bookkeeping`, `Pipelines`, `Assertions`, `Dependencies`, `HostLimitHolds`,
`NoWakeupIsLost`, `RunEndsLoaded`.

The argument.  No invariant of the manager is inductive alone: that the next iteration of
`notify` finds its transfer enabled depends on the lists, these on the pipelines, and these on
what `finishing` and `toEnable` still have to do.  `Inv` is their conjunction with what relates the
three call-stack variables to each other and to the transfers.  There is one lemma per action for
`Inv`; the theorems on lists, pipelines, assertions and dependencies are conjuncts of it.
`HostLimitHolds` adds the cardinality of `connectionOrigin`.  `NoWakeupIsLost` needs an invariant
that also speaks of the middle of a handler: an enabled transfer is held back by a limit *or*
the running loop of `notify` has not come to it yet (`Deferred`).
`RunEndsLoaded` follows from the others: if the queue is empty no connection is busy, so no limit
holds anything back, nothing is enabled, and a new transfer has an unfinished ancestor.

On top of this, and under the same assumptions, it proves what a step may never do:
`NobodyOvertakes`, `EvictionComesFirst`, and `SafePageLoad`, the safety part of
`RefinesPageLoad`.  Nobody overtakes because the rest of the loop of `notify` is in the order in which
the transfers were enabled, but for those that it skipped at the host limit; and they stay at this
limit for the rest of the loop, because it only makes connections busy (`PendingInOrder`).

`StorageSwitchProofs` proves all properties of `StorageSwitch`, for every set of connections and
transfers and any number of predictions and events (`ObjectsAssumption`, `NoneAssumption`,
`BoundsAssumption`): `TypeCorrect`, `OneEventEach`, `ViewsAgree`, `ResultThere`,
`NothingRelapses`, and `Refinement`, that copying late implements `Snapshot`.  The inductive
invariant says of *the view of a run* that it is consistent: pipelines, interface and events to
come agree (`Consistent(k)`), for the real run and for the prediction that runs.  A call in run `k`
changes no other view, whatever it copies, and the view of run `k` as a call on a full copy
would; a new prediction has a number that no object or event knows (`Fresh`), so that its view is
that of the real run.

`HarParserProofs` proves `PopIsSafe`, `Dependencies` and `DependenciesFormForest` for every number
of transfers and all times.  Its `Inv` says that what is left of the list is sorted, comes after
`nextDependency`, and that every transfer is in it, is `nextDependency`, or finished no later than
`lastDependency`.

`InterfaceProofs` proves every property of `Interface` that holds: `TypeCorrect`, `CapacityHolds`,
`RoundsAreBounded`, `NobodyEnvies`, `NothingIsWasted`, and `LoopsComputeShares`, for any number of
connections that come, go and change their wishes, be it in the middle of a call.  Assumed is a byte per second for each
connection (`BandwidthAssumption`).  The invariant `IInv` speaks of the middle of a call: the satisfied
connections have what they want, `bwLowSum` is the sum of it, they want no more than the equal
share, and `bwLowSum` plus the equal share of those that wait fits into the bandwidth (`Sharing`);
who waits still wants what it wanted at the beginning, whatever the others want meanwhile (`Wishes`).
Since a connection is only moved if it wants at most the equal share, what is left for the others does not
shrink, whichever elements the loop skips; the next equal share is therefore no smaller than the last
(`EqualShareFits`), and an earlier satisfied connection is not envied.  A round that
moves nobody leaves the equal share as it is and is the last (`Moving`), hence the bound on the rounds.
For `LoopsComputeShares` the invariant `Computed` adds where `Shares` is meanwhile: in the `for` loop there is an element
of the list at the *beginning* of the round such that what is before the index is what `Filter` has left
of the elements up to it, and what comes from the index on is the rest of that list (`Walked`).
Each step of the index advances the element by one, or by two when it skips one.

`TcpConnectionProofs` proves, for any connections, transfers, sizes, times and bandwidth that meet the
assumptions of the module, `TypeCorrect`, `BytesAreConserved`, `SharesAreRight` (who transfers has a share,
nobody else does, they fit), `HandlerAssertion` (when an event comes, no byte is left of a connection in congestion
avoidance, and the timeout of an idle one is over, `tcpConnection.py:176`), `TimeIsMonotone` (`eventSimulator.py:236`) and
`SafePipelines`, the safety part of `RefinesPipelines`.  `IInv` relates the list of the interface,
the pipelines, the states of the transfers and the sums; `EventsOk` says that no event lies in the past, that the event
of a connection in congestion avoidance is its current deadline, and that at this time nothing is left.
That a stale `currTransferFinishTime` does no harm there is because each change of the share sets it again; that
truncated ticks leave nothing over, because a deadline completes the transfer.

`EventsAreToCome` proves `EventToCome` under one more hypothesis, `RoundsCount`: each round of slow start changes the
wish of its connection.  The code relies on it as well: a round that does not calls nobody who
would set the next event (`tcpConnection.py:158, 273`).  Whether it does depends on the ticks: bytes are
truncated in each, so that events elsewhere can cut a round into ticks none of which moves a byte.  No constant of the module excludes it,
so it is not an assumption on constants; in the instance of the run it holds, since `EventToCome`, which
implies it, is checked there.

`CapacityIsRespected` (`WithinCapacity`), `ShareIsNotExceeded` (`NeverOvershoots`) and `DeadlinesAreMet`
(`DoneAtDeadline`) have the hypothesis `WindowLimits`: no connection in slow start has more bandwidth than its window
can use.  It is needed because `currTransferFinishTime` is never reset: if the share of a connection falls before the
round is over and the window still fits, the deadline of the greater share stays behind, and a tick at this very time
completes the transfer; this is what `StaleDeadline` finds.  With the hypothesis a share that falls ends slow start,
and a new deadline is calculated.

`WindowsDoLimit` shows that a condition on the constants alone is enough: the first window carries half of the
bandwidth in a round (`WindowsCarryHalf`).  A share is more than its connection wants only if it is an equal part of at
least two (`SharesMeetWishes`), since whoever the loop skips stands behind another; so it is at most half of
the bandwidth, and windows only grow before congestion avoidance.  The invariant is `Windows`: both what a
connection wants and what it has fit its window.  The instances of `TcpConnection` and `Forecast` meet the condition, that of
`StaleDeadline` does not.  With it `NoMoreThanThereIs` has `NeverOvershoots` and `WithinCapacity` without a hypothesis on the
behaviour.

The invariant `TimesOk` says of each connection that what it has transferred since its share was set is at most what the
share yields (`Limited`), that the deadline it waits for is the time at which the share yields what is left, rounded down
(`Due`, `RoundDue`), and that any other deadline lies in the past (`Settled`).  A deadline thus gives a
transfer less than a byte more than the truncated share, and takes it out of the fraction lost before; hence the bytes
of each connection, multiplied by the ticks of a second, stay below its `Weight`: what it had when its share was set
and what the share has allowed since.  As the shares fit the interface, the weights add up to at most
bandwidth times time (`Budget`).  `DeadlinesAreMet` also needs `RoundsCount`, since with windows of a byte and
events elsewhere in the round a connection may be left without the event at which it is done.

`MptcpConnectionProofs` proves, for any connections, interfaces, transfers, orders of interfaces, sizes, times
and bandwidths that meet the assumptions of the module, all safety properties of `MptcpConnection`:
`TypeCorrect`, `BytesAreConserved`, `SharesDoAddUp`, `DeadlinesAreExact` (`DoneAtDeadline`),
`BandwidthIsLimited` (`WithinBandwidth`), `TimeIsMonotone`, `SafePipelines`, the safety part of
`RefinesPipelines`, and `AllEventsToCome`.  The assumptions are those that make the arithmetic of the code
what it means to be: a second has a number of ticks that every bandwidth a connection can have divides, and an
interface has a byte per second for each connection.

The argument.  `IInv` has the lists of the interfaces, the pipelines and the bytes as for TCP, and for each
connection `Agree` (a master and its subflows: which exist, what state they are in, what they want and have),
`MasterOk` (its deadline) and `RoundOk` (the events of its subflows).  The properties of the run are not
inductive alone.  That shares add up needs to be known that exactly the subflows past their handshake want something
(`WishOk`), or a new share could reach a subflow of an idle connection; that the deadline is exact needs that the
bytes transferred since the bandwidth was set and those that are left are together what the bandwidth
yields until the deadline (`DeadlineOk`), and this needs that they never are more (`CapacityOk`).  When a
handler runs, the connection whose event it is has no deadline; `HandledOk` and `HandledRound` say
what is true of it instead.

The chains of calls are proved in three layers.  The first is a call of `updateConnectionBwShare` of *one* interface:
the shares fit, and each connection for itself gets shares with which it is whole again, since the lemma on
`UpdateAvailableBw` needs nothing of the other connections.  The second is `UpdateDesiredBw`: while a
connection tells one subflow after the other, it does not listen (`bwUpdateInProgress`) and does not agree with its subflows,
but all *other* connections are whole after each of these calls; the induction goes along the
list of subflows and says of those told that they want and have what they should, and of the rest that
nothing has been taken from them but by their own interface.  At its end the connection adds up and agrees again.  The third are the handlers.

A tick is the one place where truncation matters.  Each subflow transfers what its own share yields,
truncated; the master what the sum of the shares yields, truncated, and at its deadline what is left.
Truncated shares add up to no more than the truncated sum (`FlowsGetLess`, `SumsTicked`), so no subflow has
more than its master, and the master stays within `CapacityOk` (`TickArithmetic`).

`AllEventsToCome` (`EventsToCome`) has the hypothesis `RoundsCount`: each round of slow start changes what the connection
wants of the subflow, for the reason given above.  The half of it that matters most needs no hypothesis:
`MasterEventsToCome` says that each connection has a deadline or a time-out to come or is in its first handshake, whose end
is to come.  A subflow that loses its event stays in slow start and keeps its share, but its connection goes on.

`PoliciesProofs` proves `TakesTurns` (`InTurn`) and `TakesTheBest` (`BestTaken`) for any number of
interfaces, hosts and connections and all predicted times.  The invariant of the first is `Rotation`: the interfaces
before the index have had one turn more than the others.  The second shows of `Best`, by
induction along the list, that it returns a first minimum (`BestProperties`); of the orders in which a policy may walk over a
set it uses only that they hold all elements, so that no policy depends on them.

`DataLemmas` has the facts on `RemoveFirst`, `Append`, `Tail`, injective lists, `Filter`, sums over finite sets and
recursive functions, and what the connections' modules need of `Shares` (`SharesProperties`): shares fit into the
bandwidth, and who wants some gets some, if there is a byte for each; `SharesMeetWishes`: no share
is more than both the wish and half the bandwidth.  Induction along a list or a set is by a smallest counterexample
(`SmallestSubset`, `UpTo`, `RecursionUpTo`): the induction theorems of the library take an operator, which
the provers cannot instantiate, but a set of counterexamples is a value.

Only model-checked:

* Liveness, with the fairness parts of `RefinesPageLoad` and `RefinesPipelines`, `AllFlowsJoin` and
  `DecisionReached`; the provers have neither fairness nor `ENABLED`.
* That rounds count (`RoundsCount`) in `TcpConnection` and `MptcpConnection`, and with it what `EventsAreToCome`,
  `DeadlinesAreMet` and `AllEventsToCome` say without this hypothesis: it rests on the windows, shares and
  ticks of the instance.
* `Forecast`, which composes two copies of `TcpConnection`: that what was predicted comes true relates two
  executions, and rests on the windows and ticks of the instance.
* `CappedByDesired`, `SlowStart`, `StaleDeadline` and `GlobalLimit` are refuted, see above.


## Not modelled

* Predictions on MPTCP connections: master and subflows use the storage switch that `StorageSwitch`
  models for TCP connections; `MptcpConnection` is the real run.
* The limits in `Forecast`, whose connections are all to one host, and the other policies' predictions;
  `Policies` takes the predicted times as given.
* Rounding of floating point numbers, and the warnings about it.
* The heap, which only has to return an earliest event.
* `generateTransfer` of the HAR parser, which reads sizes, host names and times of an entry out of JSON and drops
  empty responses, and the sorting by start time: the model begins with the sorted list.
* Output, logging, main programs and job
  scripts: no state of their own.
* `reset` of an interface: nothing calls it.


## Plan

1. *Done*: all parts of the simulator but the reading of HAR entries; proofs for all modules but
   `Forecast`.
2. A condition on the constants of `TcpConnection` alone that implies `RoundsCount`, as `WindowsCarryHalf`
   implies `WindowLimits`.
3. Predictions on masters and subflows: a prediction connects subflows, which the real run must not
   reach.
