------------------------------ MODULE Policies ------------------------------
(***************************************************************************)
(* What the policies make of the predictions: which connections, existing  *)
(* or new, each of them considers for a transfer, and which one it takes.  *)
(* The predicted finish times are given from outside (Forecast shows how   *)
(* they come about), so any combination of them is decided about.          *)
(*                                                                         *)
(* A connection over one interface is a TCP connection, one over several   *)
(* an MPTCP connection.  The limits are left to TransferManager.           *)
(***************************************************************************)
EXTENDS Integers, FiniteSets, SequencesExt, Lists

CONSTANTS Conns,          \* connections there may be at a time
          Hosts,          \* host and ssl of a transfer, and of a connection
          NumInterfaces,
          Times,          \* predicted finish times
          MaxTurns        \* bound: decisions counted for each interface

None == "none"

ASSUME ConnsAssumption == None \notin Conns
ASSUME HostsAssumption == Hosts # {}
ASSUME NumInterfacesAssumption == NumInterfaces \in Nat \ {0}
ASSUME TimesAssumption == Times \subseteq Nat \ {0} /\ IsFiniteSet(Times) /\ Times # {}

Interfaces == [i \in 1 .. NumInterfaces |-> i]   \* the list of all interfaces

VARIABLES
  policy,           \* the class of the policy
  interfaces,       \* what its constructor was given
  nextInterfaceId,  \* roundRobin only
  connections,      \* open connections, oldest first
  connInterfaces, host,   \* of every connection
  turns             \* how often roundRobin has decided for each of its interfaces

vars == <<policy, interfaces, nextInterfaceId, connections, connInterfaces, host, turns>>

SingleInterface == {"useOneInterfaceOnly", "roundRobin", "earliestArrivalFirst"}
Mptcp == {"mptcpFullMeshIFListPolicy", "mptcpFullMeshPolicy", "earliestArrivalFirstMPTCP"}

\* The policies as the main program makes them.
Init ==
  /\ policy \in SingleInterface \cup Mptcp
  /\ interfaces \in CASE policy = "useOneInterfaceOnly" -> {<<i>> : i \in ToSet(Interfaces)}
                      [] policy = "roundRobin" -> {Interfaces, Reverse(Interfaces)}
                      [] OTHER -> {Interfaces}
  /\ nextInterfaceId = 1
  /\ connections = <<>>
  /\ connInterfaces = [c \in Conns |-> <<>>]
  /\ host \in [Conns -> {CHOOSE h \in Hosts : TRUE}]
  /\ turns = [i \in ToSet(Interfaces) |-> 0]

-----------------------------------------------------------------------------
(* Predictions: conn or ifaces is set, as in the dictionaries of the code *)

New(ifaces) == [conn |-> None, ifaces |-> ifaces]
Pipelined(c) == [conn |-> c, ifaces |-> <<>>]
Nothing == [conn |-> None, ifaces |-> <<>>]

\* A finish time is predicted for every connection there is and that could be made.
Predictions ==
  [{Pipelined(c) : c \in ToSet(connections)}
     \cup {New(p) : p \in SetToAllKPermutations(ToSet(Interfaces)) \ {<<>>}} -> Times]

\* The first of the earliest predictions, Nothing if there is none.
Best(time, ways) ==
  LET best[n \in 0 .. Len(ways)] ==
        IF n = 0 THEN Nothing
        ELSE IF ways[n] # Nothing /\ (best[n - 1] = Nothing \/ time[ways[n]] < time[best[n - 1]])
             THEN ways[n] ELSE best[n - 1]
  IN  best[Len(ways)]

\* _predictPipelinedConnections.
PredictPipelinedConnections(h, time, cs) ==
  LET sameHost == Filter(cs, {c \in Conns : host[c] = h})
  IN  Best(time, [n \in DOMAIN sameHost |-> Pipelined(sameHost[n])])

-----------------------------------------------------------------------------
(* predict of the policies.  Sets have no order in which their elements are  *)
(* tried, and sample draws one at random: these return a set.                *)

ConnectionsOf(i) == Filter(connections, {c \in Conns : i \in ToSet(connInterfaces[c])})
CandidateOrders == SetToSeqs(ToSet(connections))

UseOneInterfaceOnly(i, h, time) ==
  Best(time, <<PredictPipelinedConnections(h, time, ConnectionsOf(i)), New(<<i>>)>>)

EarliestArrivalFirst(h, time) ==
  Best(time, [n \in DOMAIN Interfaces |-> UseOneInterfaceOnly(Interfaces[n], h, time)])

MptcpFullMesh(ifaces, h, time) ==
  {Best(time, <<PredictPipelinedConnections(h, time, cs), New(ifaces)>>) : cs \in CandidateOrders}

\* Mutant: interfaces are combined in their order only.
Combinations_InOrder ==
  SetToSeqs({New(p) : p \in {q \in SetToAllKPermutations(ToSet(Interfaces)) :
                               Len(q) > 1 /\ \A a, b \in DOMAIN q : a < b => q[a] < q[b]}})
\* New connections over several interfaces; in which order they are tried is left open.
Combinations ==
  SetToSeqs({New(p) : p \in {q \in SetToAllKPermutations(ToSet(Interfaces)) : Len(q) > 1}})

EarliestArrivalFirstMPTCP(h, time) ==
  {Best(time, <<PredictPipelinedConnections(h, time, cs)>>
                \o [n \in DOMAIN Interfaces |-> New(<<Interfaces[n]>>)] \o combinations)
     : cs \in CandidateOrders, combinations \in Combinations}

Predict(h, time) ==
  CASE policy = "useOneInterfaceOnly"  -> {UseOneInterfaceOnly(interfaces[1], h, time)}
    [] policy = "roundRobin"           -> {UseOneInterfaceOnly(interfaces[nextInterfaceId], h, time)}
    [] policy = "earliestArrivalFirst" -> {EarliestArrivalFirst(h, time)}
    [] policy = "mptcpFullMeshIFListPolicy" -> MptcpFullMesh(interfaces, h, time)
    [] policy = "mptcpFullMeshPolicy"  -> UNION {MptcpFullMesh(p, h, time) : p \in SetToSeqs(ToSet(Interfaces))}
    [] policy = "earliestArrivalFirstMPTCP" -> EarliestArrivalFirstMPTCP(h, time)

-----------------------------------------------------------------------------
(* The transfers come and the connections go *)

\* Mutant: the next interface stays when a connection is reused.
NextTurn_NewOnly(way) ==
  IF policy = "roundRobin"
  THEN /\ nextInterfaceId' = IF way.conn = None THEN (nextInterfaceId % Len(interfaces)) + 1 ELSE nextInterfaceId
       /\ turns' = [turns EXCEPT ![interfaces[nextInterfaceId]] = @ + 1]
  ELSE UNCHANGED <<nextInterfaceId, turns>>
NextTurn(way) ==
  IF policy = "roundRobin"
  THEN /\ nextInterfaceId' = (nextInterfaceId % Len(interfaces)) + 1
       /\ turns' = [turns EXCEPT ![interfaces[nextInterfaceId]] = @ + 1]
  ELSE UNCHANGED <<nextInterfaceId, turns>>

\* _executePrediction for a new connection, for an existing one nothing changes here.
Execute(way, h) ==
  IF way.conn # None THEN UNCHANGED <<connections, connInterfaces, host>>
  ELSE \E c \in Conns \ ToSet(connections) :
         /\ connections' = Append(connections, c)
         /\ connInterfaces' = [connInterfaces EXCEPT ![c] = way.ifaces]
         /\ host' = [host EXCEPT ![c] = h]

\* A transfer to h is sent.
Schedule(h) ==
  /\ \A i \in DOMAIN turns : turns[i] < MaxTurns
  /\ \E time \in Predictions : \E way \in Predict(h, time) : Execute(way, h) /\ NextTurn(way)
  /\ UNCHANGED <<policy, interfaces>>

\* A connection is closed, at the global limit or when it was idle for too long.
Close(c) ==
  /\ c \in ToSet(connections)
  /\ connections' = RemoveFirst(connections, c)
  /\ UNCHANGED <<policy, interfaces, nextInterfaceId, connInterfaces, host, turns>>

Next == (\E h \in Hosts : Schedule(h)) \/ (\E c \in Conns : Close(c))

Spec == Init /\ [][Next]_vars

-----------------------------------------------------------------------------
(* Properties, for all that may be predicted for a transfer to any host *)

\* Interfaces the policy considers this time.
Turn == IF policy \in {"useOneInterfaceOnly", "roundRobin"} THEN {interfaces[nextInterfaceId]}
        ELSE ToSet(Interfaces)
\* Connections of the policy to h that exist.
Reusable(h) == {Pipelined(c) : c \in {d \in ToSet(connections) :
                                       host[d] = h /\ ToSet(connInterfaces[d]) \cap Turn # {}}}
\* New connections it tries in any case; mptcpFullMeshPolicy tries one that is drawn at random.
Openable == IF policy \in SingleInterface THEN {New(<<i>>) : i \in Turn}
            ELSE IF policy = "mptcpFullMeshIFListPolicy" THEN {New(interfaces)}
            ELSE IF policy = "mptcpFullMeshPolicy" THEN {}
            ELSE {New(p) : p \in SetToAllKPermutations(ToSet(Interfaces)) \ {<<>>}}

\* A policy takes a connection that is open to that host, or interfaces for a new one, and of
\* what it considers nothing is better than what it takes: nothing would be finished earlier,
\* and no existing connection as early as a new one that it opens.  Only earliestArrivalFirst
\* compares a new connection with existing ones of its interface alone.
BestTaken ==
  \A h \in Hosts : \A time \in Predictions : \A way \in Predict(h, time) :
    /\ way \in Reusable(h) \/ (way.conn = None /\ way.ifaces # <<>>)
    /\ \A other \in Reusable(h) \cup Openable : time[way] <= time[other]
    /\ way.conn = None =>
         \A pipe \in Reusable(h) :
           \/ time[way] < time[pipe]
           \/ policy = "earliestArrivalFirst" /\ connInterfaces[pipe.conn] # way.ifaces

\* roundRobin sends over its interfaces in turn, although it may decide for existing
\* connections and connections are closed meanwhile.
InTurn ==
  policy = "roundRobin" =>
    \A i, j \in DOMAIN turns : turns[i] <= turns[j] + 1

=============================================================================
