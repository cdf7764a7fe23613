------------------------------ MODULE Interface ------------------------------
(***************************************************************************)
(* The connections of one interface and how updateConnectionBwShare shares *)
(* its bandwidth among them, loop by loop.  The loop over connBWB is a     *)
(* Python for loop whose body removes elements of the list it walks over:  *)
(* the loop keeps an index, so the element after a removed one is skipped. *)
(*                                                                         *)
(* A connection is left out but for the two numbers it shares with the     *)
(* interface.  It may want any other bandwidth at any time.  It may also   *)
(* want more because of the share it gets (it leaves slow start), in the   *)
(* middle of the call and without telling the interface.                   *)
(***************************************************************************)
EXTENDS BandwidthShare

CONSTANTS Conns,      \* connections
          Bandwidth,  \* of the interface
          MaxDesired  \* bound on the bandwidth a connection wants

\* There is a byte per second for every connection.
ASSUME BandwidthAssumption == /\ IsFiniteSet(Conns)
                              /\ Bandwidth \in Nat \ {0} /\ Bandwidth >= Cardinality(Conns)
ASSUME MaxDesiredAssumption == MaxDesired \in Nat

VARIABLES
  connections,            \* InterfaceStorage.connections
  desiredBw, availableBw, \* of each connection
  pc,                     \* where updateConnectionBwShare is; "done" outside of it
  connBWB, bwLowSum, bwShare, round,  \* its local variables
  next,                   \* index of the for loop
  wished                  \* auxiliary: desiredBw when the call began

locals == <<connBWB, bwLowSum, bwShare, round, next, wished>>
vars == <<connections, desiredBw, availableBw, pc, locals>>

NoLocals(bwb, low, share, r, i, wishes) ==
  bwb = <<>> /\ low = 0 /\ share = 0 /\ r = 0 /\ i = 1 /\ wishes = [c \in Conns |-> 0]

Init ==
  /\ connections = <<>>
  /\ desiredBw = [c \in Conns |-> 0] /\ availableBw = [c \in Conns |-> 0]
  /\ pc = "done"
  /\ NoLocals(connBWB, bwLowSum, bwShare, round, next, wished)

-----------------------------------------------------------------------------
(* Between the calls *)

AddConnection(c) ==
  /\ pc = "done" /\ c \notin ToSet(connections)
  /\ connections' = Append(connections, c)
  /\ UNCHANGED <<desiredBw, availableBw, pc, locals>>

\* Only an idle connection is closed; its name may be used for a new one.
RemoveConnection(c) ==
  /\ pc = "done" /\ c \in ToSet(connections) /\ desiredBw[c] = 0
  /\ connections' = RemoveFirst(connections, c)
  /\ UNCHANGED <<desiredBw, availableBw, pc, locals>>

\* Idle connections get nothing.
SetIdle(desired) == [c \in Conns |-> IF c \in ToSet(connections) /\ desired[c] = 0
                                     THEN 0 ELSE availableBw[c]]

\* updateDesiredBw of a connection with a new value, which calls
\* updateConnectionBwShare; this is the part before its loop.
UpdateDesiredBw(c, bw) ==
  /\ pc = "done" /\ c \in ToSet(connections) /\ bw # desiredBw[c]
  /\ desiredBw' = [desiredBw EXCEPT ![c] = bw]
  /\ availableBw' = SetIdle(desiredBw')
  /\ connBWB' = Filter(connections, {d \in Conns : desiredBw'[d] > 0})
  /\ wished' = desiredBw'
  /\ pc' = "while"
  /\ UNCHANGED <<connections, bwLowSum, bwShare, round, next>>

-----------------------------------------------------------------------------
(* The loops of updateConnectionBwShare *)

\* Mutant: what the satisfied connections need is not subtracted.
EqualShare_Gross == Bandwidth \div Len(connBWB)
\* Mutant: rounded up.
EqualShare_Up == (Bandwidth - bwLowSum + Len(connBWB) - 1) \div Len(connBWB)
EqualShare == (Bandwidth - bwLowSum) \div Len(connBWB)

\* Mutant: one round is taken to be enough.
Converged_Once == connBWB # <<>> => round > 0
\* Mutant: the loop goes on until every connection is satisfied.
Converged_Empty == connBWB = <<>>
\* The condition of the while loop, negated.
Converged == connBWB # <<>> => bwShare = EqualShare

BeginRound ==
  /\ pc = "while" /\ ~Converged
  /\ bwShare' = EqualShare
  /\ next' = 1
  /\ pc' = "for"
  /\ UNCHANGED <<connections, desiredBw, availableBw, connBWB, bwLowSum, round, wished>>

\* The connection wants no more than the equal share.
Satisfied(c) == desiredBw[c] <= bwShare

\* The next connection is limited by the bandwidth.
Keep ==
  /\ pc = "for" /\ next <= Len(connBWB) /\ ~Satisfied(connBWB[next])
  /\ next' = next + 1
  /\ UNCHANGED <<connections, desiredBw, availableBw, pc, connBWB, bwLowSum, bwShare, round,
                 wished>>

\* What the connections may want once setAvailableBw has been called for those of S:
\* one that leaves slow start wants more than before.
Raised(S) == {desired \in [Conns -> 0 .. MaxDesired] :
                \A c \in Conns : IF c \in S THEN desired[c] >= desiredBw[c]
                                ELSE desired[c] = desiredBw[c]}

\* Mutant: the sum is updated after the share is set, and reads the wish again.
MoveToLow_ReadsAgain ==
  /\ pc = "for" /\ next <= Len(connBWB) /\ Satisfied(connBWB[next])
  /\ LET c == connBWB[next]
     IN  /\ connBWB' = RemoveFirst(connBWB, c)
         /\ availableBw' = [availableBw EXCEPT ![c] = desiredBw[c]]
         /\ desiredBw' \in Raised({c})
         /\ bwLowSum' = bwLowSum + desiredBw'[c]
  /\ next' = next + 1
  /\ UNCHANGED <<connections, pc, bwShare, round, wished>>
\* The next connection gets all it wants, and may want more then.  The list becomes
\* shorter while the index grows.
MoveToLow ==
  /\ pc = "for" /\ next <= Len(connBWB) /\ Satisfied(connBWB[next])
  /\ LET c == connBWB[next]
     IN  /\ connBWB' = RemoveFirst(connBWB, c)
         /\ bwLowSum' = bwLowSum + desiredBw[c]
         /\ availableBw' = [availableBw EXCEPT ![c] = desiredBw[c]]
         /\ desiredBw' \in Raised({c})
  /\ next' = next + 1
  /\ UNCHANGED <<connections, pc, bwShare, round, wished>>

EndRound ==
  /\ pc = "for" /\ next > Len(connBWB)
  /\ round' = round + 1
  /\ pc' = "while"
  /\ UNCHANGED <<connections, desiredBw, availableBw, connBWB, bwLowSum, bwShare, next,
                 wished>>

\* The remaining connections get the equal share, and the call returns.
ShareOut ==
  /\ pc = "while" /\ Converged
  /\ availableBw' = [c \in Conns |-> IF c \in ToSet(connBWB) THEN bwShare ELSE availableBw[c]]
  /\ desiredBw' \in Raised(ToSet(connBWB))
  /\ pc' = "done"
  /\ NoLocals(connBWB', bwLowSum', bwShare', round', next', wished')
  /\ UNCHANGED connections

UpdateConnectionBwShare == BeginRound \/ Keep \/ MoveToLow \/ EndRound \/ ShareOut

Next ==
  \/ \E c \in Conns : AddConnection(c) \/ RemoveConnection(c)
  \/ \E c \in Conns, bw \in 0 .. MaxDesired : UpdateDesiredBw(c, bw)
  \/ UpdateConnectionBwShare

Spec == Init /\ [][Next]_vars

-----------------------------------------------------------------------------
(* Properties *)

\* Types of the variables.
TypeOK ==
  /\ connections \in Seq(Conns) /\ IsInjective(connections)
  /\ desiredBw \in [Conns -> 0 .. MaxDesired]
  /\ availableBw \in [Conns -> Nat]
  /\ pc \in {"done", "while", "for"}
  /\ connBWB \in Seq(Conns) /\ IsInjective(connBWB) /\ ToSet(connBWB) \subseteq ToSet(connections)
  /\ bwLowSum \in 0 .. Bandwidth /\ bwShare \in Nat /\ round \in Nat /\ next \in Nat \ {0}
  /\ wished \in [Conns -> 0 .. MaxDesired]

Used == SumFunctionOnSet(availableBw, ToSet(connections))

\* Whenever a call has returned, the connections do not get more than the
\* interface has, whatever elements the loop skipped and whatever connection has
\* been added or closed since.
CapacityRespected == pc = "done" => Used <= Bandwidth

\* The loop needs no more rounds than there are connections (interface.py:107).
RoundsBounded == pc = "while" /\ ~Converged => round < Len(connections)

\* A call is judged by what the connections wanted when it began.
Returns == pc = "while" /\ pc' = "done"
Wanting == {c \in ToSet(connections) : wished[c] > 0}
Short == {c \in Wanting : availableBw'[c] < wished[c]}

\* A connection that gets less than it wants gets no less than any other.
NoEnvy == [][Returns => \A c \in Short, d \in ToSet(connections) :
                           availableBw'[d] <= availableBw'[c]]_vars

\* If one gets less than it wants, no more than a rounding error is left over.
WorkConserving == [][Returns /\ Short # {} => Bandwidth - Used' < Cardinality(Wanting)]_vars

\* The loops compute the function with which TcpConnection replaces the call, from
\* any shares the connections had before.  They do not mix what the connections wanted
\* when the call began with what they want once they have their share.
ReturnsShares ==
  [][Returns => \A c \in ToSet(connections) :
                   availableBw'[c] = Shares(connections, wished, Bandwidth)[c]]_vars

\* The throughput of a connection is capped by the congestion window or the share
\* of the interface (README.md:38-39), so it does not get more than it wants.
CappedByDesired == [][Returns => \A c \in ToSet(connections) : availableBw'[c] <= wished[c]]_vars

=============================================================================
