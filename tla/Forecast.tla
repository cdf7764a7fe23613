------------------------------ MODULE Forecast ------------------------------
(***************************************************************************)
(* How the policy useOneInterfaceOnly decides where to send a transfer.    *)
(* For every connection there is, and for a new one, it asks the transfer  *)
(* manager to predict when the transfer would be finished: TcpConnection   *)
(* runs on a copy of all its variables, until the transfer is finished     *)
(* there.  Then the transfer is really sent where it is finished first.    *)
(*                                                                         *)
(* A prediction is what StorageSwitch has shown it to be, a run on a copy. *)
(* All connections and transfers are of one host and below its limits.     *)
(***************************************************************************)
EXTENDS TcpConnection

VARIABLES
  pNow, pEvent, pConn, pConnections, pTState, pOutstandingBytes, pTConn,  \* the copy
  asked,     \* the transfer the policy decides about, None if there is none
  todo,      \* connections still to try
  trying,    \* the one the prediction runs with, None between predictions
  best,      \* predictionBest: connection and finish time
  forecast   \* what was predicted for each transfer, None if something came in between

pvars == <<pNow, pEvent, pConn, pConnections, pTState, pOutstandingBytes, pTConn>>
decision == <<asked, todo, trying, best, forecast>>

P == INSTANCE TcpConnection WITH
       now <- pNow, event <- pEvent, conn <- pConn, connections <- pConnections,
       tState <- pTState, outstandingBytes <- pOutstandingBytes, tConn <- pTConn

\* The copy is made anew.
Copied ==
  /\ pNow' = now' /\ pEvent' = event' /\ pConn' = conn' /\ pConnections' = connections'
  /\ pTState' = tState' /\ pOutstandingBytes' = outstandingBytes' /\ pTConn' = tConn'

Infinity == -2
Nothing == [conn |-> None, finish |-> Infinity]
\* Mutant: the better time is kept without its connection.
Earlier_TimeOnly(a, b) ==
  IF a.finish = Infinity THEN b ELSE [a EXCEPT !.finish = Min({a.finish, b.finish})]
\* The earlier of two predictions, in doubt the first one.
Earlier(a, b) == IF a.finish = Infinity \/ b.finish < a.finish THEN b ELSE a

ForecastInit ==
  /\ Init
  /\ pNow = now /\ pEvent = event /\ pConn = conn /\ pConnections = connections
  /\ pTState = tState /\ pOutstandingBytes = outstandingBytes /\ pTConn = tConn
  /\ asked = None /\ todo = <<>> /\ trying = None /\ best = Nothing
  /\ forecast = [t \in Transfers |-> None]

-----------------------------------------------------------------------------
(* The policy.  Which connection is tried first makes no difference, but one that   *)
(* exists is preferred to a new one if both finish at the same time.                *)

Unused == {c \in Conns : conn[c].state = "NONE"}
\* A new connection, if the instance has one left.
New == IF Unused = {} THEN <<>> ELSE <<CHOOSE c \in Unused : TRUE>>

\* notify asks for the prediction of an enabled transfer.
Ask(t) ==
  /\ asked = None /\ event = None /\ tState[t] = "ENABLED" /\ connections \o New # <<>>
  /\ asked' = t /\ todo' = connections \o New /\ best' = Nothing
  /\ UNCHANGED <<vars, pvars, trying, forecast>>

\* _scheduleTransfer, in the prediction.
BeginPrediction ==
  /\ asked # None /\ trying = None /\ todo # <<>>
  /\ trying' = Head(todo) /\ todo' = Tail(todo)
  /\ P!Connect(trying', asked) \/ P!AddTransfer(trying', asked)
  /\ UNCHANGED <<vars, asked, best, forecast>>

\* predictionRun.
PredictionRun ==
  /\ trying # None /\ pTState[asked] # "FINISHED"
  /\ P!Run
  /\ UNCHANGED <<vars, asked, todo, trying, best, forecast>>

\* The transfer is finished: endPrecition, and the times are compared.
EndPrediction ==
  /\ trying # None /\ pTState[asked] = "FINISHED"
  /\ best' = Earlier(best, [conn |-> trying, finish |-> pNow])
  /\ trying' = None
  /\ UNCHANGED <<vars, asked, todo, forecast>> /\ Copied

\* Transfers that are not finished.
Running == {t \in Transfers : tState[t] \in {"ACTIVE", "ENQUEUED"}}

\* _executePrediction: the transfer is sent.  All forecasts made before are void.
Execute ==
  /\ asked # None /\ trying = None /\ todo = <<>>
  /\ Connect(best.conn, asked) \/ AddTransfer(best.conn, asked)
  /\ forecast' = [t \in Transfers |-> IF t = asked THEN best.finish
                                      ELSE IF t \in Running THEN None ELSE forecast[t]]
  /\ asked' = None
  /\ Copied /\ UNCHANGED <<todo, trying, best>>

Decide == BeginPrediction \/ PredictionRun \/ EndPrediction \/ Execute

-----------------------------------------------------------------------------

\* Two events are due at the same time; which is taken first is left open, and so is
\* whether the real run takes them as the prediction did.
Simultaneous == \E c, d \in Open : c # d /\ conn[c].nextEvent # None /\ conn[c].nextEvent = conn[d].nextEvent

\* The real run goes on.
RealRun ==
  /\ asked = None
  /\ Run
  /\ forecast' = IF Simultaneous \/ Simultaneous' THEN [t \in Transfers |-> None] ELSE forecast
  /\ Copied /\ UNCHANGED <<asked, todo, trying, best>>

ForecastNext == RealRun \/ (\E t \in Transfers : Ask(t)) \/ Decide

\* The event loop waits for the policy, and the policy for its predictions.
ForecastSpec ==
  ForecastInit /\ [][ForecastNext]_<<vars, pvars, decision>> /\ WF_<<vars, pvars, decision>>(Decide)

-----------------------------------------------------------------------------
(* Properties *)

\* Every prediction ends with the transfer finished, so that there is a time to compare
\* (policy.py:59), and the policy comes to a decision: whatever connections exist,
\* with the transfer they do not run out of events.
DecisionReached == asked # None ~> asked = None

\* What was predicted comes true, also after other predictions have been run, unless
\* another transfer is sent meanwhile.
ForecastComesTrue ==
  [][\A t \in Transfers :
       tState[t] # "FINISHED" /\ tState'[t] = "FINISHED" /\ forecast[t] # None
         => now' = forecast[t]]_<<vars, pvars, decision>>

=============================================================================
