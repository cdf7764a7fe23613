---------------------------- MODULE StorageSwitch ----------------------------
(***************************************************************************)
(* How predictions run on the objects of the real run.  Every connection,  *)
(* transfer and interface has a storage for the real run and one for a     *)
(* prediction, and copies the first to the second when it is used for the  *)
(* first time in a prediction (_storageSwitch).  Only the event queue is   *)
(* copied when the prediction begins; its events are shared with the real  *)
(* run and know by themselves where they are disabled.                     *)
(*                                                                         *)
(* One interface and its TCP connections are modelled.  Time and bandwidth *)
(* are left out: events come in any order, and a change of the bandwidth   *)
(* shares gives any set of connections new deadlines.                      *)
(*                                                                         *)
(* The policy runs its predictions from inside a real handler, while       *)
(* every connection has its next event; they may begin between any two     *)
(* steps here.                                                             *)
(***************************************************************************)
EXTENDS Integers, SequencesExt

CONSTANTS Conns,          \* connections
          Transfers,      \* transfers, all of them enabled at first
          Iface,          \* the interface
          MaxEvents,      \* bound: events of a connection that exist at a time
          MaxPredictions, \* bound: predictions that are run
          None

NOPREDICT == -1
Objects == Conns \cup Transfers \cup {Iface}

\* The i-th event object of a connection; its number is used again once nothing refers to it.
Events == Conns \X (1 .. MaxEvents)
ConnOf(e) == e[1]

ConnStorage == [state : {"IDLE", "BUSY", "CLOSED"}, transfers : Seq(Transfers),
                nextEvent : Events \cup {None}]
TransferState == {"ENABLED", "ENQUEUED", "ACTIVE", "FINISHED"}
Runs == NOPREDICT .. MaxPredictions - 1

ASSUME ObjectsAssumption == Conns \cap Transfers = {} /\ Iface \notin Conns \cup Transfers
ASSUME NoneAssumption == /\ None \notin ConnStorage /\ None \notin TransferState
                         /\ None \notin Events /\ \A conns \in SUBSET Conns : conns # None
ASSUME BoundsAssumption == MaxEvents \in Nat /\ MaxPredictions \in Nat

VARIABLES
  rStorage, pStorage, pRun,  \* of every object
  event,                     \* rDisabled, pDisabled and pRun of every event
  rQueue, pQueue,            \* EventSimulatorStorage.eventQueue, real and predicted
  simRun, pRunLast,          \* EventSimulator.pRun and .pRunLast
  tmRun, pTransfer           \* TransferManager.pRun and .pTransfer

vars == <<rStorage, pStorage, pRun, event, rQueue, pQueue, simRun, pRunLast, tmRun, pTransfer>>

-----------------------------------------------------------------------------
(* Storages *)

\* What is set: o to v, and as in f, or else in g.
To(o, v) == [p \in {o} |-> v]
f \uplus g == [o \in DOMAIN f \cup DOMAIN g |-> IF o \in DOMAIN f THEN f[o] ELSE g[o]]

\* What _storageSwitch(k) returns for o.
View(o, k) == IF k = NOPREDICT THEN rStorage[o]
              ELSE IF pRun[o] = k THEN pStorage[o] ELSE rStorage[o]

\* Mutant: an object keeps the copy it has made for an earlier prediction.
Cloned_Once(o, k) == IF pRun[o] # k /\ pStorage[o] = None THEN rStorage[o] ELSE pStorage[o]
\* Mutant: every call makes a new copy.
Cloned_Again(o, k) == rStorage[o]
\* pStorage after _storageSwitch(k) of o.
Cloned(o, k) == IF pRun[o] # k THEN rStorage[o] ELSE pStorage[o]

\* Mutant: a prediction writes to the storage of the real run.
Access_Real(k, used, new) ==
  /\ pRun' = [o \in Objects |-> IF o \in used THEN k ELSE pRun[o]]
  /\ rStorage' = new \uplus rStorage
  /\ pStorage' = [o \in Objects |-> IF o \in used THEN Cloned(o, k) ELSE pStorage[o]]
\* In run k the code uses the objects of used and sets those of DOMAIN new.
Access(k, used, new) ==
  /\ pRun' = [o \in Objects |-> IF o \in used THEN k ELSE pRun[o]]
  /\ rStorage' = IF k = NOPREDICT THEN new \uplus rStorage ELSE rStorage
  /\ pStorage' = [o \in Objects |->
                    IF o \in DOMAIN new /\ k # NOPREDICT THEN new[o]
                    ELSE IF o \in used THEN Cloned(o, k) ELSE pStorage[o]]

-----------------------------------------------------------------------------
(* Events *)

NewEvent == [rDisabled |-> FALSE, pDisabled |-> FALSE, run |-> NOPREDICT]

\* Mutant: the flag of an earlier prediction is believed.
Synced_Never(ev, k) == ev
\* Event.isDisabled first brings pDisabled up to date.
Synced(ev, k) == IF ev.run = k THEN ev ELSE [ev EXCEPT !.pDisabled = ev.rDisabled, !.run = k]

IsDisabled(ev, k) == IF k = NOPREDICT THEN ev.rDisabled ELSE Synced(ev, k).pDisabled

\* Event.disableEvent.
Disabled(ev, k) == IF k = NOPREDICT THEN [ev EXCEPT !.rDisabled = TRUE]
                   ELSE [ev EXCEPT !.pDisabled = TRUE, !.run = k]

Queue(k) == IF k = NOPREDICT THEN rQueue ELSE pQueue
SetQueue(k, q) == IF k = NOPREDICT THEN rQueue' = q /\ pQueue' = pQueue
                                   ELSE pQueue' = q /\ rQueue' = rQueue
Live(k) == {e \in Queue(k) : ~IsDisabled(event[e], k)}

Storages(c) == {rStorage[c], pStorage[c]} \ {None}
Referenced == rQueue \cup pQueue \cup {s.nextEvent : s \in UNION {Storages(c) : c \in Conns}}
Free(c) == {i \in 1 .. MaxEvents : <<c, i>> \notin Referenced}
NextFree(c) == <<c, CHOOSE i \in Free(c) : TRUE>>

\* A call in run k: it sets the objects in DOMAIN new, then gives the connections
\* of moved a new event (_checkReplaceEvent).  What nothing refers to any more is
\* garbage: the flags of its number are those of the next event that gets it.
Call(k, popped, disabled, used, new, moved) ==
  LET before == [c \in moved |-> IF c \in DOMAIN new THEN new[c] ELSE View(c, k)]
      after == [c \in moved |-> [before[c] EXCEPT !.nextEvent = NextFree(c)]]
      added == {NextFree(c) : c \in moved}
      replaced == {before[c].nextEvent : c \in moved} \ {None}
  IN  /\ \A c \in moved : Free(c) # {}
      /\ Access(k, used \cup moved, after \uplus new)
      /\ SetQueue(k, (Queue(k) \ popped) \cup added)
      /\ event' = [e \in Events |-> IF e \in added \/ e \notin Referenced' THEN NewEvent
                                    ELSE IF e \in disabled \cup replaced THEN Disabled(event[e], k)
                                    ELSE IF e \in popped THEN Synced(event[e], k)
                                    ELSE event[e]]

-----------------------------------------------------------------------------

Init ==
  /\ rStorage = [o \in Objects |-> IF o \in Conns THEN None
                                   ELSE IF o \in Transfers THEN "ENABLED" ELSE {}]
  /\ pStorage = [o \in Objects |-> None]
  /\ pRun = [o \in Objects |-> NOPREDICT]
  /\ event = [e \in Events |-> NewEvent]
  /\ rQueue = {} /\ pQueue = {}
  /\ simRun = NOPREDICT /\ pRunLast = -1
  /\ tmRun = NOPREDICT /\ pTransfer = None

\* The connections of the interface in run k; updateConnectionBwShare asks them all.
Connections(k) == View(Iface, k)

\* The event loop runs with k; a prediction has to schedule its transfer first.
Scheduling(k, t) == simRun = k /\ tmRun = k /\ View(t, k) = "ENABLED"
                    /\ (k # NOPREDICT => t = pTransfer)
Handling(k, e) == simRun = k /\ tmRun = k /\ e \in Live(k)
                  /\ (k # NOPREDICT => View(pTransfer, k) # "ENABLED")

\* A new connection, with its handshake event.
Connect(k, c, t) ==
  /\ Scheduling(k, t) /\ View(c, k) = None
  /\ Call(k, {}, {}, {c, t, Iface},
          To(c, [state |-> "BUSY", transfers |-> <<t>>, nextEvent |-> None])
            \uplus To(t, "ACTIVE") \uplus To(Iface, Connections(k) \cup {c}),
          {c})
  /\ UNCHANGED <<simRun, pRunLast, tmRun, pTransfer>>

\* addTransfer on an idle connection.
Reuse(k, c, t) ==
  /\ Scheduling(k, t) /\ c \in Connections(k) /\ View(c, k).state = "IDLE"
  /\ \E moved \in SUBSET Connections(k) :
       /\ c \in moved
       /\ Call(k, {}, {}, {t, Iface} \cup Connections(k),
               To(c, [View(c, k) EXCEPT !.state = "BUSY", !.transfers = <<t>>]) \uplus To(t, "ACTIVE"),
               moved)
  /\ UNCHANGED <<simRun, pRunLast, tmRun, pTransfer>>

\* addTransfer on a busy connection, which need not want more bandwidth then.
Enqueue(k, c, t) ==
  /\ Scheduling(k, t) /\ c \in Connections(k) /\ View(c, k).state = "BUSY"
  /\ \E moved \in SUBSET Connections(k), others \in {{}, Connections(k)} :
       /\ moved \subseteq others
       /\ Call(k, {}, {}, {c, t, Iface} \cup others,
               To(c, [View(c, k) EXCEPT !.transfers = Append(@, t)]) \uplus To(t, "ENQUEUED"),
               moved)
  /\ UNCHANGED <<simRun, pRunLast, tmRun, pTransfer>>

\* Mutant: any transfer that finishes ends the prediction.
FinishTransfer_Any(k, t) ==
  /\ IF k # NOPREDICT
     THEN simRun' = NOPREDICT /\ pRunLast' = simRun
     ELSE UNCHANGED <<simRun, pRunLast>>
  /\ UNCHANGED <<tmRun, pTransfer>>
\* finishTransfer ends the prediction of t (endPrecition).
FinishTransfer(k, t) ==
  /\ IF k # NOPREDICT /\ t = pTransfer
     THEN simRun' = NOPREDICT /\ pRunLast' = simRun
     ELSE UNCHANGED <<simRun, pRunLast>>
  /\ UNCHANGED <<tmRun, pTransfer>>

\* The last transfer is done.
GoIdle(k, e) ==
  /\ Handling(k, e)
  /\ LET c == ConnOf(e)
         conn == View(c, k)
     IN  /\ conn.state = "BUSY" /\ Len(conn.transfers) = 1
         /\ \E moved \in SUBSET Connections(k) :
              /\ c \in moved
              /\ Call(k, {e}, {}, {conn.transfers[1], Iface} \cup Connections(k),
                      To(c, [state |-> "IDLE", transfers |-> <<>>, nextEvent |-> None])
                        \uplus To(conn.transfers[1], "FINISHED"),
                      moved)
         /\ FinishTransfer(k, conn.transfers[1])

\* A transfer is done and the next one starts.
StartNext(k, e) ==
  /\ Handling(k, e)
  /\ LET c == ConnOf(e)
         conn == View(c, k)
     IN  /\ conn.state = "BUSY" /\ Len(conn.transfers) > 1
         /\ \E moved \in SUBSET Connections(k), others \in {{}, Connections(k)} :
              /\ c \in moved /\ moved \subseteq others \cup {c}
              /\ Call(k, {e}, {}, {c, conn.transfers[1], conn.transfers[2], Iface} \cup others,
                      To(c, [conn EXCEPT !.transfers = Tail(@), !.nextEvent = None])
                        \uplus To(conn.transfers[1], "FINISHED") \uplus To(conn.transfers[2], "ACTIVE"),
                      moved)
         /\ FinishTransfer(k, conn.transfers[1])

\* The handshake or a round of slow start is done; the connection wants more bandwidth.
NextRound(k, e) ==
  /\ Handling(k, e)
  /\ LET c == ConnOf(e)
     IN  /\ View(c, k).state = "BUSY"
         /\ \E moved \in SUBSET Connections(k) :
              /\ c \in moved
              /\ Call(k, {e}, {}, {Iface} \cup Connections(k),
                      To(c, [View(c, k) EXCEPT !.nextEvent = None]), moved)
  /\ UNCHANGED <<simRun, pRunLast, tmRun, pTransfer>>

IdleTimeout(k, e) ==
  /\ Handling(k, e)
  /\ LET c == ConnOf(e)
     IN  /\ View(c, k).state = "IDLE"
         /\ Call(k, {e}, {}, {c, Iface},
                 To(c, [state |-> "CLOSED", transfers |-> <<>>, nextEvent |-> None])
                   \uplus To(Iface, Connections(k) \ {c}),
                 {})
  /\ UNCHANGED <<simRun, pRunLast, tmRun, pTransfer>>

\* The event loop skips a disabled event.
SkipDisabled(k, e) ==
  /\ simRun = k /\ tmRun = k /\ e \in Queue(k) \ Live(k)
  /\ Call(k, {e}, {}, {}, <<>>, {})
  /\ UNCHANGED <<simRun, pRunLast, tmRun, pTransfer>>

\* _executePrediction closes an idle connection at the global limit; the
\* connection goes on to refer to the event that close() disables.
CloseIdle(c) ==
  /\ simRun = NOPREDICT /\ tmRun = NOPREDICT
  /\ c \in Connections(NOPREDICT) /\ rStorage[c].state = "IDLE"
  /\ Call(NOPREDICT, {}, {rStorage[c].nextEvent}, {c, Iface},
          To(c, [rStorage[c] EXCEPT !.state = "CLOSED"])
            \uplus To(Iface, Connections(NOPREDICT) \ {c}),
          {})
  /\ UNCHANGED <<simRun, pRunLast, tmRun, pTransfer>>

\* predictTransfer up to the call of _scheduleTransfer (beginPrediction).
BeginPrediction(t) ==
  /\ simRun = NOPREDICT /\ tmRun = NOPREDICT
  /\ rStorage[t] = "ENABLED" /\ pRunLast + 1 < MaxPredictions
  /\ pQueue' = rQueue
  /\ simRun' = pRunLast + 1 /\ tmRun' = simRun' /\ pTransfer' = t
  /\ UNCHANGED <<rStorage, pStorage, pRun, event, rQueue, pRunLast>>

\* The end of predictTransfer: read the times of the transfer.
ReturnPrediction ==
  /\ tmRun # NOPREDICT /\ simRun = NOPREDICT
  /\ Access(tmRun, {pTransfer}, <<>>)
  /\ tmRun' = NOPREDICT
  /\ UNCHANGED <<event, rQueue, pQueue, simRun, pRunLast, pTransfer>>

Next ==
  \/ \E k \in {tmRun}, c \in Conns, t \in Transfers :
       Connect(k, c, t) \/ Reuse(k, c, t) \/ Enqueue(k, c, t)
  \/ \E k \in {tmRun}, e \in Events :
       GoIdle(k, e) \/ StartNext(k, e) \/ NextRound(k, e) \/ IdleTimeout(k, e) \/ SkipDisabled(k, e)
  \/ \E c \in Conns : CloseIdle(c)
  \/ \E t \in Transfers : BeginPrediction(t)
  \/ ReturnPrediction

Spec == Init /\ [][Next]_vars

-----------------------------------------------------------------------------
(* Properties *)

\* Types of the variables; an object used in a prediction has a storage for it.
TypeOK ==
  /\ \A o \in Objects : pRun[o] # NOPREDICT => pStorage[o] # None
  /\ \A c \in Conns : {rStorage[c], pStorage[c]} \subseteq ConnStorage \cup {None}
  /\ \A t \in Transfers : rStorage[t] \in TransferState /\ pStorage[t] \in TransferState \cup {None}
  /\ rStorage[Iface] \subseteq Conns /\ (pStorage[Iface] = None \/ pStorage[Iface] \subseteq Conns)
  /\ pRun \in [Objects -> Runs]
  /\ event \in [Events -> [rDisabled : BOOLEAN, pDisabled : BOOLEAN, run : Runs]]
  /\ rQueue \subseteq Events /\ pQueue \subseteq Events
  /\ simRun \in Runs /\ pRunLast \in Runs /\ tmRun \in Runs
  /\ pTransfer \in Transfers \cup {None}

\* Every open connection has exactly one event that is still to come, the one it
\* knows of, and a closed one has none: in the real run and in the prediction,
\* although they share the event objects (the invariant at tcpConnection.py:58
\* and the assertion at tcpConnection.py:121).
OneEvent ==
  /\ \A e \in Live(tmRun) : ConnOf(e) \in Connections(tmRun)
  /\ \A c \in Connections(tmRun) :
       {e \in Live(tmRun) : ConnOf(e) = c} = {View(c, tmRun).nextEvent}

\* What is used together belongs together: every connection the interface lists
\* exists in the run that uses it (rStorage is None for one that a prediction has
\* opened), it is open, and its transfers are in the states its pipeline demands.
ViewConsistent ==
  \A c \in Connections(tmRun) :
    LET conn == View(c, tmRun)
    IN  /\ conn # None
        /\ conn.state = IF conn.transfers = <<>> THEN "IDLE" ELSE "BUSY"
        /\ \A i \in DOMAIN conn.transfers :
             View(conn.transfers[i], tmRun) = IF i = 1 THEN "ACTIVE" ELSE "ENQUEUED"

\* The result of a prediction can be read although the simulator has ended it.
ResultReadable == tmRun # simRun => View(pTransfer, tmRun) = "FINISHED"

\* Within a run no object falls back to an earlier state, whenever it is copied.
Progress(a, b) == \/ a = b \/ a = "ENABLED" \/ b = "FINISHED"
                  \/ a = "ENQUEUED" /\ b = "ACTIVE"
NoRelapse ==
  [][tmRun' = tmRun =>
       /\ \A t \in Transfers : Progress(View(t, tmRun), View(t, tmRun)')
       /\ \A c \in Conns : View(c, tmRun) # None =>
            View(c, tmRun)' # None /\ (View(c, tmRun).state = "CLOSED" =>
                                         View(c, tmRun)'.state = "CLOSED")]_vars

\* The objects and the events to come, as run k sees them.
World(k) == [conn |-> [c \in Conns |-> View(c, k)], transfer |-> [t \in Transfers |-> View(t, k)],
             iface |-> Connections(k), live |-> Live(k)]

\* Copying late gives the same result as a copy of everything at the beginning of
\* the prediction, and the real run does not notice the prediction at all.
Eager == INSTANCE Snapshot WITH
           Worlds <- [conn : [Conns -> ConnStorage \cup {None}],
                      transfer : [Transfers -> TransferState],
                      iface : SUBSET Conns, live : SUBSET Events],
           real <- World(NOPREDICT), current <- World(tmRun), predicting <- tmRun # NOPREDICT
RefinesSnapshot == Eager!Spec

=============================================================================
