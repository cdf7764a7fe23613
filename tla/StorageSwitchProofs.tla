------------------------- MODULE StorageSwitchProofs -------------------------
(***************************************************************************)
(* Predictions run on a copy for any number of connections, transfers,     *)
(* events and predictions: StorageSwitch refines Snapshot.                 *)
(*                                                                         *)
(* What is known of the objects and events is stated for the view of one   *)
(* run (Consistent).  A call changes the view of its own run only, so that *)
(* a prediction begins with what the real run had, and the real run goes   *)
(* on with it.                                                             *)
(***************************************************************************)
EXTENDS StorageSwitch, TLAPS

Storage(o) == IF o \in Conns THEN ConnStorage ELSE IF o \in Transfers THEN TransferState
              ELSE SUBSET Conns

StoragesTyped ==
  /\ rStorage = [o \in Objects |-> rStorage[o]]
  /\ \A o \in Objects : rStorage[o] \in Storage(o) \/ (o \in Conns /\ rStorage[o] = None)
  /\ pStorage = [o \in Objects |-> pStorage[o]]
  /\ \A o \in Objects : pStorage[o] \in Storage(o) \cup {None}
  /\ \A o \in Objects : pRun[o] # NOPREDICT => pStorage[o] # None
  /\ pRun \in [Objects -> Runs]
  /\ event \in [Events -> [rDisabled : BOOLEAN, pDisabled : BOOLEAN, run : Runs]]
  /\ rQueue \subseteq Events /\ pQueue \subseteq Events

RunsTyped ==
  /\ simRun \in Runs /\ pRunLast \in Runs /\ tmRun \in Runs
  /\ pTransfer \in Transfers \cup {None}

Typed == StoragesTyped /\ RunsTyped

\* The number of a prediction is new to all objects and events when it begins.
Fresh ==
  /\ simRun # NOPREDICT => simRun = pRunLast + 1 /\ tmRun = simRun
  /\ simRun = NOPREDICT /\ tmRun # NOPREDICT => tmRun = pRunLast
  /\ \A o \in Objects : pRun[o] <= pRunLast \/ pRun[o] = tmRun
  /\ \A e \in Events : event[e].run <= pRunLast \/ event[e].run = tmRun
  /\ tmRun # NOPREDICT => pTransfer \in Transfers

\* A pipeline has its first transfer active and the others waiting.
Pipeline(c, k) ==
  /\ View(c, k) # None
  /\ View(c, k).state = IF View(c, k).transfers = <<>> THEN "IDLE" ELSE "BUSY"
  /\ \A i \in DOMAIN View(c, k).transfers :
       View(View(c, k).transfers[i], k) = IF i = 1 THEN "ACTIVE" ELSE "ENQUEUED"

\* No transfer is in two places.
Apart(k) ==
  \A c, d \in Connections(k) :
    \A i \in DOMAIN View(c, k).transfers, j \in DOMAIN View(d, k).transfers :
      View(c, k).transfers[i] = View(d, k).transfers[j] => c = d /\ i = j

EventsOf(k) ==
  /\ \A e \in Live(k) : ConnOf(e) \in Connections(k) /\ e = View(ConnOf(e), k).nextEvent
  /\ \A c \in Connections(k) : View(c, k).nextEvent \in Live(k) /\ ConnOf(View(c, k).nextEvent) = c

Consistent(k) ==
  /\ \A c \in Connections(k) : Pipeline(c, k)
  /\ Apart(k)
  /\ EventsOf(k)

Inv ==
  /\ Typed /\ Fresh
  /\ Consistent(NOPREDICT) /\ \A k \in Runs : k = tmRun => Consistent(k)
  /\ ResultReadable

-----------------------------------------------------------------------------
(* Views *)

\* What an object is in the view of a run.
LEMMA ViewTyped ==
  ASSUME Typed, NEW k \in Runs
  PROVE  /\ \A c \in Conns : View(c, k) \in ConnStorage \cup {None}
         /\ \A t \in Transfers : View(t, k) \in TransferState
         /\ Connections(k) \subseteq Conns
         /\ Live(k) \subseteq Queue(k) /\ Queue(k) \subseteq Events
<1>1. \A o \in Objects : View(o, k) \in Storage(o) \/ (o \in Conns /\ View(o, k) = None)
  BY DEF Typed, StoragesTyped, View, Runs
<1>2. /\ Conns \subseteq Objects /\ Transfers \subseteq Objects /\ Iface \in Objects
      /\ \A c \in Conns : Storage(c) = ConnStorage
      /\ \A t \in Transfers : t \notin Conns /\ Storage(t) = TransferState
      /\ Iface \notin Conns /\ Storage(Iface) = SUBSET Conns
  BY ObjectsAssumption DEF Storage, Objects
<1>3. Live(k) \subseteq Queue(k) /\ Queue(k) \subseteq Events
  BY DEF Live, Queue, Typed, StoragesTyped
<1> QED
  BY <1>1, <1>2, <1>3 DEF Connections

\* A new event of a connection is one that nothing refers to.
LEMMA NewEvents ==
  ASSUME NEW c \in Conns, Free(c) # {}
  PROVE  NextFree(c) \in Events /\ ConnOf(NextFree(c)) = c /\ NextFree(c) \notin Referenced
BY DEF NextFree, Free, Events, ConnOf

\* The flags of an event, as run k sees them, after what a call may do to it.
LEMMA Flags ==
  ASSUME NEW k \in Runs, NEW ev \in [rDisabled : BOOLEAN, pDisabled : BOOLEAN, run : Runs]
  PROVE  /\ ~IsDisabled(NewEvent, k)
         /\ IsDisabled(Disabled(ev, k), k)
         /\ (IsDisabled(Synced(ev, k), k) <=> IsDisabled(ev, k))
         /\ k # NOPREDICT => /\ Disabled(ev, k).rDisabled = ev.rDisabled
                             /\ Synced(ev, k).rDisabled = ev.rDisabled
         /\ {NewEvent, Disabled(ev, k), Synced(ev, k)}
              \subseteq [rDisabled : BOOLEAN, pDisabled : BOOLEAN, run : Runs]
         /\ {Disabled(ev, k).run, Synced(ev, k).run} \subseteq {ev.run, k}
         /\ NewEvent.run = NOPREDICT
<1> DEFINE Event == [rDisabled : BOOLEAN, pDisabled : BOOLEAN, run : Runs]
<1>1. NOPREDICT \in Runs
  BY BoundsAssumption DEF NOPREDICT, Runs
<1>2. NewEvent \in Event /\ NewEvent.rDisabled = FALSE /\ NewEvent.pDisabled = FALSE /\ NewEvent.run = NOPREDICT
  BY <1>1 DEF NewEvent
<1>3. /\ Synced(ev, k) \in Event
      /\ Synced(ev, k).rDisabled = ev.rDisabled
      /\ Synced(ev, k).run = k
      /\ Synced(ev, k).pDisabled = IF ev.run = k THEN ev.pDisabled ELSE ev.rDisabled
  BY DEF Synced
<1>4. /\ Disabled(ev, k) \in Event
      /\ k = NOPREDICT => Disabled(ev, k).rDisabled = TRUE /\ Disabled(ev, k).run = ev.run
      /\ k # NOPREDICT => /\ Disabled(ev, k).rDisabled = ev.rDisabled
                          /\ Disabled(ev, k).pDisabled = TRUE /\ Disabled(ev, k).run = k
  BY DEF Disabled
<1>5. ~IsDisabled(NewEvent, k)
  BY <1>2 DEF IsDisabled, Synced
<1>6. IsDisabled(Disabled(ev, k), k)
  BY <1>4 DEF IsDisabled, Synced
<1>7. IsDisabled(Synced(ev, k), k) <=> IsDisabled(ev, k)
  <2>1. CASE k = NOPREDICT
    BY <1>3, <2>1 DEF IsDisabled
  <2>2. CASE k # NOPREDICT
    <3>1. Synced(Synced(ev, k), k) = Synced(ev, k)
      BY <1>3 DEF Synced
    <3> QED
      BY <2>2, <3>1 DEF IsDisabled
  <2> QED
    BY <2>1, <2>2
<1> QED
  BY <1>2, <1>3, <1>4, <1>5, <1>6, <1>7

-----------------------------------------------------------------------------
(* Calls *)

Before(c, k, new) == IF c \in DOMAIN new THEN new[c] ELSE View(c, k)
Outdated(k, new, moved) == {Before(c, k, new).nextEvent : c \in moved} \ {None}
Added(moved) == {NextFree(c) : c \in moved}
After(c, k, new) == [Before(c, k, new) EXCEPT !.nextEvent = NextFree(c)]
Assigned(k, new, moved) ==
  [o \in moved \cup DOMAIN new |-> IF o \in moved THEN After(o, k, new) ELSE new[o]]

EventsAfter(k, popped, disabled, new, moved) ==
  event' = [e \in Events |->
  IF e \in Added(moved) \/ e \notin Referenced' THEN NewEvent
  ELSE IF e \in disabled \cup Outdated(k, new, moved) THEN Disabled(event[e], k)
  ELSE IF e \in popped THEN Synced(event[e], k)
  ELSE event[e]]

\* What the run sees of the objects and of the events after the call.
ViewsAfter(k, new, moved) ==
  \A o \in Objects : View(o, k)' = IF o \in moved THEN After(o, k, new) ELSE Before(o, k, new)
LiveAfter(k, popped, disabled, new, moved) ==
  Live(k)' = (Live(k) \ (popped \cup disabled \cup Outdated(k, new, moved))) \cup Added(moved)

\* The copies and flags that the call leaves, and what it leaves of the real run.
RunsAfter(k) == /\ \A o \in Objects : pRun'[o] \in {pRun[o], k}
                /\ \A e \in Events : event'[e].run \in {event[e].run, k, NOPREDICT}
RealUntouched == rStorage' = rStorage /\ Live(NOPREDICT)' = Live(NOPREDICT)

\* A call in the current run that is used as the actions do.
ProperCall(k, popped, disabled, used, new, moved) ==
  /\ Typed /\ k \in Runs /\ k = tmRun
  /\ popped \subseteq Queue(k) /\ disabled \subseteq Events
  /\ used \subseteq Objects /\ DOMAIN new \subseteq used \cup moved /\ moved \subseteq Conns
  /\ \A o \in DOMAIN new : new[o] \in Storage(o)
  /\ \A c \in moved : Before(c, k, new) \in ConnStorage
  /\ \A o \in used : View(o, k) # None \/ o \in DOMAIN new
  /\ Call(k, popped, disabled, used, new, moved)

\* What a call changes, without the names that Call gives to its parts.
LEMMA CallParts ==
  ASSUME NEW k, NEW popped, NEW disabled, NEW used, NEW new, NEW moved,
         ProperCall(k, popped, disabled, used, new, moved)
  PROVE  /\ Access(k, used \cup moved, Assigned(k, new, moved))
         /\ \A c \in moved : Free(c) # {}
         /\ SetQueue(k, (Queue(k) \ popped) \cup Added(moved))
         /\ EventsAfter(k, popped, disabled, new, moved)
<1> DEFINE before == [c \in moved |-> IF c \in DOMAIN new THEN new[c] ELSE View(c, k)]
           after == [c \in moved |-> [before[c] EXCEPT !.nextEvent = NextFree(c)]]
           replaced == {before[c].nextEvent : c \in moved} \ {None}
<1>1. /\ \A c \in moved : Free(c) # {}
      /\ Access(k, used \cup moved, after \uplus new)
      /\ SetQueue(k, (Queue(k) \ popped) \cup Added(moved))
      /\ event' = [e \in Events |->
                     IF e \in Added(moved) \/ e \notin Referenced' THEN NewEvent
                     ELSE IF e \in disabled \cup replaced THEN Disabled(event[e], k)
                     ELSE IF e \in popped THEN Synced(event[e], k)
                     ELSE event[e]]
  BY DEF ProperCall, Call, Added
<1>2. \A c \in moved : before[c] = Before(c, k, new)
  BY DEF Before
<1>3. replaced = Outdated(k, new, moved)
  BY <1>2 DEF Outdated
<1>4. \A c \in moved : after[c] = After(c, k, new)
  BY <1>2 DEF After
<1>5. DOMAIN after = moved
  OBVIOUS
<1> HIDE DEF before, after, replaced
<1>6. after \uplus new = Assigned(k, new, moved)
  BY <1>4, <1>5 DEF \uplus, Assigned
<1>7. EventsAfter(k, popped, disabled, new, moved)
  BY <1>1, <1>3 DEF EventsAfter
<1> QED
  BY <1>1, <1>6, <1>7

LEMMA CallViews ==
  ASSUME NEW k, NEW popped, NEW disabled, NEW used, NEW new, NEW moved,
         ProperCall(k, popped, disabled, used, new, moved)
  PROVE  ViewsAfter(k, new, moved)
<1> DEFINE all == Assigned(k, new, moved)
<1>a. Access(k, used \cup moved, all)
  BY CallParts
<1>1. /\ DOMAIN all = moved \cup DOMAIN new
      /\ \A o \in DOMAIN all : all[o] = IF o \in moved THEN After(o, k, new) ELSE new[o]
      /\ Access(k, used \cup moved, all)
  BY <1>a DEF Assigned
<1> HIDE DEF all
<1>2. /\ Conns \subseteq Objects /\ moved \subseteq Objects /\ DOMAIN all \subseteq Objects
      /\ DOMAIN all \subseteq used \cup moved
      /\ Typed
  BY <1>1 DEF ProperCall, Objects
<1>3. \A o \in Objects : View(o, k)' = IF o \in DOMAIN all THEN all[o] ELSE View(o, k)
  <2> SUFFICES ASSUME NEW o \in Objects
               PROVE  View(o, k)' = IF o \in DOMAIN all THEN all[o] ELSE View(o, k)
    OBVIOUS
  <2>1. CASE k = NOPREDICT
    <3>1. rStorage' = [p \in DOMAIN all \cup DOMAIN rStorage |->
                         IF p \in DOMAIN all THEN all[p] ELSE rStorage[p]]
      BY <1>1, <2>1 DEF Access, \uplus
    <3>2. o \in DOMAIN rStorage
      BY <1>2 DEF Typed, StoragesTyped
    <3> QED
      BY <2>1, <3>1, <3>2 DEF View
  <2>2. CASE k # NOPREDICT
    BY <1>1, <1>2, <2>2 DEF Access, View, Cloned
  <2> QED
    BY <2>1, <2>2
<1> QED
  BY <1>1, <1>2, <1>3 DEF ViewsAfter, Before

LEMMA CallLive ==
  ASSUME NEW k, NEW popped, NEW disabled, NEW used, NEW new, NEW moved,
         ProperCall(k, popped, disabled, used, new, moved)
  PROVE  /\ LiveAfter(k, popped, disabled, new, moved)
         /\ \A c \in moved : /\ NextFree(c) \in Events /\ ConnOf(NextFree(c)) = c
                             /\ NextFree(c) \notin Referenced
<1>1. /\ \A c \in moved : Free(c) # {}
      /\ SetQueue(k, (Queue(k) \ popped) \cup Added(moved))
      /\ EventsAfter(k, popped, disabled, new, moved)
  BY CallParts
<1>2. Typed /\ k \in Runs /\ popped \subseteq Queue(k) /\ moved \subseteq Conns
  BY DEF ProperCall
<1>3. \A c \in moved : NextFree(c) \in Events /\ ConnOf(NextFree(c)) = c /\ NextFree(c) \notin Referenced
  BY <1>1, <1>2, NewEvents
<1>4. Queue(k)' = (Queue(k) \ popped) \cup Added(moved)
  BY <1>1 DEF SetQueue, Queue
<1>5. Queue(k)' \subseteq Referenced' /\ Queue(k) \subseteq Referenced /\ Queue(k) \subseteq Events
  BY <1>2, ViewTyped DEF Queue, Referenced
<1>6. Added(moved) \subseteq Events /\ Added(moved) \cap Referenced = {}
  BY <1>3 DEF Added
<1>7. \A e \in Events : event[e] \in [rDisabled : BOOLEAN, pDisabled : BOOLEAN, run : Runs]
  BY <1>2 DEF Typed, StoragesTyped
<1>8. \A e \in Added(moved) : ~IsDisabled(event'[e], k)
  BY <1>1, <1>2, <1>6, <1>7, Flags DEF EventsAfter
<1>9. ASSUME NEW e \in Queue(k) \ popped
      PROVE  IsDisabled(event'[e], k) <=> IsDisabled(event[e], k) \/ e \in disabled \cup Outdated(k, new, moved)
  <2>1. e \in Events /\ e \notin Added(moved) /\ e \in Referenced' /\ e \notin popped
    BY <1>4, <1>5, <1>6
  <2>2. event'[e] = IF e \in disabled \cup Outdated(k, new, moved) THEN Disabled(event[e], k) ELSE event[e]
    BY <1>1, <2>1 DEF EventsAfter
  <2>3. IsDisabled(Disabled(event[e], k), k)
    BY <1>2, <1>7, <2>1, Flags
  <2> QED
    BY <2>2, <2>3
<1>10. Live(k)' = {e \in Queue(k)' : ~IsDisabled(event'[e], k)}
  BY DEF Live, IsDisabled, Synced
<1>11. Live(k) = {e \in Queue(k) : ~IsDisabled(event[e], k)}
  BY DEF Live
<1>12. Added(moved) \cap (disabled \cup popped \cup Queue(k)) = Added(moved) \cap disabled
  BY <1>2, <1>5, <1>6
<1> QED
  BY <1>3, <1>4, <1>8, <1>9, <1>10, <1>11 DEF LiveAfter

LEMMA StorageNotNone == \A o \in Objects : None \notin Storage(o)
BY NoneAssumption, ObjectsAssumption DEF Storage, Objects

LEMMA CallStorages ==
  ASSUME NEW k, NEW popped, NEW disabled, NEW used, NEW new, NEW moved,
         ProperCall(k, popped, disabled, used, new, moved)
  PROVE  StoragesTyped' /\ RunsAfter(k)
<1> DEFINE all == Assigned(k, new, moved)
           Event == [rDisabled : BOOLEAN, pDisabled : BOOLEAN, run : Runs]
<1>1. Access(k, used \cup moved, all) /\ EventsAfter(k, popped, disabled, new, moved)
      /\ SetQueue(k, (Queue(k) \ popped) \cup Added(moved))
  BY CallParts
<1>2. \A c \in moved : NextFree(c) \in Events
  BY CallLive
<1>3. /\ StoragesTyped /\ k \in Runs /\ used \subseteq Objects /\ moved \subseteq Conns
      /\ DOMAIN new \subseteq used \cup moved
      /\ \A o \in DOMAIN new : new[o] \in Storage(o)
      /\ \A c \in moved : Before(c, k, new) \in ConnStorage
      /\ \A o \in used : View(o, k) # None \/ o \in DOMAIN new
  BY DEF ProperCall, Typed
<1>4. Conns \subseteq Objects /\ \A c \in Conns : Storage(c) = ConnStorage
  BY DEF Objects, Storage
<1>5. \A c \in moved : After(c, k, new) \in ConnStorage
  BY <1>2, <1>3 DEF After, ConnStorage
<1>6. /\ DOMAIN all = moved \cup DOMAIN new
      /\ \A o \in DOMAIN all : all[o] \in Storage(o) /\ all[o] # None
  <2>1. DOMAIN all = moved \cup DOMAIN new
    BY DEF Assigned
  <2>2. \A o \in DOMAIN all : all[o] \in Storage(o)
    BY <1>3, <1>4, <1>5 DEF Assigned
  <2> HIDE DEF all
  <2> QED
    BY <1>3, <1>4, <2>1, <2>2, StorageNotNone
<1> HIDE DEF all
<1>7. /\ rStorage' = [o \in Objects |-> rStorage'[o]]
      /\ \A o \in Objects : rStorage'[o] \in Storage(o) \/ (o \in Conns /\ rStorage'[o] = None)
  <2>1. CASE k = NOPREDICT
    <3>1. rStorage' = [o \in DOMAIN all \cup DOMAIN rStorage |->
                         IF o \in DOMAIN all THEN all[o] ELSE rStorage[o]]
      BY <1>1, <2>1 DEF Access, \uplus
    <3>2. DOMAIN all \cup DOMAIN rStorage = Objects
      BY <1>3, <1>4, <1>6 DEF StoragesTyped
    <3> QED
      BY <1>3, <1>6, <3>1, <3>2 DEF StoragesTyped
  <2>2. CASE k # NOPREDICT
    BY <1>1, <1>3, <2>2 DEF Access, StoragesTyped
  <2> QED
    BY <2>1, <2>2
<1>8. /\ pStorage' = [o \in Objects |-> pStorage'[o]]
      /\ \A o \in Objects : pStorage'[o] \in Storage(o) \cup {None}
  BY <1>1, <1>3, <1>6 DEF Access, Cloned, StoragesTyped
<1>9. \A o \in Objects : pRun'[o] # NOPREDICT => pStorage'[o] # None
  <2> SUFFICES ASSUME NEW o \in Objects, pRun'[o] # NOPREDICT
               PROVE  pStorage'[o] # None
    OBVIOUS
  <2>1. CASE o \in used \cup moved
    BY <1>1, <1>3, <1>6, <2>1 DEF Access, Cloned, View, StoragesTyped
  <2>2. CASE o \notin used \cup moved
    BY <1>1, <1>3, <1>6, <2>2 DEF Access, StoragesTyped
  <2> QED
    BY <2>1, <2>2
<1>10. pRun' \in [Objects -> Runs] /\ \A o \in Objects : pRun'[o] \in {pRun[o], k}
  BY <1>1, <1>3 DEF Access, StoragesTyped
<1>11. event' \in [Events -> Event] /\ \A e \in Events : event'[e].run \in {event[e].run, k, NOPREDICT}
  <2>1. \A e \in Events : event[e] \in Event
    BY <1>3 DEF StoragesTyped
  <2>2. \A e \in Events :
          event'[e] \in {NewEvent, Disabled(event[e], k), Synced(event[e], k), event[e]}
    BY <1>1 DEF EventsAfter
  <2>3. event' = [e \in Events |-> event'[e]]
    BY <1>1 DEF EventsAfter
  <2>4. ASSUME NEW e \in Events
        PROVE  event'[e] \in Event /\ event'[e].run \in {event[e].run, k, NOPREDICT}
    <3>1. /\ {NewEvent, Disabled(event[e], k), Synced(event[e], k)} \subseteq Event
          /\ {Disabled(event[e], k).run, Synced(event[e], k).run} \subseteq {event[e].run, k}
          /\ NewEvent.run = NOPREDICT
      BY <1>3, <2>1, Flags
    <3> HIDE DEF Event
    <3> QED
      BY <2>1, <2>2, <3>1
  <2> HIDE DEF Event
  <2> QED
    BY <2>3, <2>4
<1>12. rQueue' \subseteq Events /\ pQueue' \subseteq Events
  <2>1. rQueue \subseteq Events /\ pQueue \subseteq Events
    BY <1>3 DEF StoragesTyped
  <2>2. Added(moved) \subseteq Events
    BY <1>2 DEF Added
  <2> QED
    BY <1>1, <2>1, <2>2 DEF SetQueue, Queue
<1> QED
  BY <1>7, <1>8, <1>9, <1>10, <1>11, <1>12 DEF StoragesTyped, RunsAfter

\* A call in a prediction leaves the real run as it is.
LEMMA CallReal ==
  ASSUME NEW k, NEW popped, NEW disabled, NEW used, NEW new, NEW moved,
         ProperCall(k, popped, disabled, used, new, moved), k # NOPREDICT
  PROVE  RealUntouched
<1>1. /\ Access(k, used \cup moved, Assigned(k, new, moved))
      /\ EventsAfter(k, popped, disabled, new, moved)
      /\ SetQueue(k, (Queue(k) \ popped) \cup Added(moved))
  BY CallParts
<1>2. \A c \in moved : NextFree(c) \notin Referenced
  BY CallLive
<1>3. StoragesTyped /\ k \in Runs
  BY DEF ProperCall, Typed
<1>4. rStorage' = rStorage
  BY <1>1 DEF Access
<1>5. rQueue' = rQueue
  BY <1>1 DEF SetQueue
<1>6. \A e \in rQueue : e \in Events /\ e \in Referenced' /\ e \notin Added(moved)
  BY <1>2, <1>3, <1>5 DEF StoragesTyped, Referenced, Added
<1>7. \A e \in rQueue : event'[e].rDisabled = event[e].rDisabled
  <2> SUFFICES ASSUME NEW e \in rQueue
               PROVE  event'[e].rDisabled = event[e].rDisabled
    OBVIOUS
  <2>1. event'[e] \in {Disabled(event[e], k), Synced(event[e], k), event[e]}
    BY <1>1, <1>6 DEF EventsAfter
  <2>2. event[e] \in [rDisabled : BOOLEAN, pDisabled : BOOLEAN, run : Runs]
    BY <1>3, <1>6 DEF StoragesTyped
  <2>3. Disabled(event[e], k).rDisabled = event[e].rDisabled /\ Synced(event[e], k).rDisabled = event[e].rDisabled
    BY <1>3, <2>2, Flags
  <2> QED
    BY <2>1, <2>3
<1>8. Live(NOPREDICT)' = Live(NOPREDICT)
  BY <1>5, <1>7 DEF Live, Queue, IsDisabled
<1> QED
  BY <1>4, <1>8 DEF RealUntouched

-----------------------------------------------------------------------------
(* Consistency after a call *)

OpenAfter(k, new) == Before(Iface, k, new)

PipelinesAfter(k, new) ==
  \A c \in OpenAfter(k, new) :
    /\ Before(c, k, new) \in ConnStorage
    /\ Before(c, k, new).state = IF Before(c, k, new).transfers = <<>> THEN "IDLE" ELSE "BUSY"
    /\ \A i \in DOMAIN Before(c, k, new).transfers :
         Before(Before(c, k, new).transfers[i], k, new) = IF i = 1 THEN "ACTIVE" ELSE "ENQUEUED"

ApartAfter(k, new) ==
  \A c, d \in OpenAfter(k, new) :
    \A i \in DOMAIN Before(c, k, new).transfers, j \in DOMAIN Before(d, k, new).transfers :
      Before(c, k, new).transfers[i] = Before(d, k, new).transfers[j] => c = d /\ i = j

\* Every event to come belongs to a connection that keeps or replaces it, or is cancelled.
EventsKept(k, popped, disabled, new, moved) ==
  /\ moved \subseteq OpenAfter(k, new)
  /\ \A c \in moved :
       \/ Before(c, k, new).nextEvent = None
       \/ c \in Connections(k) /\ Before(c, k, new).nextEvent = View(c, k).nextEvent
  /\ \A c \in OpenAfter(k, new) \ moved :
       /\ c \in Connections(k) /\ Before(c, k, new).nextEvent = View(c, k).nextEvent
       /\ View(c, k).nextEvent \notin popped \cup disabled
  /\ \A c \in Connections(k) :
       \/ c \in moved /\ Before(c, k, new).nextEvent = View(c, k).nextEvent
       \/ View(c, k).nextEvent \in popped \cup disabled
       \/ c \in OpenAfter(k, new) \ moved

LEMMA CallConsistent ==
  ASSUME NEW k, NEW popped, NEW disabled, NEW used, NEW new, NEW moved,
         ProperCall(k, popped, disabled, used, new, moved), Consistent(k),
         OpenAfter(k, new) \subseteq Conns,
         PipelinesAfter(k, new), ApartAfter(k, new), EventsKept(k, popped, disabled, new, moved)
  PROVE  Consistent(k)'
<1>1. ViewsAfter(k, new, moved) /\ LiveAfter(k, popped, disabled, new, moved)
  BY CallViews, CallLive
<1>2. /\ Typed /\ k \in Runs /\ moved \subseteq Conns
      /\ \A c \in moved : Before(c, k, new) \in ConnStorage
  BY DEF ProperCall
<1>3. \A c \in moved : NextFree(c) \in Events /\ ConnOf(NextFree(c)) = c
  BY CallLive
<1>4. /\ Conns \subseteq Objects /\ Transfers \subseteq Objects /\ Iface \in Objects
      /\ Conns \cap Transfers = {} /\ Iface \notin Conns
  BY ObjectsAssumption DEF Objects
<1>5. Connections(k)' = OpenAfter(k, new)
  <2>1. View(Iface, k)' = Before(Iface, k, new)
    BY <1>1, <1>2, <1>4 DEF ViewsAfter
  <2> QED
    BY <2>1 DEF Connections, OpenAfter
<1>6. ASSUME NEW c \in OpenAfter(k, new)
      PROVE  /\ View(c, k)' \in ConnStorage
             /\ View(c, k)'.state = Before(c, k, new).state
             /\ View(c, k)'.transfers = Before(c, k, new).transfers
             /\ View(c, k)'.nextEvent = IF c \in moved THEN NextFree(c) ELSE Before(c, k, new).nextEvent
  <2>1. View(c, k)' = IF c \in moved THEN After(c, k, new) ELSE Before(c, k, new)
    BY <1>1, <1>4 DEF ViewsAfter
  <2>2. Before(c, k, new) \in ConnStorage
    BY DEF PipelinesAfter
  <2> QED
    BY <1>3, <2>1, <2>2 DEF After, ConnStorage
<1>7. \A t \in Transfers : View(t, k)' = Before(t, k, new)
  BY <1>1, <1>2, <1>4 DEF ViewsAfter
<1>8. \A c \in OpenAfter(k, new) : Pipeline(c, k)'
  <2> SUFFICES ASSUME NEW c \in OpenAfter(k, new)
               PROVE  Pipeline(c, k)'
    OBVIOUS
  <2>1. PICK s : s = View(c, k)'
    OBVIOUS
  <2>2. /\ s \in ConnStorage /\ s.transfers = Before(c, k, new).transfers
        /\ s.state = IF s.transfers = <<>> THEN "IDLE" ELSE "BUSY"
    BY <1>6, <2>1 DEF PipelinesAfter
  <2>3. s.transfers \in Seq(Transfers) /\ s # None
    BY <2>2, NoneAssumption DEF ConnStorage
  <2>4. \A i \in DOMAIN s.transfers : s.transfers[i] \in Transfers
    BY <2>3
  <2>5. \A i \in DOMAIN s.transfers : View(s.transfers[i], k)' = IF i = 1 THEN "ACTIVE" ELSE "ENQUEUED"
    BY <1>7, <2>2, <2>4 DEF PipelinesAfter
  <2> QED
    BY <2>1, <2>2, <2>3, <2>5 DEF Pipeline
<1>9. Apart(k)'
  BY <1>5, <1>6 DEF Apart, ApartAfter
<1>10. EventsOf(k)
  BY DEF Consistent
<1>11. \A e \in Live(k)' : ConnOf(e) \in OpenAfter(k, new) /\ e = View(ConnOf(e), k)'.nextEvent
  <2> SUFFICES ASSUME NEW e \in Live(k)'
               PROVE  ConnOf(e) \in OpenAfter(k, new) /\ e = View(ConnOf(e), k)'.nextEvent
    OBVIOUS
  <2>1. CASE e \in Added(moved)
    BY <1>3, <1>6, <2>1 DEF Added, EventsKept
  <2>2. CASE e \in Live(k) \ (popped \cup disabled \cup Outdated(k, new, moved))
    <3> DEFINE c == ConnOf(e)
    <3>1. c \in Connections(k) /\ e = View(c, k).nextEvent /\ e # None
      BY <1>2, <1>10, <2>2, ViewTyped, NoneAssumption DEF EventsOf
    <3>2. ~(c \in moved /\ Before(c, k, new).nextEvent = e)
      BY <2>2, <3>1 DEF Outdated
    <3>3. c \in OpenAfter(k, new) \ moved /\ Before(c, k, new).nextEvent = e
      BY <2>2, <3>1, <3>2 DEF EventsKept
    <3> QED
      BY <1>6, <3>3
  <2> QED
    BY <1>1, <2>1, <2>2 DEF LiveAfter
<1>12. \A c \in OpenAfter(k, new) : View(c, k)'.nextEvent \in Live(k)' /\ ConnOf(View(c, k)'.nextEvent) = c
  <2> SUFFICES ASSUME NEW c \in OpenAfter(k, new)
               PROVE  View(c, k)'.nextEvent \in Live(k)' /\ ConnOf(View(c, k)'.nextEvent) = c
    OBVIOUS
  <2>1. CASE c \in moved
    BY <1>1, <1>3, <1>6, <2>1 DEF LiveAfter, Added
  <2>2. CASE c \notin moved
    <3> DEFINE n == View(c, k).nextEvent
    <3>1. View(c, k)'.nextEvent = n /\ c \in Connections(k) /\ n \notin popped \cup disabled
      BY <1>6, <2>2 DEF EventsKept
    <3>2. n \in Live(k) /\ ConnOf(n) = c /\ n # None
      BY <1>2, <1>10, <3>1, ViewTyped, NoneAssumption DEF EventsOf
    <3>3. n \notin Outdated(k, new, moved)
      <4> SUFFICES ASSUME NEW d \in moved, n = Before(d, k, new).nextEvent
                   PROVE  FALSE
        BY DEF Outdated
      <4>1. d \in Connections(k) /\ n = View(d, k).nextEvent
        BY <3>2 DEF EventsKept
      <4> QED
        BY <1>10, <2>2, <3>2, <4>1 DEF EventsOf
    <3> QED
      BY <1>1, <3>1, <3>2, <3>3 DEF LiveAfter
  <2> QED
    BY <2>1, <2>2
<1>13. EventsOf(k)'
  BY <1>5, <1>11, <1>12 DEF EventsOf
<1> QED
  BY <1>5, <1>8, <1>9, <1>13 DEF Consistent

\* Within the run nothing falls back.
ProgressAfter(k, new) ==
  /\ \A t \in Transfers : Progress(View(t, k), Before(t, k, new))
  /\ \A c \in Conns : View(c, k) # None =>
       /\ Before(c, k, new) # None
       /\ View(c, k).state = "CLOSED" => Before(c, k, new).state = "CLOSED"
ProgressStep(k) ==
  /\ \A t \in Transfers : Progress(View(t, k), View(t, k)')
  /\ \A c \in Conns : View(c, k) # None =>
       /\ View(c, k)' # None
       /\ View(c, k).state = "CLOSED" => View(c, k)'.state = "CLOSED"

\* What every step of run k does: it keeps the run consistent and the real run as it was.
RunStep(k) == /\ Consistent(k)' /\ StoragesTyped' /\ RunsAfter(k) /\ ProgressStep(k)
              /\ k # NOPREDICT => RealUntouched

LEMMA CallRunStep ==
  ASSUME NEW k, NEW popped, NEW disabled, NEW used, NEW new, NEW moved,
         ProperCall(k, popped, disabled, used, new, moved), Consistent(k),
         OpenAfter(k, new) \subseteq Conns, PipelinesAfter(k, new), ApartAfter(k, new),
         EventsKept(k, popped, disabled, new, moved), ProgressAfter(k, new)
  PROVE  RunStep(k)
<1>1. Consistent(k)'
  BY CallConsistent
<1>2. StoragesTyped' /\ RunsAfter(k)
  BY CallStorages
<1>3. k # NOPREDICT => RealUntouched
  BY CallReal
<1>4. ViewsAfter(k, new, moved)
  BY CallViews
<1>5. /\ moved \subseteq Conns /\ \A c \in moved : Before(c, k, new) \in ConnStorage
      /\ Conns \cap Transfers = {} /\ Conns \subseteq Objects /\ Transfers \subseteq Objects
  BY ObjectsAssumption DEF ProperCall, Objects
<1>6. \A t \in Transfers : View(t, k)' = Before(t, k, new)
  BY <1>4, <1>5 DEF ViewsAfter
<1>7. \A c \in moved : NextFree(c) \in Events
  BY CallLive
<1>8. ASSUME NEW c \in moved
      PROVE  View(c, k)' # None /\ View(c, k)'.state = Before(c, k, new).state
  <2>1. View(c, k)' = After(c, k, new) /\ Before(c, k, new) \in ConnStorage
    BY <1>4, <1>5 DEF ViewsAfter
  <2>2. After(c, k, new) \in ConnStorage /\ After(c, k, new).state = Before(c, k, new).state
    BY <1>7, <2>1 DEF After, ConnStorage
  <2> QED
    BY <2>1, <2>2, NoneAssumption
<1>9. \A c \in Conns \ moved : View(c, k)' = Before(c, k, new)
  BY <1>4, <1>5 DEF ViewsAfter
<1>10. ProgressStep(k)
  BY <1>6, <1>8, <1>9 DEF ProgressStep, ProgressAfter
<1> QED
  BY <1>1, <1>2, <1>3, <1>10 DEF RunStep

-----------------------------------------------------------------------------
(* The actions of a run *)

\* What an action knows of the run it is part of.
InRun(k) == Typed /\ Consistent(k) /\ k \in Runs /\ k = tmRun

LEMMA RunFacts ==
  ASSUME NEW k, InRun(k)
  PROVE  /\ Conns \subseteq Objects /\ Transfers \subseteq Objects /\ Iface \in Objects
         /\ Conns \cap Transfers = {} /\ Iface \notin Conns \cup Transfers
         /\ \A c \in Conns : Storage(c) = ConnStorage /\ View(c, k) \in ConnStorage \cup {None}
         /\ \A t \in Transfers : Storage(t) = TransferState /\ View(t, k) \in TransferState
         /\ \A t \in Transfers : View(t, k) # None
         /\ Storage(Iface) = SUBSET Conns /\ View(Iface, k) = Connections(k)
         /\ Connections(k) \subseteq Conns /\ View(Iface, k) # None
         /\ \A c \in Connections(k) : View(c, k) \in ConnStorage /\ View(c, k) # None
         /\ Live(k) \subseteq Events /\ Live(k) \subseteq Queue(k)
<1>1. /\ Conns \subseteq Objects /\ Transfers \subseteq Objects /\ Iface \in Objects
      /\ Conns \cap Transfers = {} /\ Iface \notin Conns \cup Transfers
  BY ObjectsAssumption DEF Objects
<1>2. /\ \A c \in Conns : Storage(c) = ConnStorage
      /\ \A t \in Transfers : Storage(t) = TransferState
      /\ Storage(Iface) = SUBSET Conns
  BY <1>1 DEF Storage
<1>3. /\ \A c \in Conns : View(c, k) \in ConnStorage \cup {None}
      /\ \A t \in Transfers : View(t, k) \in TransferState
      /\ Connections(k) \subseteq Conns
      /\ Live(k) \subseteq Queue(k) /\ Queue(k) \subseteq Events
  BY ViewTyped DEF InRun
<1>4. View(Iface, k) = Connections(k)
  BY DEF Connections
<1>5. \A c \in Connections(k) : View(c, k) # None
  BY DEF InRun, Consistent, Pipeline
<1> QED
  BY <1>1, <1>2, <1>3, <1>4, <1>5, NoneAssumption

\* A transfer that waits to be scheduled is in no pipeline.
LEMMA NotInPipelines ==
  ASSUME NEW k, InRun(k), NEW t \in Transfers, View(t, k) = "ENABLED"
  PROVE  \A c \in Connections(k) : \A i \in DOMAIN View(c, k).transfers : View(c, k).transfers[i] # t
BY DEF InRun, Consistent, Pipeline

\* The state s of a connection and the transfers of mine are in order after the call.
InOrder(s, k, new, mine) ==
  /\ s \in ConnStorage
  /\ s.state = IF s.transfers = <<>> THEN "IDLE" ELSE "BUSY"
  /\ \A i \in DOMAIN s.transfers :
       /\ s.transfers[i] \in mine
       /\ Before(s.transfers[i], k, new) = IF i = 1 THEN "ACTIVE" ELSE "ENQUEUED"
       /\ \A j \in DOMAIN s.transfers : s.transfers[i] = s.transfers[j] => i = j

\* A call that sets the pipeline of one connection, and the transfers that are
\* or have been in it.
LEMMA OnePipeline ==
  ASSUME NEW k, InRun(k), NEW new, NEW c, NEW mine,
         OpenAfter(k, new) \subseteq Connections(k) \cup {c},
         \A d \in OpenAfter(k, new) \ {c} : Before(d, k, new) = View(d, k),
         \A t \in Transfers \ mine : Before(t, k, new) = View(t, k),
         \A d \in OpenAfter(k, new) \ {c} :
           \A i \in DOMAIN View(d, k).transfers : View(d, k).transfers[i] \notin mine,
         c \in OpenAfter(k, new) => InOrder(Before(c, k, new), k, new, mine)
  PROVE  PipelinesAfter(k, new) /\ ApartAfter(k, new)
<1>1. ASSUME NEW d \in OpenAfter(k, new), d # c
      PROVE  /\ Before(d, k, new) = View(d, k) /\ Pipeline(d, k) /\ View(d, k) \in ConnStorage
             /\ \A i \in DOMAIN View(d, k).transfers :
                  /\ View(d, k).transfers[i] \in Transfers \ mine
                  /\ Before(View(d, k).transfers[i], k, new) = IF i = 1 THEN "ACTIVE" ELSE "ENQUEUED"
  <2>1. Before(d, k, new) = View(d, k) /\ Pipeline(d, k) /\ View(d, k) \in ConnStorage
    BY <1>1, RunFacts DEF InRun, Consistent
  <2>2. View(d, k).transfers \in Seq(Transfers)
    BY <2>1 DEF ConnStorage
  <2>3. \A i \in DOMAIN View(d, k).transfers : View(d, k).transfers[i] \in Transfers \ mine
    BY <1>1, <2>2
  <2> QED
    BY <2>1, <2>3 DEF Pipeline
<1>2. PipelinesAfter(k, new)
  BY <1>1 DEF PipelinesAfter, Pipeline, InOrder
<1>3. ApartAfter(k, new)
  <2>1. Apart(k)
    BY DEF InRun, Consistent
  <2>2. ASSUME NEW d \in OpenAfter(k, new), NEW e \in OpenAfter(k, new),
               NEW i \in DOMAIN Before(d, k, new).transfers, NEW j \in DOMAIN Before(e, k, new).transfers,
               Before(d, k, new).transfers[i] = Before(e, k, new).transfers[j]
        PROVE  d = e /\ i = j
    <3>1. CASE d # c /\ e # c
      BY <1>1, <2>1, <2>2, <3>1 DEF Apart
    <3>2. CASE d = c /\ e = c
      BY <2>2, <3>2 DEF InOrder
    <3>3. CASE d = c /\ e # c
      BY <1>1, <2>2, <3>3 DEF InOrder
    <3>4. CASE d # c /\ e = c
      BY <1>1, <2>2, <3>4 DEF InOrder
    <3> QED
      BY <3>1, <3>2, <3>3, <3>4
  <2> QED
    BY <2>2 DEF ApartAfter
<1> QED
  BY <1>2, <1>3

LEMMA ConnectStep ==
  ASSUME NEW k, InRun(k), NEW c \in Conns, NEW t \in Transfers, Connect(k, c, t)
  PROVE  RunStep(k)
<1>1. PICK new : new = To(c, [state |-> "BUSY", transfers |-> <<t>>, nextEvent |-> None])
                         \uplus To(t, "ACTIVE") \uplus To(Iface, Connections(k) \cup {c})
  OBVIOUS
<1>2. Call(k, {}, {}, {c, t, Iface}, new, {c}) /\ View(t, k) = "ENABLED" /\ View(c, k) = None
  BY <1>1 DEF Connect, Scheduling
<1>3. c # t /\ c # Iface /\ t # Iface
  BY RunFacts
<1>4. /\ DOMAIN new = {c, t, Iface}
      /\ new[c] = [state |-> "BUSY", transfers |-> <<t>>, nextEvent |-> None]
      /\ new[t] = "ACTIVE" /\ new[Iface] = Connections(k) \cup {c}
  BY <1>1, <1>3 DEF To, \uplus
<1>5. /\ new[c] \in ConnStorage /\ new[c].state = "BUSY" /\ new[c].transfers = <<t>> /\ new[c].nextEvent = None
  BY <1>4 DEF ConnStorage
<1>6. c \notin Connections(k)
  BY <1>2, RunFacts
<1>7. \A o \in Objects : Before(o, k, new) = IF o \in {c, t, Iface} THEN new[o] ELSE View(o, k)
  BY <1>4 DEF Before
<1>8. ProperCall(k, {}, {}, {c, t, Iface}, new, {c})
  BY <1>2, <1>4, <1>5, <1>7, RunFacts DEF ProperCall, InRun, TransferState
<1>9. OpenAfter(k, new) = Connections(k) \cup {c} /\ OpenAfter(k, new) \subseteq Conns
  BY <1>4, <1>7, RunFacts DEF OpenAfter
<1>10. \A d \in Connections(k) : Before(d, k, new) = View(d, k)
  BY <1>3, <1>6, <1>7, RunFacts
<1>11. PipelinesAfter(k, new) /\ ApartAfter(k, new)
  <2>1. \A d \in OpenAfter(k, new) \ {c} : Before(d, k, new) = View(d, k)
    BY <1>9, <1>10
  <2>2. \A s \in Transfers \ {t} : Before(s, k, new) = View(s, k)
    BY <1>7, RunFacts
  <2>3. \A d \in OpenAfter(k, new) \ {c} :
          \A i \in DOMAIN View(d, k).transfers : View(d, k).transfers[i] \notin {t}
    BY <1>2, <1>9, NotInPipelines
  <2>4. /\ Before(c, k, new) = new[c] /\ Before(t, k, new) = "ACTIVE"
        /\ DOMAIN <<t>> = {1} /\ <<t>>[1] = t /\ <<t>> # <<>>
    BY <1>4, <1>7, RunFacts
  <2>5. PICK mine : mine = {t}
    OBVIOUS
  <2>6. PICK s : s = new[c]
    OBVIOUS
  <2>7. \A i \in DOMAIN s.transfers : i = 1 /\ s.transfers[i] = t
    BY <1>5, <2>4, <2>6
  <2>8. InOrder(s, k, new, mine)
    BY <1>5, <2>4, <2>5, <2>6, <2>7 DEF InOrder
  <2> QED
    BY <1>9, <2>1, <2>2, <2>3, <2>4, <2>5, <2>6, <2>8, OnePipeline
<1>12. EventsKept(k, {}, {}, new, {c})
  BY <1>5, <1>6, <1>7, <1>9, <1>10, RunFacts DEF EventsKept
<1>13. ProgressAfter(k, new)
  BY <1>2, <1>4, <1>7, RunFacts DEF ProgressAfter, Progress
<1> QED
  BY <1>8, <1>9, <1>11, <1>12, <1>13, CallRunStep DEF InRun

\* An open connection: it has its own event and its own transfers.
LEMMA OpenFacts ==
  ASSUME NEW k, InRun(k), NEW c \in Connections(k)
  PROVE  /\ c \in Conns /\ View(c, k) \in ConnStorage
         /\ View(c, k).transfers \in Seq(Transfers)
         /\ View(c, k).state = IF View(c, k).transfers = <<>> THEN "IDLE" ELSE "BUSY"
         /\ \A i \in DOMAIN View(c, k).transfers :
              /\ View(c, k).transfers[i] \in Transfers
              /\ View(View(c, k).transfers[i], k) = IF i = 1 THEN "ACTIVE" ELSE "ENQUEUED"
              /\ \A j \in DOMAIN View(c, k).transfers :
                   View(c, k).transfers[i] = View(c, k).transfers[j] => i = j
              /\ \A d \in Connections(k) \ {c} : \A j \in DOMAIN View(d, k).transfers :
                   View(d, k).transfers[j] # View(c, k).transfers[i]
         /\ View(c, k).nextEvent \in Live(k) /\ View(c, k).nextEvent # None
         /\ \A d \in Connections(k) \ {c} : View(d, k).nextEvent # View(c, k).nextEvent
<1>1. /\ c \in Conns /\ View(c, k) \in ConnStorage
      /\ Live(k) \subseteq Events
  BY RunFacts
<1>2. View(c, k).transfers \in Seq(Transfers)
  BY <1>1 DEF ConnStorage
<1>3. \A i \in DOMAIN View(c, k).transfers : View(c, k).transfers[i] \in Transfers
  BY <1>2
<1>4. Pipeline(c, k) /\ Apart(k) /\ EventsOf(k)
  BY DEF InRun, Consistent
<1>5. \A i \in DOMAIN View(c, k).transfers :
        /\ \A j \in DOMAIN View(c, k).transfers :
             View(c, k).transfers[i] = View(c, k).transfers[j] => i = j
        /\ \A d \in Connections(k) \ {c} : \A j \in DOMAIN View(d, k).transfers :
             View(d, k).transfers[j] # View(c, k).transfers[i]
  BY <1>4 DEF Apart
<1>6. /\ View(c, k).nextEvent \in Live(k) /\ View(c, k).nextEvent # None
      /\ \A d \in Connections(k) \ {c} : View(d, k).nextEvent # View(c, k).nextEvent
  BY <1>1, <1>4, NoneAssumption DEF EventsOf
<1> QED
  BY <1>1, <1>2, <1>3, <1>4, <1>5, <1>6 DEF Pipeline

\* The event that is handled is that of an open connection.
LEMMA HandledFacts ==
  ASSUME NEW k, InRun(k), NEW e \in Live(k)
  PROVE  ConnOf(e) \in Connections(k) /\ e = View(ConnOf(e), k).nextEvent /\ e \in Queue(k)
BY RunFacts DEF InRun, Consistent, EventsOf

LEMMA ReuseStep ==
  ASSUME NEW k, InRun(k), NEW c \in Conns, NEW t \in Transfers, Reuse(k, c, t)
  PROVE  RunStep(k)
<1>1. PICK new : new = To(c, [View(c, k) EXCEPT !.state = "BUSY", !.transfers = <<t>>]) \uplus To(t, "ACTIVE")
  OBVIOUS
<1>2. PICK used : used = {t, Iface} \cup Connections(k)
  OBVIOUS
<1>3. PICK moved \in SUBSET Connections(k) : c \in moved /\ Call(k, {}, {}, used, new, moved)
  BY <1>1, <1>2 DEF Reuse
<1>4. View(t, k) = "ENABLED" /\ c \in Connections(k) /\ View(c, k).state = "IDLE"
  BY DEF Reuse, Scheduling
<1>5. c # t /\ c # Iface /\ t # Iface
  BY RunFacts
<1>6. /\ DOMAIN new = {c, t}
      /\ new[c] = [View(c, k) EXCEPT !.state = "BUSY", !.transfers = <<t>>]
      /\ new[t] = "ACTIVE"
  BY <1>1, <1>5 DEF To, \uplus
<1>7. /\ new[c] \in ConnStorage /\ new[c].state = "BUSY" /\ new[c].transfers = <<t>>
      /\ new[c].nextEvent = View(c, k).nextEvent
  <2>1. View(c, k) \in ConnStorage /\ <<t>> \in Seq(Transfers)
    BY <1>4, OpenFacts
  <2> QED
    BY <1>6, <2>1 DEF ConnStorage
<1>8. \A o \in Objects : Before(o, k, new) = IF o \in {c, t} THEN new[o] ELSE View(o, k)
  BY <1>6 DEF Before
<1>9. \A d \in Conns \ {c} : Before(d, k, new) = View(d, k)
  BY <1>5, <1>8, RunFacts
<1>10. OpenAfter(k, new) = Connections(k) /\ OpenAfter(k, new) \subseteq Conns
  BY <1>5, <1>8, RunFacts DEF OpenAfter
<1>11. \A d \in moved : Before(d, k, new) \in ConnStorage
  BY <1>7, <1>8, <1>9, RunFacts
<1>12. ProperCall(k, {}, {}, used, new, moved)
  BY <1>2, <1>3, <1>4, <1>6, <1>7, <1>11, RunFacts DEF ProperCall, InRun, TransferState
<1>13. PipelinesAfter(k, new) /\ ApartAfter(k, new)
  <2>1. PICK mine : mine = {t}
    OBVIOUS
  <2>2. \A s \in Transfers \ mine : Before(s, k, new) = View(s, k)
    BY <1>8, <2>1, RunFacts
  <2>3. \A d \in OpenAfter(k, new) \ {c} :
          \A i \in DOMAIN View(d, k).transfers : View(d, k).transfers[i] \notin mine
    BY <1>4, <1>10, <2>1, NotInPipelines
  <2>4. PICK s : s = new[c]
    OBVIOUS
  <2>5. Before(c, k, new) = s /\ Before(t, k, new) = "ACTIVE"
    BY <1>6, <1>8, <2>4, RunFacts
  <2>6. s.transfers # <<>> /\ \A i \in DOMAIN s.transfers : i = 1 /\ s.transfers[i] = t
    BY <1>7, <2>4
  <2>7. InOrder(s, k, new, mine)
    BY <1>7, <2>1, <2>4, <2>5, <2>6 DEF InOrder
  <2> QED
    BY <1>9, <1>10, <2>2, <2>3, <2>5, <2>7, OnePipeline
<1>14. EventsKept(k, {}, {}, new, moved)
  BY <1>3, <1>4, <1>7, <1>8, <1>9, <1>10, RunFacts DEF EventsKept
<1>15. ProgressAfter(k, new)
  BY <1>4, <1>7, <1>8, RunFacts, NoneAssumption DEF ProgressAfter, Progress
<1> QED
  BY <1>10, <1>12, <1>13, <1>14, <1>15, CallRunStep DEF InRun

LEMMA EnqueueStep ==
  ASSUME NEW k, InRun(k), NEW c \in Conns, NEW t \in Transfers, Enqueue(k, c, t)
  PROVE  RunStep(k)
<1>1. PICK new : new = To(c, [View(c, k) EXCEPT !.transfers = Append(@, t)]) \uplus To(t, "ENQUEUED")
  OBVIOUS
<1>2. PICK moved \in SUBSET Connections(k), others \in {{}, Connections(k)} :
        moved \subseteq others /\ Call(k, {}, {}, {c, t, Iface} \cup others, new, moved)
  BY <1>1 DEF Enqueue
<1>3. PICK used : used = {c, t, Iface} \cup others
  OBVIOUS
<1>4. View(t, k) = "ENABLED" /\ c \in Connections(k) /\ View(c, k).state = "BUSY"
  BY DEF Enqueue, Scheduling
<1>5. c # t /\ c # Iface /\ t # Iface
  BY RunFacts
<1>6. PICK q : q = View(c, k).transfers
  OBVIOUS
<1>7. q \in Seq(Transfers) /\ q # <<>> /\ View(c, k) \in ConnStorage
  BY <1>4, <1>6, OpenFacts
<1>8. /\ DOMAIN new = {c, t}
      /\ new[c] = [View(c, k) EXCEPT !.transfers = Append(q, t)]
      /\ new[t] = "ENQUEUED"
  BY <1>1, <1>5, <1>6 DEF To, \uplus
<1>9. /\ new[c] \in ConnStorage /\ new[c].state = "BUSY" /\ new[c].transfers = Append(q, t)
      /\ new[c].nextEvent = View(c, k).nextEvent
  <2>1. Append(q, t) \in Seq(Transfers)
    BY <1>7
  <2> QED
    BY <1>4, <1>7, <1>8, <2>1 DEF ConnStorage
<1>10. \A o \in Objects : Before(o, k, new) = IF o \in {c, t} THEN new[o] ELSE View(o, k)
  BY <1>8 DEF Before
<1>11. \A d \in Conns \ {c} : Before(d, k, new) = View(d, k)
  BY <1>5, <1>10, RunFacts
<1>12. OpenAfter(k, new) = Connections(k) /\ OpenAfter(k, new) \subseteq Conns
  BY <1>5, <1>10, RunFacts DEF OpenAfter
<1>13. \A d \in moved : Before(d, k, new) \in ConnStorage
  BY <1>9, <1>10, <1>11, RunFacts
<1>14. ProperCall(k, {}, {}, used, new, moved)
  <2>1. used \subseteq Objects /\ moved \subseteq Conns /\ DOMAIN new \subseteq used
    BY <1>2, <1>3, <1>4, <1>8, RunFacts
  <2>2. \A o \in used : View(o, k) # None
    BY <1>3, <1>4, RunFacts
  <2>3. \A o \in DOMAIN new : new[o] \in Storage(o)
    BY <1>8, <1>9, RunFacts DEF TransferState
  <2> QED
    BY <1>2, <1>3, <1>13, <2>1, <2>2, <2>3 DEF ProperCall, InRun
<1>15. PipelinesAfter(k, new) /\ ApartAfter(k, new)
  <2>1. PICK mine : mine = {t} \cup {q[i] : i \in DOMAIN q}
    OBVIOUS
  <2>2. \A s \in Transfers \ mine : Before(s, k, new) = View(s, k)
    BY <1>10, <2>1, RunFacts
  <2>3. \A d \in OpenAfter(k, new) \ {c} :
          \A i \in DOMAIN View(d, k).transfers : View(d, k).transfers[i] \notin mine
    BY <1>4, <1>6, <1>12, <2>1, NotInPipelines, OpenFacts
  <2>4. PICK s : s = new[c]
    OBVIOUS
  <2>5. Before(c, k, new) = s /\ Before(t, k, new) = "ENQUEUED"
    BY <1>8, <1>10, <2>4, RunFacts
  <2>6. \A i \in DOMAIN q :
             /\ q[i] \in Transfers /\ q[i] # t
             /\ Before(q[i], k, new) = IF i = 1 THEN "ACTIVE" ELSE "ENQUEUED"
             /\ \A j \in DOMAIN q : q[i] = q[j] => i = j
    <3>1. \A i \in DOMAIN q :
               /\ q[i] \in Transfers /\ q[i] # t
               /\ View(q[i], k) = IF i = 1 THEN "ACTIVE" ELSE "ENQUEUED"
               /\ \A j \in DOMAIN q : q[i] = q[j] => i = j
      BY <1>4, <1>6, OpenFacts, NotInPipelines
    <3> QED
      BY <1>10, <3>1, RunFacts
  <2>7. /\ s.transfers # <<>> /\ Len(q) >= 1 /\ Len(q) \in Nat
        /\ DOMAIN q = 1 .. Len(q) /\ DOMAIN s.transfers = 1 .. Len(q) + 1
        /\ \A i \in DOMAIN s.transfers : s.transfers[i] = IF i = Len(q) + 1 THEN t ELSE q[i]
    BY <1>7, <1>9, <2>4
  <2>8. \A i \in DOMAIN s.transfers :
          /\ s.transfers[i] \in mine
          /\ Before(s.transfers[i], k, new) = IF i = 1 THEN "ACTIVE" ELSE "ENQUEUED"
          /\ \A j \in DOMAIN s.transfers : s.transfers[i] = s.transfers[j] => i = j
    BY <2>1, <2>5, <2>6, <2>7
  <2>9. InOrder(s, k, new, mine)
    BY <1>9, <2>4, <2>7, <2>8 DEF InOrder
  <2> QED
    BY <1>11, <1>12, <2>2, <2>3, <2>5, <2>9, OnePipeline
<1>16. EventsKept(k, {}, {}, new, moved)
  BY <1>2, <1>4, <1>9, <1>10, <1>11, <1>12, RunFacts DEF EventsKept
<1>17. ProgressAfter(k, new)
  BY <1>4, <1>9, <1>8, <1>10, RunFacts, NoneAssumption DEF ProgressAfter, Progress
<1> QED
  BY <1>12, <1>14, <1>15, <1>16, <1>17, CallRunStep DEF InRun

LEMMA GoIdleStep ==
  ASSUME NEW k, InRun(k), NEW e \in Events, GoIdle(k, e),
         NEW x, x = View(ConnOf(e), k).transfers[1]
  PROVE  RunStep(k) /\ View(x, k)' = "FINISHED"
<1> DEFINE c == ConnOf(e)
<1>1. PICK q : q = View(c, k).transfers /\ x = q[1]
  OBVIOUS
<1>2. /\ e \in Live(k) /\ e \in Queue(k) /\ c \in Connections(k) /\ e = View(c, k).nextEvent
      /\ View(c, k).state = "BUSY" /\ Len(q) = 1
  BY <1>1, HandledFacts DEF GoIdle, Handling
<1>3. /\ View(c, k) \in ConnStorage /\ q \in Seq(Transfers) /\ x \in Transfers /\ View(x, k) = "ACTIVE"
      /\ c \in Conns /\ \A i \in DOMAIN q : i = 1
  BY <1>1, <1>2, OpenFacts
<1>4. PICK new : new = To(c, [state |-> "IDLE", transfers |-> <<>>, nextEvent |-> None]) \uplus To(x, "FINISHED")
  OBVIOUS
<1>5. PICK used : used = {x, Iface} \cup Connections(k)
  OBVIOUS
<1>6. PICK moved \in SUBSET Connections(k) : c \in moved /\ Call(k, {e}, {}, used, new, moved)
  BY <1>1, <1>4, <1>5 DEF GoIdle
<1>7. c # x /\ c # Iface /\ x # Iface
  BY <1>3, RunFacts
<1>8. /\ DOMAIN new = {c, x}
      /\ new[c] = [state |-> "IDLE", transfers |-> <<>>, nextEvent |-> None]
      /\ new[x] = "FINISHED"
  BY <1>4, <1>7 DEF To, \uplus
<1>9. /\ new[c] \in ConnStorage /\ new[c].state = "IDLE" /\ new[c].transfers = <<>>
      /\ new[c].nextEvent = None
  <2>1. <<>> \in Seq(Transfers)
    OBVIOUS
  <2> QED
    BY <1>8, <2>1 DEF ConnStorage
<1>10. \A o \in Objects : Before(o, k, new) = IF o \in {c, x} THEN new[o] ELSE View(o, k)
  BY <1>8 DEF Before
<1>11. \A d \in Conns \ {c} : Before(d, k, new) = View(d, k)
  BY <1>3, <1>10, RunFacts
<1>12. OpenAfter(k, new) = Connections(k) /\ OpenAfter(k, new) \subseteq Conns
  BY <1>7, <1>10, RunFacts DEF OpenAfter
<1>13. Before(c, k, new) = new[c]
  BY <1>3, <1>10, RunFacts
<1>14. ProperCall(k, {e}, {}, used, new, moved)
  <2>1. used \subseteq Objects /\ moved \subseteq Conns /\ DOMAIN new \subseteq used
    BY <1>2, <1>3, <1>5, <1>8, RunFacts
  <2>2. \A o \in used : View(o, k) # None
    BY <1>3, <1>5, RunFacts
  <2>3. \A o \in DOMAIN new : new[o] \in Storage(o)
    BY <1>3, <1>8, <1>9, RunFacts DEF TransferState
  <2>4. \A d \in moved : Before(d, k, new) \in ConnStorage
    BY <1>9, <1>11, <1>13, RunFacts
  <2> QED
    BY <1>2, <1>6, <2>1, <2>2, <2>3, <2>4 DEF ProperCall, InRun
<1>15. PipelinesAfter(k, new) /\ ApartAfter(k, new)
  <2>1. PICK mine : mine = {x}
    OBVIOUS
  <2>2. \A s \in Transfers \ mine : Before(s, k, new) = View(s, k)
    BY <1>3, <1>10, <2>1, RunFacts
  <2>3. \A d \in OpenAfter(k, new) \ {c} :
          \A i \in DOMAIN View(d, k).transfers : View(d, k).transfers[i] \notin mine
    <3>1. 1 \in DOMAIN q
      BY <1>2, <1>3
    <3> QED
      BY <1>1, <1>2, <1>12, <2>1, <3>1, OpenFacts
  <2>4. PICK s : s = new[c]
    OBVIOUS
  <2>5. InOrder(s, k, new, mine)
    BY <1>9, <2>4 DEF InOrder
  <2> QED
    BY <1>11, <1>12, <1>13, <2>2, <2>3, <2>4, <2>5, OnePipeline
<1>16. EventsKept(k, {e}, {}, new, moved)
  <2>1. \A d \in Connections(k) \ {c} : View(d, k).nextEvent # e
    BY <1>2, OpenFacts
  <2> QED
    BY <1>2, <1>6, <1>9, <1>11, <1>12, <1>13, <2>1, RunFacts DEF EventsKept
<1>17. ProgressAfter(k, new)
  <2>1. \A t \in Transfers : Progress(View(t, k), Before(t, k, new))
    BY <1>3, <1>8, <1>10, RunFacts DEF Progress
  <2>2. \A d \in Conns : View(d, k) # None =>
          /\ Before(d, k, new) # None
          /\ View(d, k).state = "CLOSED" => Before(d, k, new).state = "CLOSED"
    BY <1>2, <1>9, <1>11, <1>13, NoneAssumption
  <2> QED
    BY <2>1, <2>2 DEF ProgressAfter
<1>18. RunStep(k)
  BY <1>12, <1>14, <1>15, <1>16, <1>17, CallRunStep DEF InRun
<1>19. View(x, k)' = "FINISHED"
  <2>1. ViewsAfter(k, new, moved)
    BY <1>14, CallViews
  <2>2. x \in Objects /\ x \notin moved
    BY <1>3, <1>6, RunFacts
  <2> QED
    BY <1>8, <1>10, <2>1, <2>2 DEF ViewsAfter
<1> QED
  BY <1>18, <1>19

LEMMA StartNextStep ==
  ASSUME NEW k, InRun(k), NEW e \in Events, StartNext(k, e),
         NEW x, x = View(ConnOf(e), k).transfers[1]
  PROVE  RunStep(k) /\ View(x, k)' = "FINISHED"
<1> DEFINE c == ConnOf(e)
<1>1. PICK q, y : q = View(c, k).transfers /\ y = q[2] /\ x = q[1]
  OBVIOUS
<1>2. /\ e \in Live(k) /\ e \in Queue(k) /\ c \in Connections(k) /\ e = View(c, k).nextEvent
      /\ View(c, k).state = "BUSY" /\ Len(q) > 1
  BY <1>1, HandledFacts DEF StartNext, Handling
<1>3. /\ View(c, k) \in ConnStorage /\ q \in Seq(Transfers) /\ c \in Conns
      /\ 1 \in DOMAIN q /\ 2 \in DOMAIN q /\ DOMAIN q = 1 .. Len(q) /\ Len(q) \in Nat
  BY <1>1, <1>2, OpenFacts
<1>4. /\ x \in Transfers /\ View(x, k) = "ACTIVE" /\ y \in Transfers /\ View(y, k) = "ENQUEUED"
      /\ \A i, j \in DOMAIN q : q[i] = q[j] => i = j
      /\ \A i \in DOMAIN q : q[i] \in Transfers /\ View(q[i], k) = IF i = 1 THEN "ACTIVE" ELSE "ENQUEUED"
  BY <1>1, <1>2, <1>3, OpenFacts
<1>5. PICK new : new = To(c, [View(c, k) EXCEPT !.transfers = Tail(@), !.nextEvent = None])
                         \uplus To(x, "FINISHED") \uplus To(y, "ACTIVE")
  OBVIOUS
<1>6. PICK moved \in SUBSET Connections(k), others \in {{}, Connections(k)} :
        /\ c \in moved /\ moved \subseteq others \cup {c}
        /\ Call(k, {e}, {}, {c, x, y, Iface} \cup others, new, moved)
  BY <1>1, <1>5 DEF StartNext
<1>7. PICK used : used = {c, x, y, Iface} \cup others
  OBVIOUS
<1>8. c # x /\ c # y /\ x # y /\ c # Iface /\ x # Iface /\ y # Iface
  BY <1>1, <1>3, <1>4, RunFacts
<1>9. /\ DOMAIN new = {c, x, y}
      /\ new[c] = [View(c, k) EXCEPT !.transfers = Tail(q), !.nextEvent = None]
      /\ new[x] = "FINISHED" /\ new[y] = "ACTIVE"
  BY <1>1, <1>5, <1>8 DEF To, \uplus
<1>10. /\ new[c] \in ConnStorage /\ new[c].state = "BUSY" /\ new[c].transfers = Tail(q)
       /\ new[c].nextEvent = None
  <2>1. Tail(q) \in Seq(Transfers)
    BY <1>2, <1>3
  <2> QED
    BY <1>2, <1>3, <1>9, <2>1 DEF ConnStorage
<1>11. \A o \in Objects : Before(o, k, new) = IF o \in {c, x, y} THEN new[o] ELSE View(o, k)
  BY <1>9 DEF Before
<1>12. \A d \in Conns \ {c} : Before(d, k, new) = View(d, k)
  BY <1>4, <1>11, RunFacts
<1>13. OpenAfter(k, new) = Connections(k) /\ OpenAfter(k, new) \subseteq Conns
  BY <1>8, <1>11, RunFacts DEF OpenAfter
<1>14. Before(c, k, new) = new[c]
  BY <1>3, <1>11, RunFacts
<1>15. ProperCall(k, {e}, {}, used, new, moved)
  <2>1. used \subseteq Objects /\ moved \subseteq Conns /\ DOMAIN new \subseteq used
    BY <1>3, <1>4, <1>7, <1>9, RunFacts
  <2>2. \A o \in used : View(o, k) # None
    BY <1>2, <1>4, <1>7, RunFacts
  <2>3. \A o \in DOMAIN new : new[o] \in Storage(o)
    BY <1>3, <1>4, <1>9, <1>10, RunFacts DEF TransferState
  <2>4. \A d \in moved : Before(d, k, new) \in ConnStorage
    BY <1>10, <1>12, <1>14, RunFacts
  <2> QED
    BY <1>2, <1>6, <1>7, <2>1, <2>2, <2>3, <2>4 DEF ProperCall, InRun
<1>16. PipelinesAfter(k, new) /\ ApartAfter(k, new)
  <2>1. PICK mine : mine = {q[i] : i \in DOMAIN q}
    OBVIOUS
  <2>2. \A s \in Transfers \ mine : Before(s, k, new) = View(s, k)
    BY <1>1, <1>3, <1>11, <2>1, RunFacts
  <2>3. \A d \in OpenAfter(k, new) \ {c} :
          \A i \in DOMAIN View(d, k).transfers : View(d, k).transfers[i] \notin mine
    BY <1>1, <1>2, <1>13, <2>1, OpenFacts
  <2>4. PICK s : s = new[c]
    OBVIOUS
  <2>5. \A i \in DOMAIN q : i # 1 => Before(q[i], k, new) = IF i = 2 THEN "ACTIVE" ELSE "ENQUEUED"
    BY <1>1, <1>3, <1>4, <1>9, <1>11, RunFacts
  <2>6. /\ s.transfers # <<>> /\ DOMAIN s.transfers = 1 .. Len(q) - 1
        /\ \A i \in DOMAIN s.transfers : s.transfers[i] = q[i + 1]
    BY <1>2, <1>3, <1>10, <2>4
  <2>7. \A i \in DOMAIN s.transfers :
          /\ s.transfers[i] \in mine
          /\ Before(s.transfers[i], k, new) = IF i = 1 THEN "ACTIVE" ELSE "ENQUEUED"
          /\ \A j \in DOMAIN s.transfers : s.transfers[i] = s.transfers[j] => i = j
    <3> SUFFICES ASSUME NEW i \in DOMAIN s.transfers
                 PROVE  /\ s.transfers[i] \in mine
                        /\ Before(s.transfers[i], k, new) = IF i = 1 THEN "ACTIVE" ELSE "ENQUEUED"
                        /\ \A j \in DOMAIN s.transfers : s.transfers[i] = s.transfers[j] => i = j
      OBVIOUS
    <3>1. /\ i \in Nat /\ i + 1 \in DOMAIN q /\ s.transfers[i] = q[i + 1] /\ i + 1 # 1
          /\ (i = 1 <=> i + 1 = 2)
      BY <1>3, <2>6
    <3>2. Before(s.transfers[i], k, new) = IF i = 1 THEN "ACTIVE" ELSE "ENQUEUED"
      BY <2>5, <3>1
    <3>3. ASSUME NEW j \in DOMAIN s.transfers, s.transfers[i] = s.transfers[j]
          PROVE  i = j
      <4>1. j \in Nat /\ j + 1 \in DOMAIN q /\ s.transfers[j] = q[j + 1]
        BY <1>3, <2>6
      <4>2. i + 1 = j + 1
        BY <1>4, <3>1, <3>3, <4>1
      <4> QED
        BY <3>1, <4>1, <4>2
    <3> QED
      BY <2>1, <3>1, <3>2, <3>3
  <2>8. InOrder(s, k, new, mine)
    BY <1>10, <2>4, <2>6, <2>7 DEF InOrder
  <2> QED
    BY <1>12, <1>13, <1>14, <2>2, <2>3, <2>4, <2>8, OnePipeline
<1>17. EventsKept(k, {e}, {}, new, moved)
  <2>1. \A d \in Connections(k) \ {c} : View(d, k).nextEvent # e
    BY <1>2, OpenFacts
  <2> QED
    BY <1>2, <1>6, <1>10, <1>12, <1>13, <1>14, <2>1, RunFacts DEF EventsKept
<1>18. ProgressAfter(k, new)
  <2>1. \A t \in Transfers : Progress(View(t, k), Before(t, k, new))
    BY <1>3, <1>4, <1>9, <1>11, RunFacts DEF Progress
  <2>2. \A d \in Conns : View(d, k) # None =>
          /\ Before(d, k, new) # None
          /\ View(d, k).state = "CLOSED" => Before(d, k, new).state = "CLOSED"
    BY <1>2, <1>10, <1>12, <1>14, NoneAssumption
  <2> QED
    BY <2>1, <2>2 DEF ProgressAfter
<1>19. RunStep(k)
  BY <1>13, <1>15, <1>16, <1>17, <1>18, CallRunStep DEF InRun
<1>20. View(x, k)' = "FINISHED"
  <2>1. ViewsAfter(k, new, moved)
    BY <1>15, CallViews
  <2>2. x \in Objects /\ x \notin moved
    BY <1>4, <1>6, RunFacts
  <2> QED
    BY <1>9, <1>11, <2>1, <2>2 DEF ViewsAfter
<1> QED
  BY <1>19, <1>20

LEMMA NextRoundStep ==
  ASSUME NEW k, InRun(k), NEW e \in Events, NextRound(k, e)
  PROVE  RunStep(k)
<1> DEFINE c == ConnOf(e)
<1>1. /\ e \in Live(k) /\ e \in Queue(k) /\ c \in Connections(k) /\ e = View(c, k).nextEvent
      /\ View(c, k).state = "BUSY"
  BY HandledFacts DEF NextRound, Handling
<1>2. PICK q : q = View(c, k).transfers
  OBVIOUS
<1>3. View(c, k) \in ConnStorage /\ c \in Conns /\ q \in Seq(Transfers) /\ q # <<>>
  BY <1>1, <1>2, OpenFacts
<1>4. PICK new : new = To(c, [View(c, k) EXCEPT !.nextEvent = None])
  OBVIOUS
<1>5. PICK used : used = {Iface} \cup Connections(k)
  OBVIOUS
<1>6. PICK moved \in SUBSET Connections(k) : c \in moved /\ Call(k, {e}, {}, used, new, moved)
  BY <1>4, <1>5 DEF NextRound
<1>7. DOMAIN new = {c} /\ new[c] = [View(c, k) EXCEPT !.nextEvent = None]
  BY <1>4 DEF To
<1>8. /\ new[c] \in ConnStorage /\ new[c].state = "BUSY" /\ new[c].transfers = q
      /\ new[c].nextEvent = None
  BY <1>1, <1>2, <1>3, <1>7 DEF ConnStorage
<1>9. \A o \in Objects : Before(o, k, new) = IF o = c THEN new[c] ELSE View(o, k)
  BY <1>7 DEF Before
<1>10. /\ \A d \in Conns \ {c} : Before(d, k, new) = View(d, k)
       /\ \A t \in Transfers : Before(t, k, new) = View(t, k)
       /\ Before(c, k, new) = new[c]
       /\ OpenAfter(k, new) = Connections(k) /\ OpenAfter(k, new) \subseteq Conns
  BY <1>3, <1>9, RunFacts DEF OpenAfter
<1>11. ProperCall(k, {e}, {}, used, new, moved)
  <2>1. used \subseteq Objects /\ moved \subseteq Conns /\ DOMAIN new \subseteq used
    BY <1>1, <1>5, <1>7, RunFacts
  <2>2. \A o \in used : View(o, k) # None
    BY <1>5, RunFacts
  <2>3. \A o \in DOMAIN new : new[o] \in Storage(o)
    BY <1>3, <1>7, <1>8, RunFacts
  <2>4. \A d \in moved : Before(d, k, new) \in ConnStorage
    BY <1>8, <1>10, RunFacts
  <2> QED
    BY <1>1, <1>6, <2>1, <2>2, <2>3, <2>4 DEF ProperCall, InRun
<1>12. PipelinesAfter(k, new) /\ ApartAfter(k, new)
  <2>1. PICK mine : mine = {q[i] : i \in DOMAIN q}
    OBVIOUS
  <2>2. \A d \in OpenAfter(k, new) \ {c} :
          \A i \in DOMAIN View(d, k).transfers : View(d, k).transfers[i] \notin mine
    BY <1>1, <1>2, <1>10, <2>1, OpenFacts
  <2>3. PICK s : s = new[c]
    OBVIOUS
  <2>4. \A i \in DOMAIN q :
          /\ q[i] \in mine /\ Before(q[i], k, new) = IF i = 1 THEN "ACTIVE" ELSE "ENQUEUED"
          /\ \A j \in DOMAIN q : q[i] = q[j] => i = j
    BY <1>1, <1>2, <1>10, <2>1, OpenFacts
  <2>5. InOrder(s, k, new, mine)
    BY <1>3, <1>8, <2>3, <2>4 DEF InOrder
  <2> QED
    BY <1>10, <2>2, <2>3, <2>5, OnePipeline
<1>13. EventsKept(k, {e}, {}, new, moved)
  <2>1. \A d \in Connections(k) \ {c} : View(d, k).nextEvent # e
    BY <1>1, OpenFacts
  <2> QED
    BY <1>1, <1>6, <1>8, <1>10, <2>1, RunFacts DEF EventsKept
<1>14. ProgressAfter(k, new)
  <2>1. \A d \in Conns : View(d, k) # None =>
          /\ Before(d, k, new) # None
          /\ View(d, k).state = "CLOSED" => Before(d, k, new).state = "CLOSED"
    BY <1>1, <1>8, <1>10, NoneAssumption
  <2> QED
    BY <1>10, <2>1 DEF ProgressAfter, Progress
<1> QED
  BY <1>10, <1>11, <1>12, <1>13, <1>14, CallRunStep DEF InRun

\* A connection that closes: at its idle timeout, or because a new one is needed.
LEMMA ClosingStep ==
  ASSUME NEW k, InRun(k), NEW c \in Connections(k), View(c, k).state = "IDLE",
         NEW s \in ConnStorage, s.state = "CLOSED",
         NEW popped, popped \subseteq Queue(k), NEW disabled, disabled \subseteq Events,
         popped \cup disabled = {View(c, k).nextEvent},
         Call(k, popped, disabled, {c, Iface}, To(c, s) \uplus To(Iface, Connections(k) \ {c}), {})
  PROVE  RunStep(k)
<1>1. PICK new : new = To(c, s) \uplus To(Iface, Connections(k) \ {c})
  OBVIOUS
<1>2. PICK used, moved : used = {c, Iface} /\ moved = {}
  OBVIOUS
<1>3. Call(k, popped, disabled, used, new, moved)
  BY <1>1, <1>2
<1>4. View(c, k) \in ConnStorage /\ c \in Conns /\ c # Iface
  BY RunFacts
<1>5. DOMAIN new = {c, Iface} /\ new[c] = s /\ new[Iface] = Connections(k) \ {c}
  BY <1>1, <1>4 DEF To, \uplus
<1>6. \A o \in Objects : Before(o, k, new) = IF o \in {c, Iface} THEN new[o] ELSE View(o, k)
  BY <1>5 DEF Before
<1>7. /\ \A d \in Conns \ {c} : Before(d, k, new) = View(d, k)
      /\ \A t \in Transfers : Before(t, k, new) = View(t, k)
      /\ Before(c, k, new) = s
      /\ OpenAfter(k, new) = Connections(k) \ {c} /\ OpenAfter(k, new) \subseteq Conns
  BY <1>4, <1>5, <1>6, RunFacts DEF OpenAfter
<1>8. ProperCall(k, popped, disabled, used, new, moved)
  <2>1. used \subseteq Objects /\ moved \subseteq Conns /\ DOMAIN new \subseteq used
    BY <1>2, <1>4, <1>5, RunFacts
  <2>2. \A o \in used : View(o, k) # None
    BY <1>2, RunFacts
  <2>3. \A o \in DOMAIN new : new[o] \in Storage(o)
    BY <1>4, <1>5, RunFacts
  <2> QED
    BY <1>2, <1>3, <2>1, <2>2, <2>3 DEF ProperCall, InRun
<1>9. PipelinesAfter(k, new) /\ ApartAfter(k, new)
  <2>1. PICK mine : mine = {}
    OBVIOUS
  <2>2. /\ \A d \in OpenAfter(k, new) \ {c} : Before(d, k, new) = View(d, k)
        /\ \A d \in OpenAfter(k, new) \ {c} :
             \A i \in DOMAIN View(d, k).transfers : View(d, k).transfers[i] \notin mine
        /\ c \notin OpenAfter(k, new) /\ OpenAfter(k, new) \subseteq Connections(k) \cup {c}
        /\ \A t \in Transfers \ mine : Before(t, k, new) = View(t, k)
    BY <1>7, <2>1
  <2>3. c \in OpenAfter(k, new) => InOrder(Before(c, k, new), k, new, mine)
    BY <2>2
  <2> QED
    BY <2>2, <2>3, OnePipeline
<1>10. EventsKept(k, popped, disabled, new, moved)
  BY <1>2, <1>7, OpenFacts DEF EventsKept
<1>11. ProgressAfter(k, new)
  <2>1. \A d \in Conns : View(d, k) # None =>
          /\ Before(d, k, new) # None
          /\ View(d, k).state = "CLOSED" => Before(d, k, new).state = "CLOSED"
    BY <1>7, NoneAssumption
  <2> QED
    BY <1>7, <2>1 DEF ProgressAfter, Progress
<1> QED
  BY <1>7, <1>8, <1>9, <1>10, <1>11, CallRunStep DEF InRun

LEMMA IdleTimeoutStep ==
  ASSUME NEW k, InRun(k), NEW e \in Events, IdleTimeout(k, e)
  PROVE  RunStep(k)
<1> DEFINE c == ConnOf(e)
<1>1. /\ e \in Queue(k) /\ c \in Connections(k) /\ e = View(c, k).nextEvent /\ View(c, k).state = "IDLE"
  BY HandledFacts DEF IdleTimeout, Handling
<1>2. PICK s : s = [state |-> "CLOSED", transfers |-> <<>>, nextEvent |-> None]
  OBVIOUS
<1>3. s \in ConnStorage /\ s.state = "CLOSED"
  <2>1. <<>> \in Seq(Transfers)
    OBVIOUS
  <2> QED
    BY <1>2, <2>1 DEF ConnStorage
<1>4. PICK popped, disabled : popped = {e} /\ disabled = {}
  OBVIOUS
<1>5. Call(k, popped, disabled, {c, Iface}, To(c, s) \uplus To(Iface, Connections(k) \ {c}), {})
  BY <1>2, <1>4 DEF IdleTimeout
<1> QED
  BY <1>1, <1>3, <1>4, <1>5, ClosingStep

LEMMA CloseIdleStep ==
  ASSUME NEW k, InRun(k), NEW c \in Conns, CloseIdle(c)
  PROVE  RunStep(k)
<1>1. k = NOPREDICT /\ c \in Connections(k) /\ View(c, k) = rStorage[c] /\ View(c, k).state = "IDLE"
  BY DEF CloseIdle, InRun, View
<1>2. PICK s : s = [View(c, k) EXCEPT !.state = "CLOSED"]
  OBVIOUS
<1>3. s \in ConnStorage /\ s.state = "CLOSED"
  BY <1>1, <1>2, OpenFacts DEF ConnStorage
<1>4. PICK popped, disabled : popped = {} /\ disabled = {View(c, k).nextEvent}
  OBVIOUS
<1>5. disabled \subseteq Events
  BY <1>1, <1>4, OpenFacts, RunFacts
<1>6. Call(k, popped, disabled, {c, Iface}, To(c, s) \uplus To(Iface, Connections(k) \ {c}), {})
  BY <1>1, <1>2, <1>4 DEF CloseIdle
<1> QED
  BY <1>1, <1>3, <1>4, <1>5, <1>6, ClosingStep

LEMMA SkipDisabledStep ==
  ASSUME NEW k, InRun(k), NEW e \in Events, SkipDisabled(k, e)
  PROVE  RunStep(k)
<1>1. PICK new, popped, moved : new = <<>> /\ popped = {e} /\ moved = {}
  OBVIOUS
<1>2. Call(k, popped, {}, {}, new, moved) /\ e \in Queue(k) \ Live(k) /\ DOMAIN new = {}
  BY <1>1 DEF SkipDisabled
<1>3. \A o \in Objects : Before(o, k, new) = View(o, k)
  BY <1>2 DEF Before
<1>4. OpenAfter(k, new) = Connections(k) /\ OpenAfter(k, new) \subseteq Conns
  BY <1>3, RunFacts DEF OpenAfter
<1>5. ProperCall(k, popped, {}, {}, new, moved)
  BY <1>1, <1>2 DEF ProperCall, InRun
<1>6. PipelinesAfter(k, new) /\ ApartAfter(k, new)
  <2>1. PICK mine, c : mine = {} /\ c = Iface
    OBVIOUS
  <2>2. /\ \A d \in OpenAfter(k, new) \ {c} : Before(d, k, new) = View(d, k)
        /\ \A d \in OpenAfter(k, new) \ {c} :
             \A i \in DOMAIN View(d, k).transfers : View(d, k).transfers[i] \notin mine
        /\ c \notin OpenAfter(k, new) /\ OpenAfter(k, new) \subseteq Connections(k) \cup {c}
        /\ \A t \in Transfers \ mine : Before(t, k, new) = View(t, k)
    BY <1>3, <1>4, <2>1, RunFacts
  <2> QED
    BY <2>2, OnePipeline
<1>7. EventsKept(k, popped, {}, new, moved)
  BY <1>1, <1>2, <1>3, <1>4, RunFacts, OpenFacts DEF EventsKept
<1>8. ProgressAfter(k, new)
  BY <1>3, RunFacts DEF ProgressAfter, Progress
<1> QED
  BY <1>4, <1>5, <1>6, <1>7, <1>8, CallRunStep DEF InRun

-----------------------------------------------------------------------------
(* The invariant *)

\* Run r sees after the step what run s has seen before it.
Same(r, s) == (\A o \in Objects : View(o, r)' = View(o, s)) /\ Live(r)' = Live(s)

LEMMA SameConsistent ==
  ASSUME NEW r, NEW s \in Runs, Typed, Same(r, s), Consistent(s)
  PROVE  Consistent(r)'
<1>1. /\ Conns \subseteq Objects /\ Transfers \subseteq Objects /\ Iface \in Objects
  BY DEF Objects
<1>2. Connections(r)' = Connections(s) /\ Connections(s) \subseteq Conns /\ Live(r)' = Live(s)
  BY <1>1, ViewTyped DEF Same, Connections
<1>3. \A o \in Conns \cup Transfers : View(o, r)' = View(o, s)
  BY <1>1 DEF Same
<1>4. ASSUME NEW c \in Connections(s)
      PROVE  Pipeline(c, r)'
  <2>1. PICK conn : conn = View(c, s)
    OBVIOUS
  <2>2. conn = View(c, r)'
    BY <1>2, <1>3, <2>1
  <2>3. /\ conn # None /\ conn.state = IF conn.transfers = <<>> THEN "IDLE" ELSE "BUSY"
        /\ \A i \in DOMAIN conn.transfers : View(conn.transfers[i], s) = IF i = 1 THEN "ACTIVE" ELSE "ENQUEUED"
    BY <2>1 DEF Consistent, Pipeline
  <2>4. conn.transfers \in Seq(Transfers)
    BY <1>2, <2>1, <2>3, ViewTyped DEF ConnStorage
  <2>5. \A i \in DOMAIN conn.transfers : conn.transfers[i] \in Transfers
    BY <2>4
  <2>6. \A i \in DOMAIN conn.transfers : View(conn.transfers[i], r)' = IF i = 1 THEN "ACTIVE" ELSE "ENQUEUED"
    BY <1>3, <2>3, <2>5
  <2> QED
    BY <2>2, <2>3, <2>6 DEF Pipeline
<1>5. Apart(r)'
  BY <1>2, <1>3 DEF Consistent, Apart
<1>6. EventsOf(r)'
  <2>1. EventsOf(s)
    BY DEF Consistent
  <2> QED
    BY <1>2, <1>3, <2>1 DEF EventsOf
<1> QED
  BY <1>2, <1>4, <1>5, <1>6 DEF Consistent

LEMMA RunInv ==
  ASSUME Inv, NEW k, k = tmRun
  PROVE  InRun(k) /\ Typed /\ NOPREDICT \in Runs
BY BoundsAssumption DEF Inv, InRun, Typed, RunsTyped, Runs, NOPREDICT

LEMMA InitInv == Init => Inv
<1> SUFFICES ASSUME Init PROVE Inv
  OBVIOUS
<1>1. /\ Conns \cap Transfers = {} /\ Iface \notin Conns \cup Transfers
      /\ Objects = Conns \cup Transfers \cup {Iface}
  BY ObjectsAssumption DEF Objects
<1>2. \A o \in Objects : rStorage[o] \in Storage(o) \/ (o \in Conns /\ rStorage[o] = None)
  BY <1>1 DEF Init, Storage, TransferState
<1>3. NOPREDICT \in Runs
  BY BoundsAssumption DEF Runs, NOPREDICT
<1>4. Typed
  <2>1. NewEvent \in [rDisabled : BOOLEAN, pDisabled : BOOLEAN, run : Runs]
    BY <1>3 DEF NewEvent
  <2>2. StoragesTyped
    BY <1>2, <1>3, <2>1 DEF Init, StoragesTyped
  <2>3. RunsTyped
    BY <1>3 DEF Init, RunsTyped, NOPREDICT
  <2> QED
    BY <2>2, <2>3 DEF Typed
<1>5. Fresh
  BY DEF Init, Fresh, NewEvent, NOPREDICT
<1>6. Connections(NOPREDICT) = {} /\ Live(NOPREDICT) = {}
  BY <1>1 DEF Init, Connections, View, Live, Queue
<1>7. Consistent(NOPREDICT)
  BY <1>6 DEF Consistent, Apart, EventsOf
<1>8. \A k \in Runs : k = tmRun => Consistent(k)
  BY <1>7 DEF Init
<1>9. ResultReadable
  BY DEF Init, ResultReadable
<1> QED
  BY <1>4, <1>5, <1>7, <1>8, <1>9 DEF Inv

\* A step of the current run, which may be the one that ends a prediction.
Continues(k) == \/ UNCHANGED <<simRun, pRunLast, tmRun, pTransfer>>
                \/ \E x : FinishTransfer(k, x) /\ View(x, k)' = "FINISHED"

LEMMA RunStepInv ==
  ASSUME Inv, NEW k, k = tmRun, simRun = k, RunStep(k), Continues(k)
  PROVE  Inv'
<1>1. /\ Typed /\ Fresh /\ StoragesTyped' /\ RunsAfter(k) /\ k \in Runs /\ NOPREDICT \in Runs
      /\ Consistent(k)'
  BY RunInv DEF Inv, RunStep, InRun
<1>2. /\ tmRun' = tmRun /\ pTransfer' = pTransfer
      /\ \/ simRun' = simRun /\ pRunLast' = pRunLast
         \/ /\ k # NOPREDICT /\ simRun' = NOPREDICT /\ pRunLast' = simRun
            /\ View(pTransfer, k)' = "FINISHED"
  <2>1. CASE UNCHANGED <<simRun, pRunLast, tmRun, pTransfer>>
    BY <2>1
  <2>2. ASSUME NEW x, FinishTransfer(k, x), View(x, k)' = "FINISHED"
        PROVE  /\ tmRun' = tmRun /\ pTransfer' = pTransfer
               /\ \/ simRun' = simRun /\ pRunLast' = pRunLast
                  \/ /\ k # NOPREDICT /\ simRun' = NOPREDICT /\ pRunLast' = simRun
                     /\ View(pTransfer, k)' = "FINISHED"
    BY <2>2 DEF FinishTransfer, View
  <2> QED
    BY <2>1, <2>2 DEF Continues
<1>3. Typed'
  BY <1>1, <1>2 DEF Typed, RunsTyped
<1>4. Fresh'
  BY <1>1, <1>2 DEF Fresh, Typed, RunsTyped, StoragesTyped, RunsAfter, Runs, NOPREDICT
<1>5. Consistent(NOPREDICT)'
  <2>1. CASE k = NOPREDICT
    BY <1>1, <2>1
  <2>2. CASE k # NOPREDICT
    <3>1. Same(NOPREDICT, NOPREDICT)
      BY <2>2 DEF RunStep, RealUntouched, Same, View
    <3> QED
      BY <1>1, <3>1, SameConsistent DEF Inv
  <2> QED
    BY <2>1, <2>2
<1>6. \A r \in Runs : r = tmRun' => Consistent(r)'
  BY <1>1, <1>2
<1>7. ResultReadable'
  BY <1>2 DEF ResultReadable, View
<1> QED
  BY <1>3, <1>4, <1>5, <1>6, <1>7 DEF Inv

\* The prediction begins with what the real run has.
LEMMA BeginSame ==
  ASSUME Inv, NEW t \in Transfers, BeginPrediction(t)
  PROVE  /\ Same(NOPREDICT, NOPREDICT) /\ \A r \in Runs : r = tmRun' => Same(r, NOPREDICT)
         /\ tmRun' = pRunLast + 1 /\ tmRun' \in Runs /\ tmRun' # NOPREDICT
<1>1. /\ tmRun = NOPREDICT /\ tmRun' = pRunLast + 1 /\ pQueue' = rQueue /\ rQueue' = rQueue
      /\ pRunLast + 1 < MaxPredictions
      /\ rStorage' = rStorage /\ pStorage' = pStorage /\ pRun' = pRun /\ event' = event
  BY DEF BeginPrediction
<1>2. pRunLast \in Runs /\ pRun \in [Objects -> Runs] /\ rQueue \subseteq Events
      /\ event \in [Events -> [rDisabled : BOOLEAN, pDisabled : BOOLEAN, run : Runs]]
  BY DEF Inv, Typed, RunsTyped, StoragesTyped
<1>3. tmRun' \in Runs /\ tmRun' # NOPREDICT
  BY <1>1, <1>2, BoundsAssumption DEF Runs, NOPREDICT
<1>4. /\ \A o \in Objects : pRun[o] # tmRun'
      /\ \A e \in Events : event[e].run # tmRun'
  BY <1>1, <1>2, BoundsAssumption DEF Inv, Fresh, Runs, NOPREDICT
<1>5. Same(NOPREDICT, NOPREDICT)
  BY <1>1 DEF Same, View, Live, Queue, IsDisabled
<1>6. ASSUME NEW r \in Runs, r = tmRun'
      PROVE  Same(r, NOPREDICT)
  <2>1. \A o \in Objects : View(o, r)' = View(o, NOPREDICT)
    BY <1>1, <1>3, <1>4, <1>6 DEF View
  <2>2. Queue(r)' = Queue(NOPREDICT)
    BY <1>1, <1>3, <1>6 DEF Queue
  <2>3. ASSUME NEW e \in rQueue
        PROVE  IsDisabled(event'[e], r) = IsDisabled(event[e], NOPREDICT)
    <3>1. event[e] \in [rDisabled : BOOLEAN, pDisabled : BOOLEAN, run : Runs] /\ event[e].run # r
      BY <1>2, <1>4, <1>6
    <3>2. Synced(event[e], r).pDisabled = event[e].rDisabled
      BY <3>1 DEF Synced
    <3> QED
      BY <1>1, <1>3, <1>6, <3>2 DEF IsDisabled
  <2>4. Live(r)' = Live(NOPREDICT)
    <3>1. Live(r)' = {e \in Queue(r)' : ~IsDisabled(event'[e], r)}
      BY DEF Live, IsDisabled, Synced
    <3>2. Live(NOPREDICT) = {e \in Queue(NOPREDICT) : ~IsDisabled(event[e], NOPREDICT)}
      BY DEF Live
    <3>3. Queue(NOPREDICT) = rQueue
      BY DEF Queue
    <3> QED
      BY <2>2, <2>3, <3>1, <3>2, <3>3
  <2> QED
    BY <2>1, <2>4 DEF Same
<1> QED
  BY <1>1, <1>3, <1>5, <1>6

LEMMA BeginInv ==
  ASSUME Inv, NEW t \in Transfers, BeginPrediction(t)
  PROVE  Inv'
<1>1. /\ Same(NOPREDICT, NOPREDICT) /\ \A r \in Runs : r = tmRun' => Same(r, NOPREDICT)
      /\ tmRun' = pRunLast + 1 /\ tmRun' \in Runs /\ tmRun' # NOPREDICT
  BY BeginSame
<1>2. /\ tmRun = NOPREDICT /\ simRun = NOPREDICT /\ simRun' = tmRun' /\ pTransfer' = t /\ pRunLast' = pRunLast
      /\ pQueue' = rQueue /\ rQueue' = rQueue
      /\ rStorage' = rStorage /\ pStorage' = pStorage /\ pRun' = pRun /\ event' = event
  BY DEF BeginPrediction
<1>3. Typed /\ Fresh /\ Consistent(NOPREDICT) /\ NOPREDICT \in Runs
  BY BoundsAssumption DEF Inv, Runs, NOPREDICT
<1>4. Typed'
  BY <1>1, <1>2, <1>3 DEF Typed, RunsTyped, StoragesTyped
<1>5. Fresh'
  BY <1>1, <1>2, <1>3 DEF Fresh, Typed, RunsTyped, StoragesTyped, Runs, NOPREDICT
<1>6. Consistent(NOPREDICT)' /\ \A r \in Runs : r = tmRun' => Consistent(r)'
  BY <1>1, <1>3, SameConsistent
<1>7. ResultReadable'
  BY <1>2 DEF ResultReadable
<1> QED
  BY <1>4, <1>5, <1>6, <1>7 DEF Inv

LEMMA ReturnInv ==
  ASSUME Inv, ReturnPrediction
  PROVE  Inv' /\ Same(NOPREDICT, NOPREDICT)
<1>1. PICK k, used, new : k = tmRun /\ used = {pTransfer} /\ new = <<>>
  OBVIOUS
<1>2. /\ k # NOPREDICT /\ simRun = NOPREDICT /\ Access(k, used, new) /\ DOMAIN new = {}
      /\ tmRun' = NOPREDICT /\ event' = event /\ rQueue' = rQueue /\ pQueue' = pQueue
      /\ simRun' = simRun /\ pRunLast' = pRunLast /\ pTransfer' = pTransfer
  BY <1>1 DEF ReturnPrediction
<1>3. Typed /\ Fresh /\ Consistent(NOPREDICT) /\ NOPREDICT \in Runs /\ k \in Runs /\ ResultReadable
  BY <1>1, RunInv DEF Inv, InRun
<1>4. used \subseteq Objects /\ \A o \in used : View(o, k) # None
  BY <1>1, <1>2, <1>3, ViewTyped, NoneAssumption DEF Fresh, Objects
<1>5. rStorage' = rStorage
  BY <1>2 DEF Access
<1>6. StoragesTyped'
  <2>1. StoragesTyped
    BY <1>3 DEF Typed
  <2>2. pRun' \in [Objects -> Runs]
    BY <1>2, <1>3, <2>1 DEF Access, StoragesTyped
  <2>3. /\ pStorage' = [o \in Objects |-> pStorage'[o]]
        /\ \A o \in Objects : pStorage'[o] \in Storage(o) \cup {None}
    BY <1>2, <1>4, <2>1 DEF Access, Cloned, View, StoragesTyped
  <2>4. \A o \in Objects : pRun'[o] # NOPREDICT => pStorage'[o] # None
    BY <1>2, <1>4, <2>1 DEF Access, Cloned, View, StoragesTyped
  <2> QED
    BY <1>2, <1>5, <2>1, <2>2, <2>3, <2>4 DEF StoragesTyped
<1>7. Typed'
  BY <1>2, <1>3, <1>6 DEF Typed, RunsTyped
<1>8. Fresh'
  BY <1>1, <1>2, <1>3, <1>4 DEF Fresh, Access, Typed, RunsTyped, StoragesTyped, Runs, NOPREDICT
<1>9. Same(NOPREDICT, NOPREDICT)
  BY <1>2, <1>5 DEF Same, View, Live, Queue, IsDisabled
<1>10. Consistent(NOPREDICT)' /\ \A r \in Runs : r = tmRun' => Consistent(r)'
  BY <1>2, <1>3, <1>9, SameConsistent
<1>11. ResultReadable'
  BY <1>2 DEF ResultReadable
<1> QED
  BY <1>7, <1>8, <1>9, <1>10, <1>11 DEF Inv

\* Every step of the event loop is a step of the current run.
LEMMA RunSteps ==
  ASSUME Inv, NEW k, k = tmRun, [Next]_vars
  PROVE  \/ simRun = k /\ RunStep(k) /\ Continues(k)
         \/ \E t \in Transfers : BeginPrediction(t)
         \/ ReturnPrediction
         \/ UNCHANGED vars
<1>1. InRun(k)
  BY RunInv
<1>2. ASSUME NEW c \in Conns, NEW t \in Transfers, Connect(k, c, t) \/ Reuse(k, c, t) \/ Enqueue(k, c, t)
      PROVE  simRun = k /\ RunStep(k) /\ Continues(k)
  <2>1. RunStep(k)
    BY <1>1, <1>2, ConnectStep, ReuseStep, EnqueueStep
  <2> QED
    BY <1>2, <2>1 DEF Connect, Reuse, Enqueue, Scheduling, Continues
<1>3. ASSUME NEW e \in Events, NextRound(k, e) \/ IdleTimeout(k, e) \/ SkipDisabled(k, e)
      PROVE  simRun = k /\ RunStep(k) /\ Continues(k)
  <2>1. RunStep(k)
    BY <1>1, <1>3, NextRoundStep, IdleTimeoutStep, SkipDisabledStep
  <2> QED
    BY <1>3, <2>1 DEF NextRound, IdleTimeout, SkipDisabled, Handling, Continues
<1>4. ASSUME NEW e \in Events, GoIdle(k, e) \/ StartNext(k, e)
      PROVE  simRun = k /\ RunStep(k) /\ Continues(k)
  <2>1. PICK x : x = View(ConnOf(e), k).transfers[1]
    OBVIOUS
  <2>2. RunStep(k) /\ View(x, k)' = "FINISHED"
    BY <1>1, <1>4, <2>1, GoIdleStep, StartNextStep
  <2>3. simRun = k /\ FinishTransfer(k, x)
    BY <1>4, <2>1 DEF GoIdle, StartNext, Handling
  <2> QED
    BY <2>2, <2>3 DEF Continues
<1>5. ASSUME NEW c \in Conns, CloseIdle(c)
      PROVE  simRun = k /\ RunStep(k) /\ Continues(k)
  <2>1. RunStep(k)
    BY <1>1, <1>5, CloseIdleStep
  <2> QED
    BY <1>5, <2>1 DEF CloseIdle, Continues
<1> QED
  BY <1>2, <1>3, <1>4, <1>5 DEF Next

LEMMA NextInv == Inv /\ [Next]_vars => Inv'
<1> SUFFICES ASSUME Inv, [Next]_vars
             PROVE  Inv'
  OBVIOUS
<1>1. PICK k : k = tmRun
  OBVIOUS
<1>2. CASE simRun = k /\ RunStep(k) /\ Continues(k)
  BY <1>1, <1>2, RunStepInv
<1>3. CASE \E t \in Transfers : BeginPrediction(t)
  BY <1>3, BeginInv
<1>4. CASE ReturnPrediction
  BY <1>4, ReturnInv
<1>5. CASE UNCHANGED vars
  <2>1. \A r : Same(r, r)
    BY <1>5 DEF vars, Same, View, Live, Queue, IsDisabled, Synced
  <2>2. InRun(k) /\ Typed /\ NOPREDICT \in Runs /\ Consistent(NOPREDICT)
    BY <1>1, RunInv DEF Inv
  <2>3. Consistent(NOPREDICT)' /\ Consistent(k)'
    BY <2>1, <2>2, SameConsistent DEF InRun
  <2>4. Typed' /\ Fresh' /\ ResultReadable'
    BY <1>5 DEF vars, Inv, Typed, StoragesTyped, RunsTyped, Fresh, ResultReadable, View
  <2> QED
    BY <1>1, <1>5, <2>3, <2>4 DEF vars, Inv
<1> QED
  BY <1>1, <1>2, <1>3, <1>4, <1>5, RunSteps

-----------------------------------------------------------------------------
(* Theorems *)

\* The inductive invariant: objects, pipelines and events agree in the real run
\* and in the prediction, whatever the other of them does.
THEOREM Invariance == Spec => []Inv
<1>1. Init => Inv
  BY InitInv
<1>2. Inv /\ [Next]_vars => Inv'
  BY NextInv
<1> QED
  BY <1>1, <1>2, PTL DEF Spec

\* Every variable keeps its type, and an object used in a prediction has its copy.
THEOREM TypeCorrect == Spec => []TypeOK
<1>1. Inv => TypeOK
  <2> SUFFICES ASSUME Inv PROVE TypeOK
    OBVIOUS
  <2>1. /\ \A c \in Conns : c \in Objects /\ Storage(c) = ConnStorage
        /\ \A t \in Transfers : t \in Objects /\ t \notin Conns /\ Storage(t) = TransferState
        /\ Iface \in Objects /\ Iface \notin Conns /\ Storage(Iface) = SUBSET Conns
    BY ObjectsAssumption DEF Objects, Storage
  <2>2. StoragesTyped /\ RunsTyped
    BY DEF Inv, Typed
  <2> QED
    BY <2>1, <2>2 DEF TypeOK, StoragesTyped, RunsTyped
<1> QED
  BY <1>1, Invariance, PTL

\* An open connection has one event to come and a closed one none, in the real run
\* and in the prediction.
THEOREM OneEventEach == Spec => []OneEvent
<1>1. Inv => OneEvent
  <2> SUFFICES ASSUME Inv PROVE OneEvent
    OBVIOUS
  <2>1. PICK k : k = tmRun
    OBVIOUS
  <2>2. EventsOf(k)
    BY <2>1, RunInv DEF InRun, Consistent
  <2> QED
    BY <2>1, <2>2 DEF OneEvent, EventsOf
<1> QED
  BY <1>1, Invariance, PTL

\* Connections and transfers that are used together belong to the same run.
THEOREM ViewsAgree == Spec => []ViewConsistent
<1>1. Inv => ViewConsistent
  <2> SUFFICES ASSUME Inv PROVE ViewConsistent
    OBVIOUS
  <2>1. PICK k : k = tmRun
    OBVIOUS
  <2>2. \A c \in Connections(k) : Pipeline(c, k)
    BY <2>1, RunInv DEF InRun, Consistent
  <2> QED
    BY <2>1, <2>2 DEF ViewConsistent, Pipeline
<1> QED
  BY <1>1, Invariance, PTL

\* The times of the predicted transfer can be read when the prediction has ended.
THEOREM ResultThere == Spec => []ResultReadable
<1>1. Inv => ResultReadable
  BY DEF Inv
<1> QED
  BY <1>1, Invariance, PTL

\* No object falls back within a run.
THEOREM NothingRelapses == Spec => NoRelapse
<1>1. ASSUME Inv, [Next]_vars, tmRun' = tmRun
      PROVE  /\ \A t \in Transfers : Progress(View(t, tmRun), View(t, tmRun)')
             /\ \A c \in Conns : View(c, tmRun) # None =>
                  View(c, tmRun)' # None /\ (View(c, tmRun).state = "CLOSED" =>
                                               View(c, tmRun)'.state = "CLOSED")
  <2>1. PICK k : k = tmRun
    OBVIOUS
  <2>2. ~(\E t \in Transfers : BeginPrediction(t)) /\ ~ReturnPrediction
    BY <1>1, BeginSame DEF BeginPrediction, ReturnPrediction
  <2>3. ProgressStep(k)
    <3>1. CASE RunStep(k)
      BY <3>1 DEF RunStep
    <3>2. CASE UNCHANGED vars
      BY <3>2 DEF vars, ProgressStep, Progress, View
    <3> QED
      BY <1>1, <2>1, <2>2, <3>1, <3>2, RunSteps
  <2> QED
    BY <1>1, <2>1, <2>3 DEF ProgressStep, View
<1> QED
  BY <1>1, Invariance, PTL DEF Spec, NoRelapse

\* A prediction that copies the objects one by one, when it uses them, is one that
\* copies everything when it begins; and the real run does not notice it.
THEOREM Refinement == Spec => RefinesSnapshot
<1> DEFINE AllWorlds == [conn : [Conns -> ConnStorage \cup {None}],
                         transfer : [Transfers -> TransferState],
                         iface : SUBSET Conns, live : SUBSET Events]
<1>1. ASSUME Typed, NEW k \in Runs
      PROVE  World(k) \in AllWorlds
  BY <1>1, ViewTyped DEF World
<1>2. Inv => World(NOPREDICT) \in AllWorlds /\ World(tmRun) \in AllWorlds
  <2> SUFFICES ASSUME Inv PROVE World(NOPREDICT) \in AllWorlds /\ World(tmRun) \in AllWorlds
    OBVIOUS
  <2> HIDE DEF AllWorlds
  <2>1. Typed /\ NOPREDICT \in Runs /\ tmRun \in Runs
    BY RunInv DEF InRun
  <2> QED
    BY <1>1, <2>1
<1>3. (Inv => World(NOPREDICT) \in AllWorlds /\ World(tmRun) \in AllWorlds)'
  BY <1>2, PTL
<1>4. Init => Eager!Init
  <2> SUFFICES ASSUME Init PROVE Eager!Init
    OBVIOUS
  <2>1. World(NOPREDICT) \in AllWorlds
    BY <1>2, InitInv
  <2>2. tmRun = NOPREDICT
    BY DEF Init
  <2> QED
    BY <2>1, <2>2 DEF Eager!Init
<1>5. Inv /\ Inv' /\ [Next]_vars => [Eager!Next]_(Eager!vars)
  <2> SUFFICES ASSUME Inv, Inv', [Next]_vars
               PROVE  [Eager!Next]_(Eager!vars)
    OBVIOUS
  <2>1. PICK k : k = tmRun
    OBVIOUS
  <2>2. World(NOPREDICT)' \in AllWorlds /\ World(tmRun)' \in AllWorlds
    BY <1>3
  <2>3. ASSUME Same(NOPREDICT, NOPREDICT)
        PROVE  World(NOPREDICT)' = World(NOPREDICT)
    BY <2>3 DEF Same, World, Connections, Objects
  <2>4. CASE simRun = k /\ RunStep(k) /\ Continues(k)
    <3>1. tmRun' = tmRun
      BY <2>4 DEF Continues, FinishTransfer
    <3>2. CASE k = NOPREDICT
      BY <2>1, <2>2, <3>1, <3>2 DEF Eager!Next, Eager!RealStep
    <3>3. CASE k # NOPREDICT
      <4>1. World(NOPREDICT)' = World(NOPREDICT)
        BY <2>3, <2>4, <3>3 DEF RunStep, RealUntouched, Same, View
      <4> QED
        BY <2>1, <2>2, <3>1, <3>3, <4>1 DEF Eager!Next, Eager!PredictedStep
    <3> QED
      BY <3>2, <3>3
  <2>5. ASSUME NEW t \in Transfers, BeginPrediction(t)
        PROVE  Eager!BeginPrediction
    <3>1. /\ Same(NOPREDICT, NOPREDICT) /\ \A r \in Runs : r = tmRun' => Same(r, NOPREDICT)
          /\ tmRun' \in Runs /\ tmRun' # NOPREDICT
      BY <2>5, BeginSame
    <3>2. tmRun = NOPREDICT
      BY <2>5 DEF BeginPrediction
    <3>3. PICK r \in Runs : r = tmRun' /\ Same(r, NOPREDICT)
      BY <3>1
    <3>4. World(r)' = World(NOPREDICT)
      BY <3>3 DEF Same, World, Connections, Objects
    <3>5. World(tmRun)' = World(r)'
      BY <3>3 DEF World, View, Connections, Live, Queue, IsDisabled, Synced
    <3> QED
      BY <2>3, <3>1, <3>2, <3>4, <3>5 DEF Eager!BeginPrediction
  <2>6. CASE ReturnPrediction
    <3>1. Same(NOPREDICT, NOPREDICT)
      BY <2>6, ReturnInv
    <3>2. tmRun # NOPREDICT /\ tmRun' = NOPREDICT
      BY <2>6 DEF ReturnPrediction
    <3>3. World(tmRun)' = World(NOPREDICT)'
      BY <3>2 DEF World, View, Connections, Live, Queue, IsDisabled, Synced
    <3> QED
      BY <2>3, <3>1, <3>2, <3>3 DEF Eager!Next, Eager!EndPrediction
  <2>7. CASE UNCHANGED vars
    <3>1. UNCHANGED <<World(NOPREDICT), World(tmRun), tmRun>>
      BY <2>7 DEF vars, World, View, Connections, Live, Queue, IsDisabled, Synced
    <3> QED
      BY <3>1 DEF Eager!vars
  <2> QED
    BY <2>1, <2>4, <2>5, <2>6, <2>7, RunSteps DEF Eager!Next
<1> QED
  BY <1>4, <1>5, Invariance, PTL DEF Spec, RefinesSnapshot, Eager!Spec

=============================================================================
