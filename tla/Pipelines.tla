----------------------------- MODULE Pipelines -----------------------------
(***************************************************************************)
(* What connections promise to whoever sends transfers on them: a          *)
(* connection serves its transfers one after the other in the order in     *)
(* which they were sent, it serves all of them, and it is closed when it   *)
(* has none, in the end for good.  TcpConnection refines this              *)
(* specification.                                                          *)
(***************************************************************************)
EXTENDS Sequences

CONSTANTS Conns, Transfers

VARIABLES pipeline,     \* transfers sent on each connection and not served yet
          sent, served, \* sets of transfers
          open, closed  \* sets of connections

vars == <<pipeline, sent, served, open, closed>>

Init ==
  /\ pipeline = [c \in Conns |-> <<>>]
  /\ sent = {} /\ served = {}
  /\ open = {} /\ closed = {}

Send(c, t) ==
  /\ c \notin closed /\ t \notin sent
  /\ pipeline' = [pipeline EXCEPT ![c] = Append(@, t)]
  /\ sent' = sent \cup {t}
  /\ open' = open \cup {c}
  /\ UNCHANGED <<served, closed>>

Serve(c) ==
  /\ pipeline[c] # <<>>
  /\ served' = served \cup {Head(pipeline[c])}
  /\ pipeline' = [pipeline EXCEPT ![c] = Tail(@)]
  /\ UNCHANGED <<sent, open, closed>>

Close(c) ==
  /\ c \in open /\ pipeline[c] = <<>>
  /\ open' = open \ {c}
  /\ closed' = closed \cup {c}
  /\ UNCHANGED <<pipeline, sent, served>>

Next == \E c \in Conns : (\E t \in Transfers : Send(c, t)) \/ Serve(c) \/ Close(c)

Spec == Init /\ [][Next]_vars /\ \A c \in Conns : WF_vars(Serve(c)) /\ WF_vars(Close(c))

=============================================================================
