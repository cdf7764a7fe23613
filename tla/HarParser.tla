------------------------------ MODULE HarParser ------------------------------
(***************************************************************************)
(* How HarParser.generateTransfers derives the dependencies of a page from *)
(* the times recorded in the HAR file.  It walks over the transfers in the *)
(* order of their start and over a second list, in the order of their      *)
(* finish, that it shortens as it goes: the transfer it took last from     *)
(* that list becomes the parent.                                           *)
(*                                                                         *)
(* A transfer is its place in the first list.  Reading the entries, their  *)
(* sizes and host names, and dropping those without content are left out.  *)
(***************************************************************************)
EXTENDS Integers, SequencesExt

CONSTANTS N,       \* number of transfers with content
          MaxTime  \* bound on the recorded times

ASSUME NAssumption == N \in Nat \ {0}
ASSUME MaxTimeAssumption == MaxTime \in Nat

Transfers == 1 .. N
NoTransfer == 0

VARIABLES
  harStartTime, harFinishTime,  \* of every transfer
  transfer,                     \* the transfer the for loop has come to
  finishingTransfers, nextDependency, lastDependency,
  parent,                       \* whose child a transfer was made, NoTransfer if it was enabled
  known                         \* the transfers added to the transfer manager

vars == <<harStartTime, harFinishTime, transfer, finishingTransfers, nextDependency,
          lastDependency, parent, known>>

\* The order of sorted(..., key = harFinishTime), which is stable.
FinishesBefore(t, u) == \/ harFinishTime[t] < harFinishTime[u]
                        \/ harFinishTime[t] = harFinishTime[u] /\ t < u
InOrder(s) == \A i, j \in DOMAIN s : i < j => FinishesBefore(s[i], s[j])

\* Up to the loop.  That no transfer finishes before it starts is what the format promises
\* of its 'time' and nothing checks (harParser.py:50-51).
Init ==
  /\ harStartTime \in [Transfers -> 0 .. MaxTime]
  /\ \A t, u \in Transfers : t < u => harStartTime[t] <= harStartTime[u]
  /\ harFinishTime \in [Transfers -> 0 .. MaxTime]
  /\ \A t \in Transfers : harStartTime[t] <= harFinishTime[t]
  /\ \E sorted \in [Transfers -> Transfers] :
       /\ ToSet(sorted) = Transfers /\ InOrder(sorted)
       /\ nextDependency = Head(sorted)
       /\ finishingTransfers = Tail(sorted)
  /\ lastDependency = NoTransfer
  /\ transfer = 2
  /\ parent = [t \in Transfers |-> NoTransfer]
  /\ known = {1}

\* Mutant: a transfer may depend on one that finishes when it starts.
Finished_AtStart(t) == harFinishTime[t] <= harStartTime[transfer]
Finished(t) == harFinishTime[t] < harStartTime[transfer]

\* One iteration of the while loop.
NextFinished ==
  /\ transfer <= N /\ nextDependency # NoTransfer /\ Finished(nextDependency)
  /\ lastDependency' = nextDependency
  /\ nextDependency' = Head(finishingTransfers)
  /\ finishingTransfers' = Tail(finishingTransfers)
  /\ UNCHANGED <<harStartTime, harFinishTime, transfer, parent, known>>

\* Mutant: the transfer that finishes next is taken.
AddTransfer_Next ==
  /\ transfer <= N /\ ~Finished(nextDependency)
  /\ parent' = [parent EXCEPT ![transfer] = nextDependency]
  /\ known' = known \cup {transfer}
  /\ transfer' = transfer + 1
  /\ UNCHANGED <<harStartTime, harFinishTime, finishingTransfers, nextDependency, lastDependency>>
\* The rest of the body of the for loop: addTransfer, and addChild, or enableTransfer if no
\* transfer has finished yet.
AddTransfer ==
  /\ transfer <= N /\ ~Finished(nextDependency)
  /\ parent' = [parent EXCEPT ![transfer] = lastDependency]
  /\ known' = known \cup {transfer}
  /\ transfer' = transfer + 1
  /\ UNCHANGED <<harStartTime, harFinishTime, finishingTransfers, nextDependency, lastDependency>>

Done == transfer > N /\ UNCHANGED vars

Next == NextFinished \/ AddTransfer \/ Done

Spec == Init /\ [][Next]_vars

-----------------------------------------------------------------------------
(* Properties *)

\* Types of the variables.
TypeOK ==
  /\ harStartTime \in [Transfers -> 0 .. MaxTime]
  /\ harFinishTime \in [Transfers -> 0 .. MaxTime]
  /\ transfer \in 2 .. N + 1
  /\ finishingTransfers \in Seq(Transfers)
  /\ nextDependency \in Transfers
  /\ lastDependency \in Transfers \cup {NoTransfer}
  /\ parent \in [Transfers -> Transfers \cup {NoTransfer}]
  /\ known = 1 .. transfer - 1

\* The list is never empty when the while loop pops from it, although nothing in
\* the loop tests it: the transfer itself is still to finish.
NeverPopsEmpty ==
  transfer <= N /\ Finished(nextDependency) => finishingTransfers # <<>>

\* The transfers that have finished when t starts.
FinishedBefore(t) == {u \in Transfers : harFinishTime[u] < harStartTime[t]}

\* A transfer depends on the one that, of all that have finished when it starts,
\* has finished last, and on none if there is no such transfer.
DependsOnLastFinished ==
  \A t \in known :
    IF FinishedBefore(t) = {} THEN parent[t] = NoTransfer
    ELSE /\ parent[t] \in FinishedBefore(t)
         /\ \A u \in FinishedBefore(t) \ {parent[t]} : FinishesBefore(u, parent[t])

\* A transfer only depends on one before it in the list, so that dependencies
\* have no cycle and every page can be loaded (PagesAssumption of TransferManager).
ParentsComeFirst == \A t \in known : parent[t] < t

=============================================================================
