------------------------------ MODULE PageLoad ------------------------------
(***************************************************************************)
(* What a simulated page load promises, whatever connections carry it: a   *)
(* transfer is requested at most once and only after the transfer it       *)
(* depends on has been loaded, a loaded transfer stays loaded, and every   *)
(* transfer of the page is loaded in the end.  TransferManager refines     *)
(* this specification.                                                     *)
(***************************************************************************)
EXTENDS Naturals

CONSTANTS N,        \* number of transfers, numbered in the order of the HAR file
          Pages     \* the pages that may be loaded: dependency, origin and ssl of each transfer

Transfers == 1 .. N

\* The dependency of a transfer that may start at once.
NoTransfer == 0

VARIABLES page,        \* the page being loaded
          requested,   \* transfers handed to a connection
          loaded       \* transfers completely received

vars == <<page, requested, loaded>>

Init == /\ page \in Pages
        /\ requested = {}
        /\ loaded = {}

Request(t) == /\ t \notin requested
              /\ page.parent[t] \in loaded \cup {NoTransfer}
              /\ requested' = requested \cup {t}
              /\ UNCHANGED <<page, loaded>>

Load(t) == /\ t \in requested \ loaded
           /\ loaded' = loaded \cup {t}
           /\ UNCHANGED <<page, requested>>

\* A connection that finishes a transfer may start the next one in the same step.
Next == \E t \in Transfers : Request(t) \/ Load(t)

Spec == Init /\ [][Next]_vars /\ WF_vars(Next)

=============================================================================
