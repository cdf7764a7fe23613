-------------------------- MODULE MCTransferManager --------------------------
(* Small pages for TransferManager. *)
EXTENDS TransferManager

CONSTANTS o1, o2

\* The dependency forests over 1 .. n that harParser can produce.
Forests(n) == {f \in [1 .. n -> 0 .. n - 1] : \A t \in 1 .. n : f[t] < t}

\* Every forest, with every assignment of the hosts and of the ssl flags given.
PagesOver(n, origins, ssls) ==
  [parent : Forests(n), origin : [1 .. n -> origins], ssl : ssls]

MCOrigins == {o1, o2}

\* Pages of four transfers, with and without ssl for the last one; the first goes to o1.
MCPages4 == {p \in PagesOver(4, MCOrigins, {[t \in 1 .. 4 |-> t = k] : k \in {0, 4}}) : p.origin[1] = o1}

=============================================================================
