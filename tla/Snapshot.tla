------------------------------ MODULE Snapshot ------------------------------
(***************************************************************************)
(* What a prediction promises: it starts from a copy of the whole real     *)
(* state, runs on that copy alone, and the copy is thrown away at its end. *)
(* StorageSwitch, where every object copies its state by itself and only   *)
(* when it is used, refines this specification.                            *)
(***************************************************************************)
EXTENDS Naturals

CONSTANT Worlds   \* the states of all simulated objects together

VARIABLES real,       \* the world of the real run
          current,    \* the world the running code works on
          predicting  \* TRUE while a prediction runs

vars == <<real, current, predicting>>

Init == /\ real \in Worlds
        /\ current = real
        /\ predicting = FALSE

RealStep == /\ ~predicting
            /\ real' \in Worlds
            /\ current' = real'
            /\ UNCHANGED predicting

BeginPrediction == /\ ~predicting
                   /\ predicting' = TRUE
                   /\ UNCHANGED <<real, current>>

PredictedStep == /\ predicting
                 /\ current' \in Worlds
                 /\ UNCHANGED <<real, predicting>>

EndPrediction == /\ predicting
                 /\ predicting' = FALSE
                 /\ current' = real
                 /\ UNCHANGED real

Next == RealStep \/ BeginPrediction \/ PredictedStep \/ EndPrediction

Spec == Init /\ [][Next]_vars

=============================================================================
