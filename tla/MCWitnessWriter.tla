-------------------------- MODULE MCWitnessWriter --------------------------
(* A small instance of WitnessWriter: the same request served twice, so the *)
(* same records and the same seal. Two jobs are enough to fill a queue of   *)
(* one behind the writer.                                                   *)
EXTENDS WitnessCorrectness, TLC

CONSTANTS j1, j2, p, q, s

RepeatedChain == j1 :> <<p, q>> @@ j2 :> <<p, q>>
RepeatedSeals == j1 :> s @@ j2 :> s
=============================================================================
