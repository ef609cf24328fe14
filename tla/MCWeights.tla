----------------------------- MODULE MCWeights -----------------------------
(* A small instance of Weights: two files of up to two tensors.             *)
EXTENDS WeightsCorrectness, TLC

CONSTANTS a, b

File2 == {1, 2}
Tensor2 == {1, 2}

\* Two whole files, one file, a file that is cut off, one without a header.
Directories ==
    { 1 :> <<a, b>> @@ 2 :> <<a, Absent>>,
      1 :> <<a, a>> @@ 2 :> NoFile,
      1 :> <<b, Absent>> @@ 2 :> <<a, Short>>,
      1 :> Unreadable @@ 2 :> <<a, b>> }
=============================================================================
