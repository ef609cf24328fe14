----------------------------- MODULE MCDrafter -----------------------------
(* Small instances of Drafter: requests with equal heads.                   *)
EXTENDS DrafterCorrectness, TLC

CONSTANTS r1, r2, witness

\* Equal for two tokens, then different; r2 reaches the length limit.
Twins == r1 :> <<1, 2, 1, 2>> @@ r2 :> <<1, 2, 1, 1, 1, 2>>
TwinPrompts == r1 :> 2 @@ r2 :> 1
=============================================================================
