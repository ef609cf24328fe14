--------------------------- MODULE MCKvConnector ---------------------------
(* Small instances of KvConnector: blocks of two tokens, prompts that share *)
(* a prefix and then diverge.                                               *)
EXTENDS KvCorrectness, Addressing, TLC

CONSTANTS r1, r2, r3, e1, e2, base, lora

Keys(tokens) == PromptBlockKeys(tokens, 2, "seed")

Long  == Keys(<<1, 1, 2, 2, 9>>)            \* two eligible blocks
Other == Keys(<<1, 1, 3, 3, 9>>)            \* the same first, then another
Exact == Keys(<<1, 1, 2, 2>>)               \* two full blocks, one eligible
Three == Keys(<<1, 1, 2, 2, 4, 4, 9>>)

KeysOf(prompts) == UNION {{prompts[r][j] : j \in DOMAIN prompts[r]} : r \in DOMAIN prompts}

\* r1 and r2 ask the same, r3 diverges after the first block.
Divergent == r1 :> Long @@ r2 :> Long @@ r3 :> Other
DivergentKeys == KeysOf(Divergent)

\* Longer chains: r2 repeats r1, r3 stops after the shared first block.
Deep == r1 :> Three @@ r2 :> Three @@ r3 :> Exact
DeepKeys == KeysOf(Deep)

\* Two requests that ask the same.
Same == r1 :> Long @@ r2 :> Long
SameKeys == KeysOf(Same)

TwoHomes == r1 :> e1 @@ r2 :> e2
OneHome3 == r1 :> e1 @@ r2 :> e1 @@ r3 :> e1
TwoHomes3 == r1 :> e1 @@ r2 :> e2 @@ r3 :> e2

AllBase == r1 :> base @@ r2 :> base @@ r3 :> base
AllBase2 == r1 :> base @@ r2 :> base
BaseAndLora == r1 :> base @@ r2 :> lora
=============================================================================
