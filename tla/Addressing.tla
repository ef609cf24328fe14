----------------------------- MODULE Addressing -----------------------------
(***************************************************************************)
(* Block addressing (vllm_kappa/addressing.py and the prompt keys of       *)
(* connector.py): the keys of a prompt's full blocks, each hashed over its *)
(* parent's key, its tokens and the extra keys.  A collision-free hash is  *)
(* modelled as the tuple of what it hashes.                                *)
(***************************************************************************)
EXTENDS Integers, Sequences

NoExtra == "no extra keys"

NoneHash(seed) == <<"root", seed>>

BlockKey(parent, tokens, extra) == <<parent, tokens, extra>>

\* range(0, n - bs + 1, bs): the full blocks of n tokens; a negative step has none.
FullBlocks(n, bs) == IF bs < 0 THEN 0 ELSE n \div bs

\* Faulty variant: every block hashes over the root.
UnchainedKeys(tokens, bs, extra, seed) ==
    [j \in 1 .. FullBlocks(Len(tokens), bs) |->
        BlockKey(NoneHash(seed), SubSeq(tokens, (j - 1) * bs + 1, j * bs), extra)]

\* Keys of every full block of a token sequence, chained from the root; a
\* trailing partial block has no key.
ChainBlockKeys(tokens, bs, extra, seed) ==
    LET n == FullBlocks(Len(tokens), bs)
        key[j \in 0 .. n] ==
            IF j = 0 THEN NoneHash(seed)
            ELSE BlockKey(key[j - 1], SubSeq(tokens, (j - 1) * bs + 1, j * bs), extra)
    IN [j \in 1 .. n |-> key[j]]

AlignDown(n, bs) == (n \div bs) * bs

\* The eligible blocks of a prompt lie fully inside its length less one: the
\* last token must be computed to produce logits.  No extra keys are passed.
PromptBlockKeys(tokens, bs, seed) ==
    ChainBlockKeys(SubSeq(tokens, 1, AlignDown(Len(tokens) - 1, bs)), bs, NoExtra, seed)
=============================================================================
