-------------------------- MODULE AddressingProofs --------------------------
(***************************************************************************)
(* Block keys, for token sequences and blocks of any length: the keys are  *)
(* chained as their recursive definition says, and a key names every token *)
(* up to the end of its block.  Induction over the positions is an         *)
(* argument by the least position at which a claim fails.                  *)
(***************************************************************************)
EXTENDS Addressing, WellFoundedInduction, TLAPS

\* A set of numbers that is not empty has a least element.
LEMMA LeastNumber ==
    ASSUME NEW S, S \subseteq Nat, S # {}
    PROVE  \E n \in S : \A m \in S : n <= m
<1>1. PICK n \in S : \A m \in S : <<m, n>> \notin OpToRel(<, Nat)
  BY NatLessThanWellFounded, WFMin, Zenon
<1>2. \A m \in S : ~(m < n)
  BY <1>1, Zenon DEF OpToRel
<1> QED BY <1>2

\* The tokens of the j-th block.
Block(tokens, bs, j) == SubSeq(tokens, (j - 1) * bs + 1, j * bs)

\* What the recursive definition of the keys asks of a function on 0 .. m.
Chained(tokens, bs, extra, seed, key, m) ==
    key = [j \in 0 .. m |->
              IF j = 0 THEN NoneHash(seed)
              ELSE BlockKey(key[j - 1], SubSeq(tokens, (j - 1) * bs + 1, j * bs), extra)]

\* The recursion has a solution on every initial segment: a solution up to m - 1
\* extends to m.
LEMMA KeysExist ==
    ASSUME NEW tokens, NEW bs, NEW extra, NEW seed, NEW n \in Nat
    PROVE  \E key : Chained(tokens, bs, extra, seed, key, n)
<1> DEFINE Missing == {m \in Nat : ~ \E key : Chained(tokens, bs, extra, seed, key, m)}
           Next(key, m) == [j \in 0 .. m |->
              IF j = 0 THEN NoneHash(seed)
              ELSE BlockKey(key[j - 1], SubSeq(tokens, (j - 1) * bs + 1, j * bs), extra)]
<1>1. SUFFICES ASSUME Missing # {} PROVE FALSE
  OBVIOUS
<1>2. PICK m \in Missing : \A k \in Missing : m <= k
  <2>1. Missing \subseteq Nat
    OBVIOUS
  <2> HIDE DEF Missing
  <2> QED BY <1>1, <2>1, LeastNumber
<1>3. CASE m = 0
  <2> DEFINE key == [j \in 0 .. 0 |-> NoneHash(seed)]
  <2>1. Chained(tokens, bs, extra, seed, key, 0)
    BY DEF Chained
  <2> QED BY <1>2, <1>3, <2>1
<1>4. CASE m # 0
  <2>1. m - 1 \in Nat /\ m - 1 \notin Missing
    BY <1>2, <1>4
  <2>2. PICK key : Chained(tokens, bs, extra, seed, key, m - 1)
    BY <2>1
  <2> DEFINE next == Next(key, m)
  <2>3. \A j \in 0 .. m - 1 : next[j] = key[j]
    <3>1. key = Next(key, m - 1)
      BY <2>2 DEF Chained
    <3> TAKE j \in 0 .. m - 1
    <3>2. j \in 0 .. m
      BY <2>1
    <3> QED BY <3>1, <3>2
  <2>4. next = Next(next, m)
    <3>1. ASSUME NEW j \in 0 .. m, j # 0 PROVE next[j - 1] = key[j - 1]
      <4>1. j - 1 \in 0 .. m - 1
        BY <2>1, <3>1
      <4> HIDE DEF next
      <4> QED BY <2>3, <4>1
    <3> HIDE DEF next
    <3>2. Next(next, m) = Next(key, m)
      BY <3>1
    <3> QED BY <3>2 DEF next
  <2>5. Chained(tokens, bs, extra, seed, next, m)
    BY <2>4 DEF Chained
  <2> QED BY <1>2, <2>5
<1> QED BY <1>3, <1>4

\* The equation of the keys: each hashes the one before it, the first one the
\* root, and the tokens of its block.
LEMMA KeysAreChained ==
    ASSUME NEW tokens, NEW bs, NEW extra, NEW seed, FullBlocks(Len(tokens), bs) \in Nat,
           NEW j \in 1 .. FullBlocks(Len(tokens), bs)
    PROVE  LET keys == ChainBlockKeys(tokens, bs, extra, seed)
           IN  keys[j] = BlockKey(IF j = 1 THEN NoneHash(seed) ELSE keys[j - 1],
                                  Block(tokens, bs, j), extra)
<1> DEFINE n == FullBlocks(Len(tokens), bs)
           keys == ChainBlockKeys(tokens, bs, extra, seed)
           key == CHOOSE f : f = [i \in 0 .. n |->
              IF i = 0 THEN NoneHash(seed)
              ELSE BlockKey(f[i - 1], SubSeq(tokens, (i - 1) * bs + 1, i * bs), extra)]
<1>1. Chained(tokens, bs, extra, seed, key, n)
  BY KeysExist DEF Chained
<1>2. keys = [i \in 1 .. n |-> key[i]]
  BY DEF ChainBlockKeys
<1> HIDE DEF key, keys
<1>3. key[j] = BlockKey(key[j - 1], Block(tokens, bs, j), extra) /\ key[0] = NoneHash(seed)
  BY <1>1 DEF Chained, Block
<1>4. keys[j] = key[j]
  BY <1>2
<1>5. CASE j = 1
  BY <1>3, <1>4, <1>5 DEF keys
<1>6. CASE j # 1
  <2>1. keys[j - 1] = key[j - 1]
    BY <1>2, <1>6
  <2> QED BY <1>3, <1>4, <1>6, <2>1 DEF keys
<1> QED BY <1>5, <1>6

\* There is one key for each full block.
LEMMA OneKeyPerFullBlock ==
    ASSUME NEW tokens, NEW bs, NEW extra, NEW seed, FullBlocks(Len(tokens), bs) \in Nat
    PROVE  Len(ChainBlockKeys(tokens, bs, extra, seed)) = FullBlocks(Len(tokens), bs)
<1>1. DOMAIN ChainBlockKeys(tokens, bs, extra, seed) = 1 .. FullBlocks(Len(tokens), bs)
  BY DEF ChainBlockKeys
<1> QED BY <1>1

\* A root is no key: it hashes a seed alone.
LEMMA RootIsNoKey ==
    ASSUME NEW seed, NEW parent, NEW tokens, NEW extra
    PROVE  NoneHash(seed) # BlockKey(parent, tokens, extra)
<1>1. DOMAIN NoneHash(seed) = 1 .. 2 /\ DOMAIN BlockKey(parent, tokens, extra) = 1 .. 3
  BY DEF NoneHash, BlockKey
<1>2. 3 \in 1 .. 3 /\ 3 \notin 1 .. 2
  OBVIOUS
<1> QED BY <1>1, <1>2

\* Equal keys hash equal parents and equal tokens.
LEMMA KeyParts ==
    ASSUME NEW p, NEW q, NEW u, NEW v, NEW extra,
           BlockKey(p, u, extra) = BlockKey(q, v, extra)
    PROVE  p = q /\ u = v
BY DEF BlockKey

-----------------------------------------------------------------------------
(* What a key names. *)

\* Two sequences have the same block and the same key at h.
Agree(s, t, bs, extra, seed, h) ==
    /\ ChainBlockKeys(s, bs, extra, seed)[h] = ChainBlockKeys(t, bs, extra, seed)[h]
    /\ Block(s, bs, h) = Block(t, bs, h)

\* A block key is reused only for the same tokens at the same place behind the
\* same tokens: what the connector relies on when it loads a block by its key
\* (addressing.py, chain_block_keys).
THEOREM KeyNamesItsPrefix ==
    ASSUME NEW s, NEW t, NEW bs, NEW extra, NEW seed,
           FullBlocks(Len(s), bs) \in Nat, FullBlocks(Len(t), bs) \in Nat,
           NEW i \in 1 .. FullBlocks(Len(s), bs), NEW j \in 1 .. FullBlocks(Len(t), bs),
           ChainBlockKeys(s, bs, extra, seed)[i] = ChainBlockKeys(t, bs, extra, seed)[j]
    PROVE  i = j /\ \A h \in 1 .. i : Agree(s, t, bs, extra, seed, h)
<1> DEFINE n == FullBlocks(Len(s), bs)
           m == FullBlocks(Len(t), bs)
           ks == ChainBlockKeys(s, bs, extra, seed)
           kt == ChainBlockKeys(t, bs, extra, seed)
           Claim(a, b) == a = b /\ \A h \in 1 .. a : Agree(s, t, bs, extra, seed, h)
           Wrong == {a \in 1 .. n : \E b \in 1 .. m : ks[a] = kt[b] /\ ~Claim(a, b)}
<1>1. SUFFICES ASSUME Wrong # {} PROVE FALSE
  OBVIOUS
<1>2. PICK a \in Wrong : \A c \in Wrong : a <= c
  <2>1. Wrong \subseteq Nat
    OBVIOUS
  <2> HIDE DEF Wrong
  <2> QED BY <1>1, <2>1, LeastNumber
<1>3. PICK b \in 1 .. m : ks[a] = kt[b] /\ ~Claim(a, b)
  BY <1>2
<1>4. a \in 1 .. n
  BY <1>2
<1>5. /\ ks[a] = BlockKey(IF a = 1 THEN NoneHash(seed) ELSE ks[a - 1], Block(s, bs, a), extra)
      /\ kt[b] = BlockKey(IF b = 1 THEN NoneHash(seed) ELSE kt[b - 1], Block(t, bs, b), extra)
  BY <1>4, KeysAreChained
<1> HIDE DEF n, m, ks, kt
<1>6. /\ Block(s, bs, a) = Block(t, bs, b)
      /\ (IF a = 1 THEN NoneHash(seed) ELSE ks[a - 1])
            = (IF b = 1 THEN NoneHash(seed) ELSE kt[b - 1])
  <2> DEFINE p == IF a = 1 THEN NoneHash(seed) ELSE ks[a - 1]
             q == IF b = 1 THEN NoneHash(seed) ELSE kt[b - 1]
  <2>1. BlockKey(p, Block(s, bs, a), extra) = BlockKey(q, Block(t, bs, b), extra)
    BY <1>3, <1>5
  <2> HIDE DEF p, q
  <2>2. p = q /\ Block(s, bs, a) = Block(t, bs, b)
    BY <2>1, KeyParts
  <2> QED BY <2>2 DEF p, q
<1>7. n \in Nat /\ m \in Nat
  BY DEF n, m
<1>8. \A c \in 1 .. n : ks[c] # NoneHash(seed)
  BY KeysAreChained, RootIsNoKey DEF n, ks
<1>9. \A c \in 1 .. m : kt[c] # NoneHash(seed)
  BY KeysAreChained, RootIsNoKey DEF m, kt
<1>10. CASE a = 1
  <2>1. b = 1
    <3>1. SUFFICES ASSUME b # 1 PROVE FALSE
      OBVIOUS
    <3>2. b - 1 \in 1 .. m
      BY <1>7, <3>1
    <3> QED BY <1>6, <1>9, <1>10, <3>1, <3>2
  <2>2. Agree(s, t, bs, extra, seed, 1)
    BY <1>3, <1>6, <1>10, <2>1 DEF Agree, ks, kt
  <2> QED BY <1>3, <1>10, <2>1, <2>2
<1>11. CASE a # 1
  <2>1. a - 1 \in 1 .. n
    BY <1>4, <1>7, <1>11
  <2>2. b # 1
    BY <1>6, <1>8, <1>11, <2>1
  <2>3. b - 1 \in 1 .. m
    BY <1>7, <2>2
  <2>4. ks[a - 1] = kt[b - 1]
    BY <1>6, <1>11, <2>2
  <2>5. a - 1 \notin Wrong
    BY <1>2, <2>1
  <2>6. Claim(a - 1, b - 1)
    BY <2>1, <2>3, <2>4, <2>5
  <2>7. a = b
    BY <1>4, <2>6
  <2>8. Agree(s, t, bs, extra, seed, a)
    BY <1>3, <1>6, <2>7 DEF Agree, ks, kt
  <2>9. \A h \in 1 .. a : h = a \/ h \in 1 .. a - 1
    BY <1>4
  <2> QED BY <1>3, <2>6, <2>7, <2>8, <2>9
<1> QED BY <1>10, <1>11

\* And sequences that have the same blocks up to i have the same key there, so
\* that requests with a common head find each other's blocks.
THEOREM SharedPrefixSharesKeys ==
    ASSUME NEW s, NEW t, NEW bs, NEW extra, NEW seed,
           FullBlocks(Len(s), bs) \in Nat, FullBlocks(Len(t), bs) \in Nat,
           NEW i \in 1 .. FullBlocks(Len(s), bs), i \in 1 .. FullBlocks(Len(t), bs),
           \A h \in 1 .. i : Block(s, bs, h) = Block(t, bs, h)
    PROVE  ChainBlockKeys(s, bs, extra, seed)[i] = ChainBlockKeys(t, bs, extra, seed)[i]
<1> DEFINE ks == ChainBlockKeys(s, bs, extra, seed)
           kt == ChainBlockKeys(t, bs, extra, seed)
           Wrong == {a \in 1 .. i : ks[a] # kt[a]}
<1>1. SUFFICES ASSUME Wrong # {} PROVE FALSE
  OBVIOUS
<1>2. PICK a \in Wrong : \A c \in Wrong : a <= c
  <2>1. Wrong \subseteq Nat
    OBVIOUS
  <2> HIDE DEF Wrong
  <2> QED BY <1>1, <2>1, LeastNumber
<1>3. a \in 1 .. i /\ ks[a] # kt[a]
  BY <1>2
<1>4. /\ ks[a] = BlockKey(IF a = 1 THEN NoneHash(seed) ELSE ks[a - 1], Block(s, bs, a), extra)
      /\ kt[a] = BlockKey(IF a = 1 THEN NoneHash(seed) ELSE kt[a - 1], Block(t, bs, a), extra)
  BY <1>3, KeysAreChained
<1>5. Block(s, bs, a) = Block(t, bs, a)
  BY <1>3
<1> HIDE DEF ks, kt
<1>6. a # 1 => ks[a - 1] = kt[a - 1]
  BY <1>2, <1>3
<1> QED BY <1>3, <1>4, <1>5, <1>6

\* What PromptBlockKeys chains: the part of a prompt that holds its eligible blocks.
Eligible(tokens, bs) == SubSeq(tokens, 1, AlignDown(Len(tokens) - 1, bs))

\* How many blocks fit into n tokens is a natural number.
LEMMA QuotientIsNat == ASSUME NEW n \in Nat, NEW b \in Nat \ {0} PROVE n \div b \in Nat
OBVIOUS

\* How many full blocks there are: as many as fit, and none of a negative size.
LEMMA FullBlocksOf ==
    ASSUME NEW n \in Nat, NEW b \in Int \ {0}
    PROVE  /\ FullBlocks(n, b) \in Nat
           /\ b > 0 => FullBlocks(n, b) = n \div b
           /\ b < 0 => FullBlocks(n, b) = 0
BY QuotientIsNat DEF FullBlocks

\* What is aligned divides without a rest.
LEMMA MultipleDivides == ASSUME NEW q \in Nat, NEW b \in Nat \ {0} PROVE (q * b) \div b = q
OBVIOUS

\* The eligible blocks always leave a token to compute, and never leave more than a
\* block: the boundary at which a prompt is a multiple of the block size
\* (connector.py, _prompt_block_keys; addressing.py, align_down).
THEOREM EligibleBlocksLeaveAToken ==
    ASSUME NEW Token, NEW tokens \in Seq(Token), tokens # <<>>,
           NEW bs \in Nat \ {0}, NEW seed
    PROVE  LET n == Len(PromptBlockKeys(tokens, bs, seed)) IN
           n * bs < Len(tokens) /\ Len(tokens) <= n * bs + bs
<1> DEFINE q == (Len(tokens) - 1) \div bs
           part == SubSeq(tokens, 1, q * bs)
<1>1. Len(tokens) - 1 \in Nat
  OBVIOUS
<1>2. q \in Nat
  BY <1>1, QuotientIsNat
<1>3. q * bs <= Len(tokens) - 1 /\ Len(tokens) - 1 < q * bs + bs
  BY <1>1
<1> HIDE DEF q
<1>4. q * bs \in Nat
  BY <1>2
<1>5. Len(part) = q * bs
  BY <1>1, <1>3, <1>4
<1> HIDE DEF part
<1>6. FullBlocks(Len(part), bs) = q
  BY <1>2, <1>4, <1>5, MultipleDivides, FullBlocksOf
<1>7. PromptBlockKeys(tokens, bs, seed) = ChainBlockKeys(part, bs, NoExtra, seed)
  BY DEF PromptBlockKeys, AlignDown, q, part
<1>8. Len(PromptBlockKeys(tokens, bs, seed)) = q
  BY <1>2, <1>6, <1>7, OneKeyPerFullBlock
<1>9. q * bs < Len(tokens) /\ Len(tokens) <= q * bs + bs
  BY <1>1, <1>3, <1>4
<1> QED BY <1>8, <1>9

\* The keys of prompts are chained, whatever the prompts: this is what the
\* connector's model assumes of them (ChainedKeys; connector.py, _prompt_block_keys).
THEOREM PromptKeysAreChained ==
    ASSUME NEW Token, NEW s \in Seq(Token), NEW t \in Seq(Token),
           NEW bs \in Nat \ {0}, NEW seed,
           NEW i \in 1 .. Len(PromptBlockKeys(s, bs, seed)),
           NEW j \in 1 .. Len(PromptBlockKeys(t, bs, seed)),
           PromptBlockKeys(s, bs, seed)[i] = PromptBlockKeys(t, bs, seed)[j]
    PROVE  /\ i = j
           /\ \A h \in 1 .. i :
                 PromptBlockKeys(s, bs, seed)[h] = PromptBlockKeys(t, bs, seed)[h]
<1> DEFINE e == Eligible(s, bs)
           f == Eligible(t, bs)
<1>1. ASSUME NEW u \in Seq(Token)
      PROVE  FullBlocks(Len(Eligible(u, bs)), bs) \in Nat
  <2>1. AlignDown(Len(u) - 1, bs) \in Int
    BY DEF AlignDown
  <2>2. AlignDown(Len(u) - 1, bs) <= Len(u)
    BY DEF AlignDown
  <2> HIDE DEF AlignDown
  <2>3. Len(Eligible(u, bs)) \in Nat
    BY <2>1, <2>2 DEF Eligible
  <2> HIDE DEF e, f
  <2> QED BY <2>3, FullBlocksOf
<1>2. /\ PromptBlockKeys(s, bs, seed) = ChainBlockKeys(e, bs, NoExtra, seed)
      /\ PromptBlockKeys(t, bs, seed) = ChainBlockKeys(f, bs, NoExtra, seed)
  BY DEF PromptBlockKeys, Eligible
<1> HIDE DEF e, f
<1>3. FullBlocks(Len(e), bs) \in Nat /\ FullBlocks(Len(f), bs) \in Nat
  BY <1>1 DEF e, f
<1>4. i \in 1 .. FullBlocks(Len(e), bs) /\ j \in 1 .. FullBlocks(Len(f), bs)
  <2>1. /\ Len(PromptBlockKeys(s, bs, seed)) = FullBlocks(Len(e), bs)
        /\ Len(PromptBlockKeys(t, bs, seed)) = FullBlocks(Len(f), bs)
    BY <1>2, <1>3, OneKeyPerFullBlock
  <2> QED BY <2>1
<1>5. i = j /\ \A h \in 1 .. i : Agree(e, f, bs, NoExtra, seed, h)
  BY <1>2, <1>3, <1>4, KeyNamesItsPrefix
<1> QED BY <1>2, <1>5 DEF Agree
=============================================================================
