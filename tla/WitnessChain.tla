---------------------------- MODULE WitnessChain ----------------------------
(***************************************************************************)
(* The witness chain (vllm_kappa/witness.py): what a served request leaves *)
(* behind, one record per full block and a seal that binds them, and what  *)
(* the verifier demands of a seal and of each record it names.             *)
(*                                                                         *)
(* The bytes of an object are <<form, map>>: the canonical CBOR of a map,  *)
(* some other CBOR of it (reordered keys, bytes behind the end), or bytes  *)
(* that are no CBOR map at all (<<"raw", ...>>).                           *)
(***************************************************************************)
EXTENDS Addressing

CONSTANT None

SchemaVersion == 1

Canonical(map) == <<"canonical", map>>

\* cbor2.loads: every encoding of a map is read as that map.
Decoded(bytes) == IF bytes[1] = "raw" THEN None ELSE bytes[2]

\* BLAKE3 is collision free; the digest is also the object's label.
Digest(bytes) == <<"blake3", bytes>>

\* dict.get
Field(map, name, default) == IF name \in DOMAIN map THEN map[name] ELSE default

\* The tokens of the i-th block (from 1), as Python slices them: short or empty
\* behind the end. (What a negative bs would slice is never of consequence: a chain
\* that has a block is then too long already.)
BlockTokens(tokens, bs, i) ==
    LET from == (i - 1) * bs
        left == IF Len(tokens) <= from THEN 0 ELSE Len(tokens) - from
    IN  [k \in 1 .. (IF left < bs THEN left ELSE bs) |-> tokens[from + k]]

-----------------------------------------------------------------------------
(* Building. *)

EncodeBlockWitness(index, bk, toks, kv) ==
    Canonical([v |-> SchemaVersion, t |-> "bw", i |-> index, bk |-> bk,
               toks |-> toks, kv |-> kv])

EncodeSeal(eng, samp, prompt, out, chain) ==
    Canonical([v |-> SchemaVersion, t |-> "seal", eng |-> eng, samp |-> samp,
               prompt |-> prompt, out |-> out, chain |-> chain])

\* The records of a request; the writer passes no KV digests.
BuildRecords(eng, prompt, out) ==
    LET keys == ChainBlockKeys(prompt \o out, eng.bs, NoExtra, eng.seed)
    IN  [i \in 1 .. Len(keys) |->
            EncodeBlockWitness(i - 1, keys[i],
                               BlockTokens(prompt \o out, eng.bs, i), None)]

\* The seal binds the digests of the records.
BuildSeal(eng, samp, prompt, out) ==
    LET records == BuildRecords(eng, prompt, out)
    IN  EncodeSeal(eng, samp, prompt, out,
                   [i \in 1 .. Len(records) |-> Digest(records[i])])

\* Faulty variant: the seal is put first.
BuildSealFirst(eng, samp, prompt, out) ==
    <<BuildSeal(eng, samp, prompt, out)>> \o BuildRecords(eng, prompt, out)

\* The records and then the seal, in the order the writer puts them.
BuildChain(eng, samp, prompt, out) ==
    Append(BuildRecords(eng, prompt, out), BuildSeal(eng, samp, prompt, out))

-----------------------------------------------------------------------------
(* Verifying. *)

\* A map the verifier takes for a seal of this schema version.
IsSealRecord(map) ==
    /\ map # None
    /\ Field(map, "v", None) = SchemaVersion
    /\ Field(map, "t", None) = "seal"

\* A seal without one of its fields, or with blocks of no tokens (a step of 0),
\* cannot be walked: the exception it raises is a refusal. A negative block size
\* raises nothing.
Walkable(map) ==
    /\ {"eng", "samp", "prompt", "out", "chain"} \subseteq DOMAIN map
    /\ map.eng.bs # 0

TokensOf(seal) == seal.prompt \o seal.out

ExpectedKeys(seal) == ChainBlockKeys(TokensOf(seal), seal.eng.bs, NoExtra, seal.eng.seed)

\* One record for every full block of the token stream.
LengthHolds(seal) == Len(seal.chain) = Len(ExpectedKeys(seal))

\* Faulty variant: the record is not compared with the token stream.
RecordHoldsByDigest(seal, i, bytes) ==
    /\ bytes # None
    /\ Digest(bytes) = seal.chain[i]
    /\ Decoded(bytes) # None

\* The i-th record (from 1), as it was fetched: its bytes derive the digest in
\* the chain, and its index, key and tokens are those of the token stream.
RecordHolds(seal, i, bytes) ==
    /\ bytes # None
    /\ Digest(bytes) = seal.chain[i]
    /\ LET rec == Decoded(bytes)
       IN  /\ rec # None
           /\ Field(rec, "i", None) = i - 1
           /\ i <= Len(ExpectedKeys(seal)) => Field(rec, "bk", None) = ExpectedKeys(seal)[i]
           /\ Field(rec, "toks", <<>>) = BlockTokens(TokensOf(seal), seal.eng.bs, i)

\* Faulty variant: the seal is not encoded again.
AnyForm(seal, bytes) == TRUE

\* Encoding the seal again gives the bytes it was read from.
CanonicalHolds(seal, bytes) ==
    bytes = EncodeSeal(seal.eng, seal.samp, seal.prompt, seal.out, seal.chain)
=============================================================================
