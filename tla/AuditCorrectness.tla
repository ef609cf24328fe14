-------------------------- MODULE AuditCorrectness --------------------------
(***************************************************************************)
(* What an audit is worth: it never refuses a seal of the system without a *)
(* cause, what it passes is true of the tokens the seal names, and its     *)
(* exit code says what it found.                                           *)
(***************************************************************************)
EXTENDS Auditor

\* What build_chain makes, verify_chain accepts, also in a store that is being
\* written while it is audited: a seal of the system is refused only if one of
\* its records was damaged or lost. (The records are put before the seal.)
RefusalHasACause ==
    \A r \in Request : SealOf[r] \in failed => Bound(SealOf[r]) \cap (damaged \cup lost) # {}

\* The record is about the i-th block (from 1) of the seal's token stream.
WitnessesBlock(rec, seal, i) ==
    /\ rec # None
    /\ Field(rec, "i", None) = i - 1
    /\ Field(rec, "bk", None) = ExpectedKeys(seal)[i]
    /\ "toks" \in DOMAIN rec
    /\ \A k \in 1 .. seal.eng.bs :
          rec.toks[k] = TokensOf(seal)[(i - 1) * seal.eng.bs + k]

\* One witness per full block, and every token of every full block is in the
\* witness of its block: what a reader learns from the records of a seal that
\* verify_chain passed is what the seal says the request produced. A seal that
\* names a negative block size passes, too: it has no full block, binds no record,
\* and witnesses nothing, like one whose blocks are longer than its stream.
Witnessed(s) ==
    LET seal == Map(s)
    IN  /\ Len(seal.chain) = IF seal.eng.bs > 0 THEN Len(TokensOf(seal)) \div seal.eng.bs
                                               ELSE 0
        /\ \A i \in 1 .. Len(seal.chain) :
              WitnessesBlock(Map(Named(seal.chain[i])), seal, i)

PassedIsWitnessed == \A s \in passed : Witnessed(s)

\* The keys in the records of a passed seal can be followed from the root with
\* the records alone: each hashes the one before it and its own tokens.
KeysFollow ==
    \A s \in passed :
        LET seal == Map(s)
            rec(i) == Map(Named(seal.chain[i]))
        IN  \A i \in 1 .. Len(seal.chain) :
                rec(i).bk = BlockKey(IF i = 1 THEN NoneHash(seal.eng.seed)
                                     ELSE rec(i - 1).bk,
                                     rec(i).toks, NoExtra)

\* What a seal says was inferred: by which engine, with which sampling, of what.
Inference(seal) == <<seal.eng, seal.samp, seal.prompt, seal.out>>

\* "The one label that names this inference" (witness.py:112), as far as it goes: an
\* inference has one label for each choice of its records. Two seals of one inference
\* that pass bind, block by block, records that witness the same tokens under the same
\* key; and somewhere the records differ, by what else they say (a KV digest) or by
\* their form, for with the same records, down to their bytes, the seal is the same.
OneLabelPerInference ==
    \A s, t \in passed :
        s # t /\ Inference(Map(s)) = Inference(Map(t)) =>
            LET b == Map(s).chain  c == Map(t).chain
            IN  /\ Len(b) = Len(c)
                /\ \A i \in 1 .. Len(b) :
                      LET p == Map(Named(b[i]))  q == Map(Named(c[i]))
                      IN  p.i = q.i /\ p.bk = q.bk /\ p.toks = q.toks
                /\ \E i \in 1 .. Len(b) : Bytes[Named(b[i])] # Bytes[Named(c[i])]

\* Exit code 0 is a clean bill: every selected seal that was in the directory
\* when it was listed has been passed, save one whose file vanished, and there
\* is at least one.
ZeroIsACleanBill ==
    exit = 0 =>
        /\ passed # {} /\ failed = {}
        /\ \A o \in listed :
              TypedSeal(o) /\ wanted \in {None, o} =>
                  o \in passed \cup lost
=============================================================================
