----------------------------- MODULE MCAuditor -----------------------------
(* Small stores for the auditor: blocks of two tokens, two requests that    *)
(* share their first block, and objects of other writers.                   *)
EXTENDS AuditCorrectness, TLC

Engine == [bs |-> 2, seed |-> 7]

Short == [eng |-> Engine, samp |-> "greedy", prompt |-> <<1, 2>>, out |-> <<1>>]
Long == [eng |-> Engine, samp |-> "greedy", prompt |-> <<1, 2, 1>>, out |-> <<2, 2>>]

TwoRequests == {Short, Long}

\* What the writer puts: the two requests share their first record. Values are
\* written out as tuples and records, which TLC reads faster than functions; that
\* they are what build_chain makes is in WriterAssumption.
RecordMap(i) ==
    [Decoded(BuildRecords(Engine, Long.prompt, Long.out)[i]) EXCEPT !.toks = SubSeq(@, 1, 2)]
SealMap(r, chain) == Decoded(EncodeSeal(r.eng, r.samp, r.prompt, r.out, chain))

\* The map m with some of its fields changed.
Altered(m, changes) == Canonical(changes @@ m)

\* Objects that are none of the witness writer's, and seals that bind such ones.
Strangers(short) ==
    LET payload == <<"raw", "payload">>
        annotation == Canonical([v |-> 1, t |-> "kvd", label |-> "payload"])
    IN  <<payload, Altered(short, "chain" :> <<Digest(payload)>>),
          annotation, Altered(short, "chain" :> <<Digest(annotation)>>),
          Canonical([v |-> 1, t |-> "seal", chain |-> <<>>])>>

\* Seals of another encoding, version, block size, output, sampling or chain.
Variants(long, short) ==
    <<<<"other", long>>,
      Altered(long, "v" :> 2),
      Altered(long, "eng" :> [bs |-> 0, seed |-> 7]),
      Altered(long, "eng" :> [bs |-> -1, seed |-> 7]),
      Altered(short, "eng" :> [bs |-> -1, seed |-> 7] @@ "chain" :> <<>>),
      Altered(long, "out" :> <<1, 2>>),
      Altered(short, "out" :> <<1, 2>>),
      Altered(long, "chain" :> SubSeq(long.chain, 1, 1)),
      Altered(short, "chain" :> long.chain),
      Altered(long, "chain" :> <<long.chain[2], long.chain[1]>>),
      Altered(long, "samp" :> "nucleus")>>

\* A record of another version or with a KV digest, and the seal that binds it.
Rebound(record, short, changes) ==
    LET other == Altered(record, changes)
    IN  <<other, Altered(short, "chain" :> <<Digest(other)>>)>>

\* The labels are the positions in this list.
Store(first, second, long, short) ==
    <<first, second, Canonical(short), Canonical(long)>>
        \o Strangers(short) \o Variants(long, short)
        \o Rebound(Decoded(first), short, "v" :> 2)
        \o Rebound(Decoded(first), short, "kv" :> "digest")
Sealed(first, second) ==
    Store(first, second, SealMap(Long, <<Digest(first), Digest(second)>>),
                         SealMap(Short, <<Digest(first)>>))
Objects == Sealed(Canonical(RecordMap(1)), Canonical(RecordMap(2)))
Labels == 1 .. 24

\* One object of another writer, an object and the seal that binds it, or none.
Left == {{}} \cup {{l} : l \in 5 .. 20} \cup {{l, l + 1} : l \in {5, 7, 21, 23}}

\* --seal may name the seal of Long.
EveryOrOne == {None, 4}
ASSUME LongIsFourth == SealOf[Long] = 4
=============================================================================
