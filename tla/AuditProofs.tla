---------------------------- MODULE AuditProofs ----------------------------
(***************************************************************************)
(* Proofs about the auditor, for any objects, requests, interleavings and  *)
(* faults: what a seal it passed says of its tokens is what the records it *)
(* binds say.                                                              *)
(***************************************************************************)
EXTENDS AuditCorrectness, AddressingProofs, SequenceTheorems

\* A digest in the chain of a walkable seal names an object, its own.
LEMMA ChainNames ==
    ASSUME NEW s \in Label, IsSealRecord(Map(s)), Walkable(Map(s)),
           NEW i \in 1 .. Len(Map(s).chain)
    PROVE  /\ Named(Map(s).chain[i]) \in Label
           /\ Digest(Bytes[Named(Map(s).chain[i])]) = Map(s).chain[i]
<1> DEFINE d == Map(s).chain[i]
<1>1. Map(s).chain \in Seq({Digest(Bytes[b]) : b \in Label})
  BY ObjectAssumption
<1>2. d \in {Digest(Bytes[b]) : b \in Label}
  BY <1>1
<1>3. \E b \in Label : Digest(Bytes[b]) = d
  BY <1>2
<1> QED BY <1>3 DEF Named

LEMMA QuotientType == \A a \in Nat : \A b \in Nat \ {0} : a \div b \in Nat
OBVIOUS

\* A number of full blocks fits into the tokens.
LEMMA BlocksFit ==
    ASSUME NEW L \in Nat, NEW bs \in Nat \ {0}, NEW i \in 1 .. (L \div bs)
    PROVE  (i - 1) * bs + bs <= L
<1>1. (L \div bs) * bs <= L
  OBVIOUS
<1> QED BY <1>1

-----------------------------------------------------------------------------
(* The objects of a request: what BuildChain makes of it. *)

RecordsOf(r) == BuildRecords(r.eng, r.prompt, r.out)

LEMMA DigestNames ==
    ASSUME NEW a, NEW b, Digest(a) = Digest(b) PROVE a = b
BY DEF Digest

\* Bytes that some label stands for are named by it.
LEMMA LabelNames ==
    ASSUME NEW bytes, \E l \in Label : Bytes[l] = bytes
    PROVE  LabelOf(bytes) \in Label /\ Bytes[LabelOf(bytes)] = bytes
<1>1. \E l \in Label : Digest(Bytes[l]) = Digest(bytes)
  OBVIOUS
<1>2. LabelOf(bytes) \in Label /\ Digest(Bytes[LabelOf(bytes)]) = Digest(bytes)
  BY <1>1 DEF LabelOf, Named
<1> QED BY <1>2, DigestNames

\* One record per full block.
LEMMA RecordsCount ==
    ASSUME NEW r \in Request
    PROVE  LET tokens == r.prompt \o r.out
               keys == ChainBlockKeys(tokens, r.eng.bs, NoExtra, r.eng.seed)
           IN  /\ Len(keys) \in Nat
               /\ RecordsOf(r) \in Seq({RecordsOf(r)[i] : i \in 1 .. Len(keys)})
               /\ Len(RecordsOf(r)) = Len(keys)
               /\ \A i \in 1 .. Len(keys) :
                     RecordsOf(r)[i] = EncodeBlockWitness(i - 1, keys[i],
                                           BlockTokens(tokens, r.eng.bs, i), None)
<1> DEFINE tokens == r.prompt \o r.out
           keys == ChainBlockKeys(tokens, r.eng.bs, NoExtra, r.eng.seed)
<1>1. Len(tokens) \in Nat /\ r.eng.bs \in Nat \ {0}
  <2>1. tokens \in Seq(Nat)
    BY WriterAssumption
  <2> QED BY <2>1, LenProperties, WriterAssumption
<1>2. FullBlocks(Len(tokens), r.eng.bs) \in Nat
  <2>1. r.eng.bs \in Int \ {0}
    BY <1>1
  <2> HIDE DEF tokens
  <2> QED BY <1>1, <2>1, FullBlocksOf
<1>3. Len(keys) \in Nat
  BY <1>2, OneKeyPerFullBlock
<1> HIDE DEF keys
<1>4. RecordsOf(r) = [i \in 1 .. Len(keys) |->
                        EncodeBlockWitness(i - 1, keys[i],
                                           BlockTokens(tokens, r.eng.bs, i), None)]
  BY DEF RecordsOf, BuildRecords, keys
<1> DEFINE S == {RecordsOf(r)[i] : i \in 1 .. Len(keys)}
<1>5. DOMAIN RecordsOf(r) = 1 .. Len(keys)
  BY <1>4
<1>6. RecordsOf(r) \in [1 .. Len(keys) -> S]
  BY <1>4, <1>5
<1> HIDE DEF S
<1>7. RecordsOf(r) \in Seq(S) /\ Len(RecordsOf(r)) = Len(keys)
  BY <1>3, <1>6
<1>8. \A i \in 1 .. Len(keys) :
         RecordsOf(r)[i] = EncodeBlockWitness(i - 1, keys[i],
                                           BlockTokens(tokens, r.eng.bs, i), None)
  BY <1>4
<1> QED BY <1>3, <1>7, <1>8 DEF keys, S

\* The writer puts the records and then the seal, under their names.
LEMMA PutsAreTheChain ==
    ASSUME NEW r \in Request
    PROVE  /\ Len(RecordsOf(r)) \in Nat
           /\ PutsOf[r] \in Seq(Label)
           /\ Len(PutsOf[r]) = Len(RecordsOf(r)) + 1
           /\ \A i \in 1 .. Len(RecordsOf(r)) :
                 PutsOf[r][i] = LabelOf(RecordsOf(r)[i]) /\ Bytes[PutsOf[r][i]] = RecordsOf(r)[i]
           /\ PutsOf[r][Len(RecordsOf(r)) + 1] = SealOf[r]
           /\ SealOf[r] \in Label
           /\ Bytes[SealOf[r]] = BuildSeal(r.eng, r.samp, r.prompt, r.out)
<1> DEFINE seal == BuildSeal(r.eng, r.samp, r.prompt, r.out)
           chain == BuildChain(r.eng, r.samp, r.prompt, r.out)
           n == Len(RecordsOf(r))
<1>1. n \in Nat /\ \E S : RecordsOf(r) \in Seq(S)
  BY RecordsCount
<1>2. chain = Append(RecordsOf(r), seal)
  BY DEF BuildChain, RecordsOf
<1> HIDE DEF seal
<1>3. /\ Len(chain) = n + 1 /\ chain[n + 1] = seal
      /\ \A i \in 1 .. n : chain[i] = RecordsOf(r)[i]
  <2>1. PICK S : RecordsOf(r) \in Seq(S)
    BY <1>1
  <2>2. RecordsOf(r) \in Seq(S \cup {seal}) /\ seal \in S \cup {seal}
    BY <2>1, <1>1
  <2> QED BY <2>2, <1>2, AppendProperties
<1>4. \A i \in 1 .. Len(chain) : \E l \in Label : Bytes[l] = chain[i]
  BY WriterAssumption
<1> HIDE DEF chain, n
<1>5. \A i \in 1 .. Len(chain) :
        LabelOf(chain[i]) \in Label /\ Bytes[LabelOf(chain[i])] = chain[i]
  BY <1>4, LabelNames
<1>6. PutsOf[r] = [i \in 1 .. Len(chain) |-> LabelOf(chain[i])]
  BY DEF PutsOf, chain
<1>7. PutsOf[r] \in Seq(Label) /\ Len(PutsOf[r]) = n + 1
  <2>1. PutsOf[r] \in [1 .. n + 1 -> Label]
    BY <1>3, <1>5, <1>6
  <2> QED BY <1>1, <2>1 DEF n
<1>8. SealOf[r] = LabelOf(chain[n + 1])
  BY <1>3 DEF SealOf, seal
<1>9. n + 1 \in 1 .. Len(chain) /\ \A i \in 1 .. n : i \in 1 .. Len(chain)
  BY <1>1, <1>3 DEF n
<1>10. \A i \in 1 .. n :
         PutsOf[r][i] = LabelOf(RecordsOf(r)[i]) /\ Bytes[PutsOf[r][i]] = RecordsOf(r)[i]
  BY <1>3, <1>5, <1>6, <1>9
<1>11. PutsOf[r][n + 1] = SealOf[r] /\ SealOf[r] \in Label /\ Bytes[SealOf[r]] = seal
  BY <1>3, <1>5, <1>6, <1>8, <1>9
<1> QED BY <1>1, <1>7, <1>10, <1>11 DEF n, seal

\* What a seal of the system reads as.
LEMMA SealMap ==
    ASSUME NEW r \in Request
    PROVE  LET seal == Map(SealOf[r])
           IN  /\ DOMAIN seal = {"v", "t", "eng", "samp", "prompt", "out", "chain"}
               /\ seal.v = SchemaVersion /\ seal.t = "seal"
               /\ seal.eng = r.eng /\ seal.samp = r.samp
               /\ seal.prompt = r.prompt /\ seal.out = r.out
               /\ seal.chain = [i \in 1 .. Len(RecordsOf(r)) |-> Digest(RecordsOf(r)[i])]
<1> DEFINE chain == [i \in 1 .. Len(RecordsOf(r)) |-> Digest(RecordsOf(r)[i])]
           map == [v |-> SchemaVersion, t |-> "seal", eng |-> r.eng, samp |-> r.samp,
                   prompt |-> r.prompt, out |-> r.out, chain |-> chain]
<1>1. Bytes[SealOf[r]] = Canonical(map)
  BY PutsAreTheChain DEF BuildSeal, EncodeSeal, RecordsOf
<1>2. Map(SealOf[r]) = map
  <2> HIDE DEF map
  <2> QED BY <1>1 DEF Map, Decoded, Canonical
<1> HIDE DEF chain
<1>3. /\ DOMAIN map = {"v", "t", "eng", "samp", "prompt", "out", "chain"}
      /\ map.v = SchemaVersion /\ map.t = "seal"
      /\ map.eng = r.eng /\ map.samp = r.samp
      /\ map.prompt = r.prompt /\ map.out = r.out /\ map.chain = chain
  OBVIOUS
<1> QED BY <1>2, <1>3 DEF chain

\* A seal of the system binds the objects that are put before it.
LEMMA SealBinds ==
    ASSUME NEW r \in Request
    PROVE  /\ Len(Map(SealOf[r]).chain) = Len(RecordsOf(r))
           /\ \A i \in 1 .. Len(RecordsOf(r)) : Named(Map(SealOf[r]).chain[i]) = PutsOf[r][i]
           /\ Bound(SealOf[r]) = {PutsOf[r][i] : i \in 1 .. Len(RecordsOf(r))}
<1> DEFINE n == Len(RecordsOf(r))
           chain == Map(SealOf[r]).chain
<1>1. n \in Nat
  BY PutsAreTheChain
<1>2. chain = [i \in 1 .. n |-> Digest(RecordsOf(r)[i])]
  BY SealMap
<1>3. Len(chain) = n
  BY <1>1, <1>2
<1>4. \A i \in 1 .. n : Named(chain[i]) = PutsOf[r][i]
  BY <1>2, PutsAreTheChain DEF LabelOf
<1> HIDE DEF chain, n
<1>5. {Named(chain[i]) : i \in 1 .. n} = {PutsOf[r][i] : i \in 1 .. n}
  BY <1>4
<1> QED BY <1>3, <1>4, <1>5 DEF Bound, chain, n

\* Records are no seals: the type field tells them apart.
LEMMA RecordIsNoSeal ==
    ASSUME NEW r \in Request, NEW q \in Request, NEW i \in 1 .. Len(RecordsOf(r))
    PROVE  PutsOf[r][i] # SealOf[q]
<1>1. Bytes[PutsOf[r][i]] = RecordsOf(r)[i]
  BY PutsAreTheChain
<1>2. PICK j, k, u : RecordsOf(r)[i] = EncodeBlockWitness(j, k, u, None)
  BY RecordsCount
<1>3. Decoded(RecordsOf(r)[i]).t = "bw"
  BY <1>2 DEF EncodeBlockWitness, Decoded, Canonical
<1>4. Map(SealOf[q]).t = "seal"
  BY SealMap
<1> QED BY <1>1, <1>3, <1>4 DEF Map

\* verify_chain accepts what build_chain makes, record by record.
LEMMA GenuineHolds ==
    ASSUME NEW r \in Request
    PROVE  /\ IsSealRecord(Map(SealOf[r])) /\ Walkable(Map(SealOf[r]))
           /\ LengthHolds(Map(SealOf[r]))
           /\ CanonicalHolds(Map(SealOf[r]), Bytes[SealOf[r]])
           /\ \A i \in 1 .. Len(Map(SealOf[r]).chain) :
                 RecordHolds(Map(SealOf[r]), i, Bytes[Named(Map(SealOf[r]).chain[i])])
<1> DEFINE s == SealOf[r]
           seal == Map(s)
           tokens == r.prompt \o r.out
           keys == ChainBlockKeys(tokens, r.eng.bs, NoExtra, r.eng.seed)
           n == Len(RecordsOf(r))
<1>1. /\ s \in Label /\ Bytes[s] = BuildSeal(r.eng, r.samp, r.prompt, r.out)
      /\ r.eng.bs \in Nat \ {0}
  BY PutsAreTheChain, WriterAssumption
<1>2. /\ DOMAIN seal = {"v", "t", "eng", "samp", "prompt", "out", "chain"}
      /\ seal.v = SchemaVersion /\ seal.t = "seal" /\ seal.eng = r.eng
      /\ seal.samp = r.samp /\ seal.prompt = r.prompt /\ seal.out = r.out
      /\ seal.chain = [i \in 1 .. n |-> Digest(RecordsOf(r)[i])]
  BY SealMap
<1>3. seal # None
  <2>1. Bytes[s][1] # "raw"
    BY <1>1 DEF BuildSeal, EncodeSeal, Canonical
  <2> QED BY <1>1, <2>1, ObjectAssumption
<1>4. IsSealRecord(seal)
  BY <1>2, <1>3 DEF IsSealRecord, Field
<1>5. Walkable(seal)
  BY <1>1, <1>2 DEF Walkable
<1>6. TokensOf(seal) = tokens /\ ExpectedKeys(seal) = keys
  BY <1>2 DEF TokensOf, ExpectedKeys
<1>7. /\ Len(keys) \in Nat /\ n = Len(keys)
      /\ \A i \in 1 .. n :
            RecordsOf(r)[i] = EncodeBlockWitness(i - 1, keys[i],
                                  BlockTokens(tokens, r.eng.bs, i), None)
  BY RecordsCount
<1>8. Len(seal.chain) = n
  BY SealBinds
<1>9. CanonicalHolds(seal, Bytes[s])
  BY <1>1, <1>2 DEF CanonicalHolds, BuildSeal, RecordsOf
<1>10. ASSUME NEW i \in 1 .. n
       PROVE  RecordHolds(seal, i, Bytes[Named(seal.chain[i])])
  <2> DEFINE bytes == RecordsOf(r)[i]
             rec == Decoded(bytes)
  <2>1. Bytes[Named(seal.chain[i])] = bytes /\ Named(seal.chain[i]) \in Label
    <3>1. Named(seal.chain[i]) = PutsOf[r][i] /\ Bytes[PutsOf[r][i]] = bytes
      BY SealBinds, PutsAreTheChain
    <3>2. i \in 1 .. n + 1 /\ DOMAIN PutsOf[r] = 1 .. n + 1
      BY PutsAreTheChain
    <3> QED BY <3>1, <3>2, PutsAreTheChain
  <2>2. bytes # None
    BY <2>1, ObjectAssumption
  <2>3. rec = [v |-> SchemaVersion, t |-> "bw", i |-> i - 1, bk |-> keys[i],
               toks |-> BlockTokens(tokens, r.eng.bs, i), kv |-> None]
    <3>1. \A m : Decoded(Canonical(m)) = m
      BY DEF Decoded, Canonical
    <3> QED BY <1>7, <3>1 DEF EncodeBlockWitness
  <2>4. rec # None
    <3>1. bytes[1] # "raw"
      <4>1. bytes = EncodeBlockWitness(i - 1, keys[i],
                                       BlockTokens(tokens, r.eng.bs, i), None)
        BY <1>7
      <4> QED BY <4>1 DEF EncodeBlockWitness, Canonical
    <3> QED BY <2>1, <3>1, ObjectAssumption DEF Map
  <2>5. Digest(bytes) = seal.chain[i]
    BY <1>2
  <2>6. /\ Field(rec, "i", None) = i - 1
        /\ Field(rec, "bk", None) = keys[i]
        /\ Field(rec, "toks", <<>>) = BlockTokens(tokens, r.eng.bs, i)
    BY <2>3 DEF Field
  <2> HIDE DEF bytes, rec, keys
  <2> QED BY <1>2, <1>6, <2>1, <2>2, <2>4, <2>5, <2>6 DEF RecordHolds, rec
<1>11. LengthHolds(seal)
  BY <1>6, <1>7, <1>8 DEF LengthHolds
<1> QED BY <1>4, <1>5, <1>8, <1>9, <1>10, <1>11

-----------------------------------------------------------------------------
(* Types, and that only damaged files are reported as such. *)

LEMMA InitTypeOK == Init => TypeOK
<1> SUFFICES ASSUME Init PROVE TypeOK
  OBVIOUS
<1>1. putting \in Seq(Label)
  BY DEF Init
<1>2. \A o \in Label : file[o] # "bad"
  BY DEF Init
<1> QED BY <1>1, <1>2, AuditAssumption, ObjectAssumption DEF Init, TypeOK, Phase

LEMMA EnvironmentTypeOK == TypeOK /\ Environment => TypeOK'
<1> SUFFICES ASSUME TypeOK, Environment PROVE TypeOK'
  OBVIOUS
<1> USE DEF TypeOK
<1>1. ASSUME NEW r \in Request, Serve(r) PROVE TypeOK'
  <2>1. putting' \in Seq(Label)
    BY <1>1, PutsAreTheChain DEF Serve
  <2> QED BY <1>1, <2>1 DEF Serve, readVars, reportVars, verdictVars, faultVars
<1>2. CASE Put
  <2>1. putting \in Seq(Label) /\ putting # <<>>
    BY <1>2 DEF Put
  <2>2. Head(putting) \in Label /\ putting' \in Seq(Label)
    BY <2>1, <1>2 DEF Put
  <2>3. file' \in [Label -> {"absent", "good", "bad"}]
    BY <1>2, <2>2 DEF Put
  <2>4. {o \in Label : file'[o] = "bad"} \subseteq damaged'
    BY <1>2, <2>2 DEF Put, faultVars
  <2> QED BY <1>2, <2>2, <2>3, <2>4 DEF Put, readVars, reportVars, verdictVars, faultVars
<1>3. CASE Abandon
  <2>1. putting' \in Seq(Label)
    BY <1>3 DEF Abandon
  <2> QED BY <1>3, <2>1 DEF Abandon, readVars, reportVars, verdictVars, faultVars
<1>4. ASSUME NEW o \in Label, Damage(o) PROVE TypeOK'
  <2>1. file' \in [Label -> {"absent", "good", "bad"}]
    BY <1>4 DEF Damage, Fault
  <2>2. {b \in Label : file'[b] = "bad"} \subseteq damaged'
    BY <1>4 DEF Damage, Fault
  <2>3. faults' \in 0 .. MaxFaults
    BY <1>4, AuditAssumption DEF Damage, Fault
  <2> QED BY <1>4, <2>1, <2>2, <2>3
          DEF Damage, Fault, writerVars, readVars, reportVars, verdictVars
<1>5. ASSUME NEW o \in Label, Lose(o) PROVE TypeOK'
  <2>1. file' \in [Label -> {"absent", "good", "bad"}]
    BY <1>5 DEF Lose, Fault
  <2>2. {b \in Label : file'[b] = "bad"} \subseteq damaged'
    BY <1>5 DEF Lose, Fault
  <2>3. faults' \in 0 .. MaxFaults
    BY <1>5, AuditAssumption DEF Lose, Fault
  <2> QED BY <1>5, <2>1, <2>2, <2>3
          DEF Lose, Fault, writerVars, readVars, reportVars, verdictVars
<1> QED BY <1>1, <1>2, <1>3, <1>4, <1>5 DEF Environment

LEMMA AuditTypeOK == TypeOK /\ Audit => TypeOK'
<1> SUFFICES ASSUME TypeOK, Audit PROVE TypeOK'
  OBVIOUS
<1> USE DEF TypeOK
<1>1. CASE List
  BY <1>1 DEF List, Phase, writerVars, reportVars, verdictVars, faultVars
<1>2. ASSUME NEW o \in Label, Read(o) PROVE TypeOK'
  <2>1. corrupt' \subseteq damaged'
    BY <1>2 DEF Read, Refused, faultVars
  <2> QED BY <1>2, <2>1 DEF Read, writerVars, reportVars, verdictVars, faultVars
<1>3. CASE Select
  <2>1. seals' \subseteq Label
    BY <1>3 DEF Select
  <2>2. phase' \in Phase /\ exit' \in {None, 0, 1}
    BY <1>3 DEF Select, Phase
  <2> QED BY <1>3, <2>1, <2>2 DEF Select, writerVars, reportVars, verdictVars, faultVars
<1>4. ASSUME NEW s \in Label, OpenSeal(s) PROVE TypeOK'
  <2>1. CASE IsSealRecord(Map(s)) /\ Walkable(Map(s))
    <3>1. current' = s /\ block' = 1 /\ failed' = failed /\ ok' = LengthHolds(Map(s))
      BY <1>4, <2>1 DEF OpenSeal
    <3>2. Len(Map(s).chain) \in Nat
      BY <2>1, ObjectAssumption
    <3>3. 1 \in 1 .. Len(Map(s).chain) + 1
      BY <3>2
    <3>4. ok' \in BOOLEAN
      BY <3>1, Zenon DEF LengthHolds
    <3>5. current' # None => /\ IsSealRecord(Map(current'))
                             /\ Walkable(Map(current'))
                             /\ block' \in 1 .. Len(Map(current').chain) + 1
      BY <2>1, <3>1, <3>3
    <3> QED BY <1>4, <3>1, <3>4, <3>5 DEF OpenSeal, writerVars, faultVars
  <2>2. CASE ~(IsSealRecord(Map(s)) /\ Walkable(Map(s)))
    BY <1>4, <2>2 DEF OpenSeal, writerVars, faultVars, reportVars
  <2> QED BY <2>1, <2>2
<1>5. CASE CheckRecord
  <2> DEFINE o == Named(Map(current).chain[block])
  <2>1. current \in Label /\ IsSealRecord(Map(current)) /\ Walkable(Map(current))
    BY <1>5 DEF CheckRecord
  <2>2. Len(Map(current).chain) \in Nat
    BY <2>1, ObjectAssumption
  <2>3. block \in 1 .. Len(Map(current).chain)
    BY <1>5, <2>1, <2>2 DEF CheckRecord
  <2>4. o \in Label
    BY <2>1, <2>3, ChainNames
  <2>5. corrupt' \subseteq damaged'
    BY <1>5, <2>4 DEF CheckRecord, Refused, faultVars
  <2>6. ok' \in BOOLEAN
    <3>1. ok' = (ok /\ RecordHolds(Map(current), block, Fetched(o)))
      BY <1>5 DEF CheckRecord
    <3> QED BY <3>1, Zenon DEF RecordHolds
  <2>7. block' \in 1 .. Len(Map(current).chain) + 1 /\ block' \in Nat \ {0}
    BY <1>5, <2>2, <2>3 DEF CheckRecord
  <2> QED BY <1>5, <2>1, <2>5, <2>6, <2>7
          DEF CheckRecord, writerVars, readVars, verdictVars, faultVars
<1>6. CASE CloseSeal
  <2>1. passed' \subseteq Label /\ failed' \subseteq Label
    BY <1>6 DEF CloseSeal
  <2> QED BY <1>6, <2>1 DEF CloseSeal, writerVars, readVars, faultVars
<1>7. CASE Exit
  BY <1>7 DEF Exit, ExitCode, Phase, writerVars, readVars, reportVars, verdictVars, faultVars
<1> QED BY <1>1, <1>2, <1>3, <1>4, <1>5, <1>6, <1>7 DEF Audit

LEMMA StutterTypeOK == TypeOK /\ UNCHANGED vars => TypeOK'
BY DEF TypeOK, vars, writerVars, readVars, reportVars, verdictVars, faultVars

\* Cursors stay inside the chain of a seal that can be walked, and only files
\* whose bytes changed are reported as corrupt.
THEOREM TypeCorrect == Spec => []TypeOK
<1>1. TypeOK /\ [Next]_vars => TypeOK'
  BY EnvironmentTypeOK, AuditTypeOK, StutterTypeOK DEF Next, Over
<1> QED BY <1>1, InitTypeOK, PTL DEF Spec

-----------------------------------------------------------------------------
(* What is true of a passed seal. *)

\* The records before position n have been fetched and compared.
RecordsHold(s, n) ==
    \A i \in 1 .. Len(Map(s).chain) :
        i < n => RecordHolds(Map(s), i, Bytes[Named(Map(s).chain[i])])

\* What verify_chain has established when it returns ok.
Verified(s) ==
    /\ s \in Label
    /\ IsSealRecord(Map(s)) /\ Walkable(Map(s))
    /\ LengthHolds(Map(s))
    /\ RecordsHold(s, Len(Map(s).chain) + 1)

\* report.ok is what was found so far.
ReportIsSound ==
    current # None /\ ok =>
        LengthHolds(Map(current)) /\ RecordsHold(current, block)

VerdictInv == ReportIsSound /\ \A s \in passed : Verified(s)

LEMMA VerdictStep == TypeOK /\ VerdictInv /\ [Next]_vars => VerdictInv'
<1> SUFFICES ASSUME TypeOK, VerdictInv, [Next]_vars PROVE VerdictInv'
  OBVIOUS
<1>1. CASE UNCHANGED <<reportVars, verdictVars>>
  BY <1>1 DEF VerdictInv, ReportIsSound, reportVars, verdictVars
<1>2. ASSUME NEW s \in Label, OpenSeal(s) PROVE VerdictInv'
  <2>1. CASE IsSealRecord(Map(s)) /\ Walkable(Map(s))
    <3>1. /\ current' = s /\ block' = 1 /\ passed' = passed
          /\ ok' = LengthHolds(Map(s))
      BY <1>2, <2>1 DEF OpenSeal
    <3>2. RecordsHold(s, 1)
      BY DEF RecordsHold
    <3> QED BY <3>1, <3>2 DEF VerdictInv, ReportIsSound
  <2>2. CASE ~(IsSealRecord(Map(s)) /\ Walkable(Map(s)))
    BY <1>2, <2>2 DEF OpenSeal, reportVars, VerdictInv, ReportIsSound
  <2> QED BY <2>1, <2>2
<1>3. CASE CheckRecord
  <2> DEFINE seal == Map(current)
             o == Named(seal.chain[block])
  <2>1. /\ current \in Label /\ current # None
        /\ IsSealRecord(seal) /\ Walkable(seal) /\ block \in Nat
    BY <1>3 DEF CheckRecord, TypeOK
  <2>2. /\ current' = current /\ passed' = passed /\ block' = block + 1
        /\ ok' = (ok /\ RecordHolds(seal, block, Fetched(o)))
    BY <1>3 DEF CheckRecord, verdictVars
  <2>3. ASSUME ok' PROVE LengthHolds(seal) /\ RecordsHold(current, block + 1)
    <3>1. ok /\ RecordHolds(seal, block, Fetched(o))
      BY <2>2, <2>3
    <3>2. Fetched(o) = Bytes[o]
      BY <3>1 DEF RecordHolds, Fetched
    <3>3. LengthHolds(seal) /\ RecordsHold(current, block)
      BY <3>1, <2>1 DEF VerdictInv, ReportIsSound
    <3>4. ASSUME NEW i \in 1 .. Len(seal.chain), i < block + 1
          PROVE  RecordHolds(seal, i, Bytes[Named(seal.chain[i])])
      <4>1. CASE i = block
        BY <4>1, <3>1, <3>2
      <4>2. CASE i < block
        BY <4>2, <3>3 DEF RecordsHold
      <4> QED BY <4>1, <4>2, <3>4, <2>1
    <3> QED BY <3>3, <3>4 DEF RecordsHold
  <2> QED BY <2>2, <2>3 DEF VerdictInv, ReportIsSound
<1>4. CASE CloseSeal
  <2>1. current' = None
    BY <1>4 DEF CloseSeal
  <2>2. ASSUME passed' # passed PROVE passed' = passed \cup {current} /\ Verified(current)
    <3>1. ok /\ passed' = passed \cup {current}
      BY <1>4, <2>2 DEF CloseSeal
    <3>2. /\ current \in Label /\ current # None
          /\ IsSealRecord(Map(current)) /\ Walkable(Map(current))
          /\ block \in Nat
      BY <1>4 DEF CloseSeal, TypeOK
    <3>3. LengthHolds(Map(current)) /\ RecordsHold(current, block)
      BY <3>1, <3>2 DEF VerdictInv, ReportIsSound
    <3>4. block > Len(Map(current).chain) /\ Len(Map(current).chain) \in Nat
      BY <1>4, <3>2, ObjectAssumption DEF CloseSeal
    <3>5. RecordsHold(current, Len(Map(current).chain) + 1)
      BY <3>2, <3>3, <3>4 DEF RecordsHold
    <3> QED BY <3>1, <3>2, <3>3, <3>5 DEF Verified
  <2> QED BY <2>1, <2>2 DEF VerdictInv, ReportIsSound
<1>5. CASE Environment
  BY <1>1, <1>5 DEF Environment, Serve, Put, Abandon, Damage, Lose, Fault
<1>6. ASSUME NEW o \in Label, Read(o) PROVE VerdictInv'
  BY <1>1, <1>6 DEF Read
<1>7. CASE List \/ Select \/ Exit \/ UNCHANGED vars
  BY <1>1, <1>7 DEF List, Select, Exit, vars
<1> QED BY <1>2, <1>3, <1>4, <1>5, <1>6, <1>7 DEF Next, Audit, Over

\* The tokens of a full block, as the code slices them and as they are hashed.
LEMMA FullBlockTokens ==
    ASSUME NEW tokens, Len(tokens) \in Nat, NEW bs \in Nat \ {0},
           NEW i \in 1 .. (Len(tokens) \div bs)
    PROVE  BlockTokens(tokens, bs, i) = [k \in 1 .. bs |-> tokens[(i - 1) * bs + k]]
<1> DEFINE from == (i - 1) * bs
           left == IF Len(tokens) <= from THEN 0 ELSE Len(tokens) - from
           m == IF left < bs THEN left ELSE bs
<1>1. from + bs <= Len(tokens)
  BY BlocksFit, Zenon
<1>2. from \in Nat
  <2>1. \A a, b \in Nat : a * b \in Nat
    OBVIOUS
  <2>2. i - 1 \in Nat
    OBVIOUS
  <2> QED BY <2>1, <2>2
<1> HIDE DEF from
<1>3. m = bs
  BY <1>1, <1>2
<1>4. BlockTokens(tokens, bs, i) = [k \in 1 .. m |-> tokens[from + k]]
  BY DEF BlockTokens, from
<1> QED BY <1>3, <1>4 DEF from

LEMMA FullBlockIsHashed ==
    ASSUME NEW tokens \in Seq(Nat), NEW bs \in Nat \ {0},
           NEW i \in 1 .. (Len(tokens) \div bs)
    PROVE  Block(tokens, bs, i) = [k \in 1 .. bs |-> tokens[(i - 1) * bs + k]]
<1> DEFINE from == (i - 1) * bs
<1>1. from + bs <= Len(tokens)
  <2>1. Len(tokens) \in Nat
    OBVIOUS
  <2> QED BY <2>1, BlocksFit, Zenon
<1>2. from \in Nat
  <2>1. \A a, b \in Nat : a * b \in Nat
    OBVIOUS
  <2>2. i - 1 \in Nat
    OBVIOUS
  <2> QED BY <2>1, <2>2
<1>3. i * bs = from + bs
  <2>1. \A a, b \in Int : a * b = (a - 1) * b + b
    OBVIOUS
  <2> QED BY <2>1
<1>4. Block(tokens, bs, i) = SubSeq(tokens, from + 1, from + bs)
  BY <1>3 DEF Block
<1> HIDE DEF from
<1>5. SubSeq(tokens, from + 1, from + bs) = [k \in 1 .. bs |-> tokens[from + k]]
  <2>1. SubSeq(tokens, from + 1, from + bs)
           = [k \in 1 .. (from + bs - (from + 1) + 1) |-> tokens[k + (from + 1) - 1]]
    BY <1>1, <1>2
  <2>2. from + bs - (from + 1) + 1 = bs
    BY <1>2
  <2>3. \A k \in 1 .. bs : k + (from + 1) - 1 = from + k
    BY <1>2
  <2> QED BY <2>1, <2>2, <2>3
<1> QED BY <1>4, <1>5 DEF from

\* A record that holds at its place carries the tokens of that block.
LEMMA RecordWitnesses ==
    ASSUME NEW seal, seal.prompt \in Seq(Nat), seal.out \in Seq(Nat),
           seal.eng.bs \in Nat \ {0}, NEW bytes,
           NEW i \in 1 .. (Len(TokensOf(seal)) \div seal.eng.bs),
           Len(ExpectedKeys(seal)) = Len(TokensOf(seal)) \div seal.eng.bs,
           RecordHolds(seal, i, bytes)
    PROVE  WitnessesBlock(Decoded(bytes), seal, i)
<1> DEFINE bs == seal.eng.bs
           tokens == TokensOf(seal)
           rec == Decoded(bytes)
<1>1. Len(tokens) \in Nat
  <2>1. seal.prompt \o seal.out \in Seq(Nat)
    OBVIOUS
  <2> QED BY <2>1, LenProperties DEF TokensOf
<1>4. BlockTokens(tokens, bs, i) = [k \in 1 .. bs |-> tokens[(i - 1) * bs + k]]
  <2>1. bs \in Nat \ {0} /\ i \in 1 .. (Len(tokens) \div bs)
    OBVIOUS
  <2> HIDE DEF tokens, bs
  <2> QED BY <1>1, <2>1, FullBlockTokens
<1>5. /\ rec # None /\ Field(rec, "i", None) = i - 1
      /\ Field(rec, "toks", <<>>) = BlockTokens(tokens, bs, i)
      /\ i <= Len(ExpectedKeys(seal)) => Field(rec, "bk", None) = ExpectedKeys(seal)[i]
  BY DEF RecordHolds
<1>6. Field(rec, "bk", None) = ExpectedKeys(seal)[i]
  BY <1>1, <1>5
<1>7. "toks" \in DOMAIN rec
  <2>1. SUFFICES ASSUME "toks" \notin DOMAIN rec PROVE FALSE
    OBVIOUS
  <2>2. BlockTokens(tokens, bs, i) = <<>>
    BY <1>5, <2>1 DEF Field
  <2>3. 1 \in DOMAIN BlockTokens(tokens, bs, i)
    BY <1>4
  <2>4. 1 \notin DOMAIN << >>
    OBVIOUS
  <2> QED BY <2>2, <2>3, <2>4
<1>8. rec.toks = [k \in 1 .. bs |-> tokens[(i - 1) * bs + k]]
  BY <1>4, <1>5, <1>7 DEF Field
<1> QED BY <1>5, <1>6, <1>7, <1>8 DEF WitnessesBlock

\* Every full block has one key.
LEMMA OneKeyPerBlock ==
    ASSUME NEW seal, Len(TokensOf(seal)) \in Nat, seal.eng.bs \in Int \ {0}
    PROVE  /\ Len(ExpectedKeys(seal)) = FullBlocks(Len(TokensOf(seal)), seal.eng.bs)
           /\ DOMAIN ExpectedKeys(seal) = 1 .. Len(ExpectedKeys(seal))
           /\ Len(ExpectedKeys(seal)) \in Nat
<1> DEFINE n == FullBlocks(Len(TokensOf(seal)), seal.eng.bs)
<1>1. n \in Nat
  BY FullBlocksOf
<1>2. DOMAIN ExpectedKeys(seal) = 1 .. n
  BY DEF ExpectedKeys, ChainBlockKeys
<1> QED BY <1>1, <1>2

\* The parts of a seal that verify_chain can walk, and how long the chain of one
\* that it accepted is: empty if the block size is negative.
LEMMA VerifiedParts ==
    ASSUME NEW s, Verified(s)
    PROVE  LET seal == Map(s) IN
           /\ s \in Label /\ IsSealRecord(seal)
           /\ seal.prompt \in Seq(Nat) /\ seal.out \in Seq(Nat)
           /\ seal.eng.bs \in Int \ {0}
           /\ seal.chain \in Seq({Digest(Bytes[b]) : b \in Label})
           /\ Len(seal.chain) \in Nat
           /\ TokensOf(seal) \in Seq(Nat) /\ Len(TokensOf(seal)) \in Nat
           /\ \A j \in DOMAIN ExpectedKeys(seal) : ExpectedKeys(seal)[j] # None
           /\ Len(seal.chain) = Len(ExpectedKeys(seal))
           /\ seal.eng.bs > 0 => Len(seal.chain) = Len(TokensOf(seal)) \div seal.eng.bs
           /\ seal.eng.bs < 0 => Len(seal.chain) = 0
<1> DEFINE seal == Map(s)
           keys == ExpectedKeys(seal)
<1>1. s \in Label /\ IsSealRecord(seal) /\ Walkable(seal) /\ LengthHolds(seal)
  BY DEF Verified
<1> HIDE DEF keys
<1>2. /\ seal.prompt \in Seq(Nat) /\ seal.out \in Seq(Nat)
      /\ seal.eng.bs \in Int
      /\ seal.chain \in Seq({Digest(Bytes[b]) : b \in Label})
      /\ \A j \in DOMAIN keys : keys[j] # None
  BY <1>1, ObjectAssumption, Zenon DEF keys
<1>3. seal.eng.bs # 0
  BY <1>1 DEF Walkable
<1>4. Len(seal.chain) \in Nat
  BY <1>2, LenProperties
<1>5. TokensOf(seal) \in Seq(Nat) /\ Len(TokensOf(seal)) \in Nat
  <2>1. seal.prompt \o seal.out \in Seq(Nat)
    BY <1>2
  <2> QED BY <2>1, LenProperties DEF TokensOf
<1>6. Len(seal.chain) = Len(keys)
  BY <1>1 DEF LengthHolds, keys
<1>7. Len(keys) = FullBlocks(Len(TokensOf(seal)), seal.eng.bs)
  BY <1>2, <1>3, <1>5, OneKeyPerBlock DEF keys
<1> HIDE DEF seal
<1>8. /\ seal.eng.bs > 0 => Len(seal.chain) = Len(TokensOf(seal)) \div seal.eng.bs
      /\ seal.eng.bs < 0 => Len(seal.chain) = 0
  BY <1>2, <1>3, <1>5, <1>6, <1>7, FullBlocksOf
<1> QED BY <1>1, <1>2, <1>3, <1>4, <1>5, <1>6, <1>8 DEF keys, seal

LEMMA VerifiedIsWitnessed ==
    ASSUME NEW s, Verified(s) PROVE Witnessed(s)
<1> DEFINE seal == Map(s)
           bs == seal.eng.bs
<1>1. /\ seal.prompt \in Seq(Nat) /\ seal.out \in Seq(Nat)
      /\ bs \in Int \ {0} /\ Len(seal.chain) \in Nat
      /\ Len(TokensOf(seal)) \in Nat
      /\ Len(seal.chain) = Len(ExpectedKeys(seal))
      /\ bs > 0 => Len(seal.chain) = Len(TokensOf(seal)) \div bs
      /\ bs < 0 => Len(seal.chain) = 0
  BY VerifiedParts
<1>2. ASSUME NEW i \in 1 .. Len(seal.chain)
      PROVE  WitnessesBlock(Map(Named(seal.chain[i])), seal, i)
  <2>1. RecordHolds(seal, i, Bytes[Named(seal.chain[i])])
    <3>1. i < Len(seal.chain) + 1
      BY <1>1
    <3> QED BY <3>1 DEF Verified, RecordsHold
  <2> HIDE DEF seal
  <2>2. bs \in Nat \ {0}
    BY <1>1
  <2> QED BY <1>1, <2>1, <2>2, RecordWitnesses DEF Map
<1>3. Len(seal.chain) = IF bs > 0 THEN Len(TokensOf(seal)) \div bs ELSE 0
  <2> HIDE DEF seal
  <2> QED BY <1>1
<1> QED BY <1>2, <1>3 DEF Witnessed

\* Whatever lies in the store, whoever wrote it, and whatever happens to files
\* while the audit runs: the records of a seal that verify_chain passed carry, at
\* their places, exactly the tokens of the full blocks the seal names: none if it
\* names a block size below zero, for which witness.py counts no block.
THEOREM PassedSealsAreWitnessed == Spec => []PassedIsWitnessed
<1>1. Init => VerdictInv
  BY DEF Init, VerdictInv, ReportIsSound
<1>2. VerdictInv => PassedIsWitnessed
  BY VerifiedIsWitnessed DEF VerdictInv, PassedIsWitnessed
<1> QED BY <1>1, <1>2, VerdictStep, TypeCorrect, PTL DEF Spec

-----------------------------------------------------------------------------
(* The keys of a passed seal, and its name. *)

\* What the i-th record of a seal that verify_chain accepted says.
LEMMA VerifiedRecord ==
    ASSUME NEW s, Verified(s), NEW i \in 1 .. Len(Map(s).chain)
    PROVE  LET seal == Map(s)
               rec == Map(Named(seal.chain[i]))
           IN  /\ seal.eng.bs \in Nat \ {0}
               /\ i \in 1 .. (Len(TokensOf(seal)) \div seal.eng.bs)
               /\ FullBlocks(Len(TokensOf(seal)), seal.eng.bs)
                     = Len(TokensOf(seal)) \div seal.eng.bs
               /\ rec.i = i - 1 /\ rec.bk = ExpectedKeys(seal)[i]
               /\ rec.toks = BlockTokens(TokensOf(seal), seal.eng.bs, i)
               /\ rec.toks = Block(TokensOf(seal), seal.eng.bs, i)
<1> DEFINE seal == Map(s)
           bs == seal.eng.bs
           tokens == TokensOf(seal)
           keys == ExpectedKeys(seal)
           chain == seal.chain
           rec == Map(Named(chain[i]))
<1>1. /\ bs \in Int \ {0} /\ Len(chain) \in Nat
      /\ \A j \in DOMAIN keys : keys[j] # None
      /\ tokens \in Seq(Nat) /\ Len(tokens) \in Nat
      /\ Len(chain) = Len(keys)
      /\ bs > 0 => Len(chain) = Len(tokens) \div bs
      /\ bs < 0 => Len(chain) = 0
  BY VerifiedParts
<1>2. DOMAIN keys = 1 .. Len(keys)
  BY <1>1, OneKeyPerBlock
<1>3. RecordHolds(seal, i, Bytes[Named(chain[i])])
  <2>1. i < Len(chain) + 1
    BY <1>1
  <2> QED BY <2>1 DEF Verified, RecordsHold
<1>4. /\ Field(rec, "i", None) = i - 1
      /\ i <= Len(keys) => Field(rec, "bk", None) = keys[i]
      /\ Field(rec, "toks", <<>>) = BlockTokens(tokens, bs, i)
  BY <1>3 DEF RecordHolds, Map
<1>5. i \in 1 .. Len(chain)
  OBVIOUS
<1> HIDE DEF seal, bs, tokens, keys, chain, rec
<1>6. bs \in Nat \ {0} /\ bs > 0
  BY <1>1, <1>5
<1>7. i \in 1 .. (Len(tokens) \div bs)
  BY <1>1, <1>5, <1>6
<1>8. FullBlocks(Len(tokens), bs) = Len(tokens) \div bs
  BY <1>1, <1>6, FullBlocksOf
<1>9. rec.i = i - 1
  <2>1. i - 1 # None
    <3>1. i - 1 \in Nat
      BY <1>5, <1>1
    <3> QED BY <3>1, ObjectAssumption
  <2> QED BY <1>4, <2>1 DEF Field
<1>10. rec.bk = keys[i]
  <2>1. i \in DOMAIN keys /\ i <= Len(keys)
    BY <1>1, <1>2, <1>5
  <2>2. keys[i] # None
    BY <1>1, <2>1
  <2> QED BY <1>4, <2>1, <2>2 DEF Field
<1>11. BlockTokens(tokens, bs, i) = [k \in 1 .. bs |-> tokens[(i - 1) * bs + k]]
  BY <1>1, <1>6, <1>7, FullBlockTokens
<1>12. rec.toks = BlockTokens(tokens, bs, i)
  <2>1. BlockTokens(tokens, bs, i) # << >>
    <3>1. 1 \in DOMAIN BlockTokens(tokens, bs, i)
      BY <1>6, <1>11
    <3> QED BY <3>1
  <2> QED BY <1>4, <2>1 DEF Field
<1>13. Block(tokens, bs, i) = BlockTokens(tokens, bs, i)
  BY <1>1, <1>6, <1>7, <1>11, FullBlockIsHashed
<1> QED BY <1>6, <1>7, <1>8, <1>9, <1>10, <1>12, <1>13 DEF seal, bs, tokens, keys, chain, rec

\* A seal that verify_chain accepted: the key in each of its records is the hash
\* of the key before it and of its own tokens.
LEMMA VerifiedKeysFollow ==
    ASSUME NEW s, Verified(s), NEW i \in 1 .. Len(Map(s).chain)
    PROVE  LET rec(j) == Map(Named(Map(s).chain[j]))
           IN  rec(i).bk = BlockKey(IF i = 1 THEN NoneHash(Map(s).eng.seed)
                                    ELSE rec(i - 1).bk,
                                    rec(i).toks, NoExtra)
<1> DEFINE seal == Map(s)
           bs == seal.eng.bs
           tokens == TokensOf(seal)
           keys == ExpectedKeys(seal)
           rec(j) == Map(Named(seal.chain[j]))
<1>1. /\ rec(i).bk = keys[i] /\ rec(i).toks = Block(tokens, bs, i)
      /\ i \in 1 .. FullBlocks(Len(tokens), bs)
  BY VerifiedRecord
<1>2. FullBlocks(Len(tokens), bs) \in Nat
  <2>1. Len(tokens) \in Nat /\ bs \in Int \ {0}
    BY VerifiedParts
  <2> QED BY <2>1, FullBlocksOf
<1>3. keys[i] = BlockKey(IF i = 1 THEN NoneHash(seal.eng.seed) ELSE keys[i - 1],
                         Block(tokens, bs, i), NoExtra)
  <2> HIDE DEF tokens, bs
  <2>1. keys = ChainBlockKeys(tokens, bs, NoExtra, seal.eng.seed)
    BY DEF ExpectedKeys, tokens, bs
  <2> HIDE DEF seal, keys
  <2> QED BY <1>1, <1>2, <2>1, KeysAreChained
<1>4. i # 1 => rec(i - 1).bk = keys[i - 1]
  <2>1. SUFFICES ASSUME i # 1 PROVE rec(i - 1).bk = keys[i - 1]
    OBVIOUS
  <2>2. i - 1 \in 1 .. Len(seal.chain)
    <3>1. Len(seal.chain) \in Nat
      BY VerifiedParts
    <3> HIDE DEF seal
    <3> QED BY <2>1, <3>1 DEF seal
  <2> QED BY <2>2, VerifiedRecord
<1> HIDE DEF seal, keys, rec
<1> QED BY <1>1, <1>3, <1>4 DEF seal, rec

\* Whoever holds the records of a passed seal can follow its keys from the root,
\* without the seal's token stream and without the engine.
THEOREM KeysOfPassedSealsFollow == Spec => []KeysFollow
<1>1. Init => VerdictInv
  BY DEF Init, VerdictInv, ReportIsSound
<1>2. VerdictInv => KeysFollow
  BY VerifiedKeysFollow DEF VerdictInv, KeysFollow
<1> QED BY <1>1, <1>2, VerdictStep, TypeCorrect, PTL DEF Spec

\* A passed seal has been encoded again.
CanonicalPassed == \A s \in passed : CanonicalHolds(Map(s), Bytes[s])

LEMMA CanonicalStep == CanonicalPassed /\ [Next]_vars => CanonicalPassed'
<1> SUFFICES ASSUME CanonicalPassed, [Next]_vars PROVE CanonicalPassed'
  OBVIOUS
<1>1. CASE CloseSeal
  BY <1>1 DEF CloseSeal, CanonicalPassed
<1>2. CASE passed' = passed
  BY <1>2 DEF CanonicalPassed
<1>3. CASE Environment
  BY <1>2, <1>3 DEF Environment, Serve, Put, Abandon, Damage, Lose, Fault, verdictVars
<1>4. CASE List \/ Select \/ CheckRecord \/ Exit \/ UNCHANGED vars
  BY <1>2, <1>4 DEF List, Select, CheckRecord, Exit, vars, verdictVars
<1>5. ASSUME NEW o \in Label, Read(o) \/ OpenSeal(o) PROVE CanonicalPassed'
  BY <1>2, <1>5 DEF Read, OpenSeal, verdictVars
<1> QED BY <1>1, <1>3, <1>4, <1>5 DEF Next, Audit, Over

\* The records of two accepted seals that say they are of one inference agree.
LEMMA SameInferenceSameRecords ==
    ASSUME NEW s, NEW t, Verified(s), Verified(t), Inference(Map(s)) = Inference(Map(t))
    PROVE  LET b == Map(s).chain  c == Map(t).chain
           IN  /\ Len(b) = Len(c)
               /\ \A i \in 1 .. Len(b) :
                     LET p == Map(Named(b[i]))  q == Map(Named(c[i]))
                     IN  p.i = q.i /\ p.bk = q.bk /\ p.toks = q.toks
<1> DEFINE x == Map(s)
           y == Map(t)
<1>1. x.eng = y.eng /\ TokensOf(x) = TokensOf(y) /\ ExpectedKeys(x) = ExpectedKeys(y)
  <2>1. x.eng = y.eng /\ x.prompt = y.prompt /\ x.out = y.out
    BY DEF Inference
  <2> QED BY <2>1 DEF TokensOf, ExpectedKeys
<1>2. Len(x.chain) = Len(y.chain)
  BY <1>1, VerifiedParts
<1>3. ASSUME NEW i \in 1 .. Len(x.chain)
      PROVE  LET p == Map(Named(x.chain[i]))  q == Map(Named(y.chain[i]))
             IN  p.i = q.i /\ p.bk = q.bk /\ p.toks = q.toks
  <2> DEFINE p == Map(Named(x.chain[i]))
             q == Map(Named(y.chain[i]))
  <2>1. /\ p.i = i - 1 /\ p.bk = ExpectedKeys(x)[i]
        /\ p.toks = BlockTokens(TokensOf(x), x.eng.bs, i)
    BY VerifiedRecord
  <2>2. /\ q.i = i - 1 /\ q.bk = ExpectedKeys(y)[i]
        /\ q.toks = BlockTokens(TokensOf(y), y.eng.bs, i)
    BY <1>2, VerifiedRecord
  <2> HIDE DEF x, y, p, q
  <2>3. p.i = q.i /\ p.bk = q.bk /\ p.toks = q.toks
    BY <1>1, <2>1, <2>2
  <2> QED BY <2>3 DEF p, q
<1> QED BY <1>2, <1>3

\* Accepted seals of one inference that bind the same records, down to their bytes,
\* are one object: the chain is the digests of the records, and a seal is accepted in
\* one form only.
LEMMA SameRecordsSameSeal ==
    ASSUME NEW s, NEW t, Verified(s), Verified(t),
           CanonicalHolds(Map(s), Bytes[s]), CanonicalHolds(Map(t), Bytes[t]),
           Inference(Map(s)) = Inference(Map(t)),
           \A i \in 1 .. Len(Map(s).chain) :
              Bytes[Named(Map(s).chain[i])] = Bytes[Named(Map(t).chain[i])]
    PROVE  s = t
<1> DEFINE b == Map(s).chain
           c == Map(t).chain
<1>1. /\ s \in Label /\ t \in Label /\ Len(b) = Len(c) /\ Len(b) \in Nat
      /\ b \in Seq({Digest(Bytes[k]) : k \in Label})
      /\ c \in Seq({Digest(Bytes[k]) : k \in Label})
  BY VerifiedParts, SameInferenceSameRecords
<1>2. ASSUME NEW i \in 1 .. Len(b) PROVE b[i] = c[i]
  <2>1. Digest(Bytes[Named(b[i])]) = b[i]
    BY ChainNames DEF Verified
  <2>2. Digest(Bytes[Named(c[i])]) = c[i]
    BY <1>1, ChainNames DEF Verified
  <2>3. Bytes[Named(b[i])] = Bytes[Named(c[i])]
    OBVIOUS
  <2> HIDE DEF b, c
  <2> QED BY <2>1, <2>2, <2>3
<1>3. b = c
  <2> HIDE DEF b, c
  <2> QED BY <1>1, <1>2
<1>4. EncodeSeal(Map(s).eng, Map(s).samp, Map(s).prompt, Map(s).out, b)
         = EncodeSeal(Map(t).eng, Map(t).samp, Map(t).prompt, Map(t).out, c)
  <2> HIDE DEF b, c
  <2> QED BY <1>3 DEF Inference
<1>5. Bytes[s] = Bytes[t]
  BY <1>4 DEF CanonicalHolds
<1> QED BY <1>1, <1>5, AuditAssumption

\* Two passed seals of one inference witness the same tokens under the same keys, and
\* have two labels only if their records differ: a seal that was written in another
\* form, or with bytes behind its end, does not pass (witness.py, verify_chain).
THEOREM InferencesHaveOneLabel == Spec => []OneLabelPerInference
<1>1. Init => CanonicalPassed /\ VerdictInv
  BY DEF Init, CanonicalPassed, VerdictInv, ReportIsSound
<1>2. VerdictInv /\ CanonicalPassed => OneLabelPerInference
  BY SameInferenceSameRecords, SameRecordsSameSeal
     DEF VerdictInv, CanonicalPassed, OneLabelPerInference
<1> QED BY <1>1, <1>2, CanonicalStep, VerdictStep, TypeCorrect, PTL DEF Spec

-----------------------------------------------------------------------------
(* What the audit does with the labels it listed. *)

\* The object is in the store, or was lost from it.
There(o) == file[o] # "absent" \/ o \in lost

\* The seals the audit has come across.
InHands == seals \cup passed \cup failed \cup ({current} \ {None})

\* The seals the report is about.
Selected(o) == TypedSeal(o) /\ wanted \in {None, o}

\* A read label that is a seal is kept, or was refused, or has vanished.
ReadSoFar == \A o \in listed \ toRead : TypedSeal(o) => o \in seals \cup corrupt \cup lost

\* No selected seal of the listing drops out of the report.
NothingForgotten == \A o \in listed : Selected(o) => o \in InHands \cup corrupt \cup lost

\* What holds in which phase of the command.
ListingInv ==
    /\ \A o \in listed : There(o)
    /\ InHands \subseteq listed
    /\ phase = "idle" => listed = {}

PhaseInv ==
    /\ phase = "reading" => ReadSoFar
    /\ phase = "verifying" => NothingForgotten /\ InHands \cup corrupt # {}
    /\ phase # "verifying" => current = None
    /\ phase # "exited" => exit = None

CleanBillInv ==
    exit = 0 =>
        /\ phase = "exited" /\ NothingForgotten
        /\ seals = {} /\ corrupt = {} /\ failed = {} /\ passed # {}

\* Once an object is in the store it stays there or is lost.
LEMMA ThereStays ==
    ASSUME TypeOK, [Next]_vars, NEW o \in Label, There(o) PROVE There(o)'
<1>1. CASE UNCHANGED <<file, lost>>
  BY <1>1 DEF There
<1>2. CASE Put
  <2>1. Head(putting) \in Label
    BY <1>2 DEF Put, TypeOK
  <2> QED BY <1>2, <2>1 DEF Put, faultVars, There, TypeOK
<1>3. ASSUME NEW b \in Label, Damage(b) PROVE There(o)'
  BY <1>3 DEF Damage, Fault, There, TypeOK
<1>4. ASSUME NEW b \in Label, Lose(b) PROVE There(o)'
  BY <1>4 DEF Lose, Fault, There, TypeOK
<1>5. ASSUME NEW r \in Request, Serve(r) PROVE There(o)'
  BY <1>1, <1>5 DEF Serve, faultVars
<1>6. CASE Abandon \/ List \/ Select \/ CheckRecord \/ CloseSeal \/ Exit \/ UNCHANGED vars
  BY <1>1, <1>6 DEF Abandon, List, Select, CheckRecord, CloseSeal, Exit, vars, faultVars
<1>7. ASSUME NEW b \in Label, Read(b) \/ OpenSeal(b) PROVE There(o)'
  BY <1>1, <1>7 DEF Read, OpenSeal, faultVars
<1> QED BY <1>2, <1>3, <1>4, <1>5, <1>6, <1>7 DEF Next, Environment, Audit, Over

\* The environment does not touch what the command holds.
LEMMA EnvironmentFrame ==
    ASSUME Environment
    PROVE  /\ UNCHANGED <<phase, readVars, corrupt, reportVars, verdictVars, exit>>
           /\ lost \subseteq lost' /\ damaged \subseteq damaged'
BY DEF Environment, Serve, Put, Abandon, Damage, Lose, Fault, faultVars

LEMMA ListingStep == TypeOK /\ ListingInv /\ PhaseInv /\ [Next]_vars => ListingInv'
<1> SUFFICES ASSUME TypeOK, ListingInv, PhaseInv, [Next]_vars PROVE ListingInv'
  OBVIOUS
<1>1. CASE List
  <2>1. InHands' = {}
    <3>1. InHands = {}
      BY <1>1 DEF List, ListingInv
    <3> QED BY <1>1, <3>1 DEF List, InHands, reportVars, verdictVars
  <2>2. \A o \in listed' : There(o)'
    BY <1>1 DEF List, There
  <2>3. phase' # "idle"
    BY <1>1 DEF List
  <2> QED BY <2>1, <2>2, <2>3 DEF ListingInv
<1>2. CASE ~List
  <2>1. listed' = listed /\ (phase' = "idle" => phase = "idle")
    <3>1. CASE Environment
      BY <3>1, EnvironmentFrame DEF readVars
    <3>2. ASSUME NEW o \in Label, Read(o) \/ OpenSeal(o)
          PROVE  listed' = listed /\ (phase' = "idle" => phase = "idle")
      BY <3>2 DEF Read, OpenSeal
    <3>3. CASE Select \/ CheckRecord \/ CloseSeal \/ Exit \/ UNCHANGED vars
      BY <3>3 DEF Select, CheckRecord, CloseSeal, Exit, vars, readVars
    <3> QED BY <1>2, <3>1, <3>2, <3>3 DEF Next, Audit, Over
  <2>2. \A o \in listed' : There(o)'
    BY <2>1, ThereStays DEF ListingInv, TypeOK
  <2>3. InHands' \subseteq listed
    <3>1. CASE Environment
      BY <3>1, EnvironmentFrame DEF ListingInv, InHands, readVars, reportVars, verdictVars
    <3>2. ASSUME NEW o \in Label, Read(o) PROVE InHands' \subseteq listed
      BY <3>2 DEF Read, ListingInv, InHands, reportVars, verdictVars, TypeOK
    <3>3. ASSUME NEW o \in Label, OpenSeal(o) PROVE InHands' \subseteq listed
      <4>1. o \in listed /\ seals' \subseteq seals /\ passed' = passed
        BY <3>3 DEF OpenSeal, ListingInv, InHands
      <4>2. \/ current' = o /\ failed' = failed
            \/ current' = current /\ failed' = failed \cup {o}
        BY <3>3 DEF OpenSeal, reportVars
      <4> QED BY <4>1, <4>2 DEF ListingInv, InHands
    <3>4. CASE CloseSeal
      BY <3>4 DEF CloseSeal, ListingInv, InHands, readVars
    <3>5. CASE Select
      BY <3>5 DEF Select, ListingInv, InHands, reportVars, verdictVars
    <3>6. CASE CheckRecord \/ Exit \/ UNCHANGED vars
      BY <3>6 DEF CheckRecord, Exit, vars, ListingInv, InHands, readVars, reportVars, verdictVars
    <3> QED BY <1>2, <3>1, <3>2, <3>3, <3>4, <3>5, <3>6 DEF Next, Audit, Over
  <2> QED BY <2>1, <2>2, <2>3 DEF ListingInv
<1> QED BY <1>1, <1>2

LEMMA PhaseStep ==
    TypeOK /\ ListingInv /\ PhaseInv /\ CleanBillInv /\ [Next]_vars => PhaseInv' /\ CleanBillInv'
<1> SUFFICES ASSUME TypeOK, ListingInv, PhaseInv, CleanBillInv, [Next]_vars
             PROVE  PhaseInv' /\ CleanBillInv'
  OBVIOUS
<1>1. CASE Environment
  <2>1. /\ UNCHANGED <<phase, readVars, corrupt, reportVars, verdictVars, exit>>
        /\ lost \subseteq lost'
    BY <1>1, EnvironmentFrame
  <2>2. /\ InHands' = InHands
        /\ ReadSoFar => ReadSoFar'
        /\ NothingForgotten => NothingForgotten'
    BY <2>1 DEF InHands, ReadSoFar, NothingForgotten, Selected, readVars, reportVars, verdictVars
  <2> QED BY <2>1, <2>2 DEF PhaseInv, CleanBillInv, readVars, reportVars, verdictVars
<1>2. CASE List
  <2>1. /\ phase' = "reading" /\ toRead' = listed' /\ current' = current
        /\ exit' = exit /\ exit = None /\ current = None
    BY <1>2 DEF List, PhaseInv, reportVars
  <2>2. ReadSoFar'
    BY <2>1 DEF ReadSoFar
  <2>3. exit' # 0
    BY <2>1, ObjectAssumption
  <2> QED BY <2>1, <2>2, <2>3 DEF PhaseInv, CleanBillInv
<1>3. ASSUME NEW o \in Label, Read(o) PROVE PhaseInv' /\ CleanBillInv'
  <2>1. /\ phase = "reading" /\ phase' = "reading" /\ current' = current /\ exit' = exit
        /\ exit = None /\ current = None /\ listed' = listed /\ lost' = lost
        /\ toRead' = toRead \ {o} /\ o \in listed
        /\ corrupt \subseteq corrupt' /\ seals \subseteq seals'
    BY <1>3 DEF Read, PhaseInv, reportVars, TypeOK, faultVars
  <2>2. TypedSeal(o) => o \in seals' \cup corrupt' \cup lost'
    <3>1. CASE file[o] = "good"
      <4>1. Fetched(o) # None
        BY <3>1, ObjectAssumption DEF Fetched
      <4> QED BY <1>3, <4>1 DEF Read
    <3>2. CASE file[o] = "bad"
      BY <1>3, <3>2 DEF Read, Refused
    <3>3. CASE file[o] = "absent"
      BY <2>1, <3>3 DEF ListingInv, There
    <3> QED BY <3>1, <3>2, <3>3 DEF TypeOK
  <2>3. ReadSoFar'
    <3>1. ASSUME NEW b \in listed, b \notin toRead', TypedSeal(b)
          PROVE  b \in seals' \cup corrupt' \cup lost'
      <4>1. CASE b = o
        BY <2>2, <3>1, <4>1
      <4>2. CASE b # o
        BY <2>1, <3>1, <4>2 DEF PhaseInv, ReadSoFar
      <4> QED BY <4>1, <4>2
    <3> QED BY <2>1, <3>1 DEF ReadSoFar, TypedSeal
  <2>4. exit' # 0
    BY <2>1, ObjectAssumption
  <2> QED BY <2>1, <2>3, <2>4 DEF PhaseInv, CleanBillInv
<1>4. CASE Select
  <2>1. /\ phase = "reading" /\ toRead = {} /\ current = None /\ current' = None
        /\ exit = None /\ exit' # 0 /\ ReadSoFar
        /\ listed' = listed /\ lost' = lost /\ corrupt' = corrupt /\ wanted' = wanted
        /\ passed' = passed /\ failed' = failed
        /\ seals' = IF wanted = None THEN seals ELSE seals \cap {wanted}
    BY <1>4, ObjectAssumption DEF Select, PhaseInv, reportVars, verdictVars, faultVars
  <2>2. \/ phase' = "exited"
        \/ phase' = "verifying" /\ seals' \cup corrupt' # {} /\ exit' = exit
    BY <1>4 DEF Select
  <2>3. NothingForgotten'
    BY <2>1 DEF ReadSoFar, NothingForgotten, Selected, InHands, TypedSeal
  <2>4. phase' = "verifying" => InHands' \cup corrupt' # {}
    BY <2>2 DEF InHands
  <2> QED BY <2>1, <2>2, <2>3, <2>4 DEF PhaseInv, CleanBillInv
<1>5. ASSUME NEW s \in Label, OpenSeal(s) PROVE PhaseInv' /\ CleanBillInv'
  <2>1. /\ phase = "verifying" /\ phase' = "verifying" /\ exit' = exit /\ exit = None
        /\ current = None /\ seals' = seals \ {s} /\ passed' = passed
        /\ corrupt' = corrupt /\ wanted' = wanted /\ listed' = listed /\ lost' = lost
    BY <1>5 DEF OpenSeal, PhaseInv, faultVars
  <2>2. \/ current' = s /\ failed' = failed
        \/ current' = current /\ failed' = failed \cup {s}
    BY <1>5 DEF OpenSeal, reportVars
  <2>3. InHands \subseteq InHands'
    BY <2>1, <2>2, ObjectAssumption DEF InHands
  <2>4. NothingForgotten' /\ InHands' \cup corrupt' # {}
    BY <2>1, <2>3 DEF PhaseInv, NothingForgotten, Selected, TypedSeal
  <2>5. exit' # 0
    BY <2>1, ObjectAssumption
  <2> QED BY <2>1, <2>4, <2>5 DEF PhaseInv, CleanBillInv
<1>6. CASE CheckRecord
  <2>1. /\ phase' = phase /\ phase = "verifying" /\ exit' = exit /\ exit = None
        /\ corrupt \subseteq corrupt' /\ wanted' = wanted /\ listed' = listed /\ lost' = lost
        /\ InHands' = InHands
    BY <1>6 DEF CheckRecord, PhaseInv, InHands, readVars, verdictVars, faultVars
  <2>2. NothingForgotten' /\ InHands' \cup corrupt' # {}
    BY <2>1 DEF PhaseInv, NothingForgotten, Selected, TypedSeal
  <2>3. exit' # 0
    BY <2>1, ObjectAssumption
  <2> QED BY <2>1, <2>2, <2>3 DEF PhaseInv, CleanBillInv
<1>7. CASE CloseSeal
  <2>1. /\ phase' = phase /\ phase = "verifying" /\ exit' = exit /\ exit = None
        /\ corrupt' = corrupt /\ wanted' = wanted /\ listed' = listed /\ lost' = lost
        /\ InHands' = InHands
    BY <1>7 DEF CloseSeal, PhaseInv, InHands, readVars, faultVars
  <2>2. NothingForgotten' /\ InHands' \cup corrupt' # {}
    BY <2>1 DEF PhaseInv, NothingForgotten, Selected, TypedSeal
  <2>3. exit' # 0
    BY <2>1, ObjectAssumption
  <2> QED BY <2>1, <2>2, <2>3 DEF PhaseInv, CleanBillInv
<1>8. CASE Exit
  <2>1. /\ phase = "verifying" /\ phase' = "exited" /\ current = None /\ current' = None
        /\ seals = {} /\ seals' = {} /\ exit' = ExitCode /\ corrupt' = corrupt
        /\ failed' = failed /\ passed' = passed
        /\ wanted' = wanted /\ listed' = listed /\ lost' = lost
    BY <1>8 DEF Exit, readVars, reportVars, verdictVars, faultVars
  <2>2. NothingForgotten' /\ InHands \cup corrupt # {}
    BY <2>1 DEF PhaseInv, NothingForgotten, InHands, Selected, TypedSeal
  <2>3. exit' = 0 => failed = {} /\ corrupt = {} /\ passed # {}
    BY <2>1, <2>2 DEF ExitCode, InHands
  <2> QED BY <2>1, <2>2, <2>3 DEF PhaseInv, CleanBillInv
<1>9. CASE UNCHANGED vars
  BY <1>9 DEF vars, PhaseInv, CleanBillInv, InHands, ReadSoFar, NothingForgotten, Selected,
              TypedSeal, readVars, reportVars, verdictVars, faultVars
<1> QED BY <1>1, <1>2, <1>3, <1>4, <1>5, <1>6, <1>7, <1>8, <1>9 DEF Next, Audit, Over

LEMMA InitListing == Init => ListingInv /\ PhaseInv /\ CleanBillInv
<1> SUFFICES ASSUME Init PROVE ListingInv /\ PhaseInv /\ CleanBillInv
  OBVIOUS
<1>1. /\ listed = {} /\ InHands = {} /\ phase = "idle" /\ current = None /\ exit = None
  BY DEF Init, InHands
<1>2. exit # 0
  BY <1>1, ObjectAssumption
<1> QED BY <1>1, <1>2 DEF ListingInv, PhaseInv, CleanBillInv

\* The three parts are invariant together with the types.
LEMMA ListingHolds == Spec => [](TypeOK /\ ListingInv /\ PhaseInv /\ CleanBillInv)
<1>1. TypeOK /\ ListingInv /\ PhaseInv /\ CleanBillInv /\ [Next]_vars
        => ListingInv' /\ PhaseInv' /\ CleanBillInv'
  BY ListingStep, PhaseStep
<1> QED BY <1>1, InitListing, TypeCorrect, PTL DEF Spec

\* Exit code 0 means that every selected seal that was there when the store was
\* listed has passed, except one that vanished: however many files are damaged or
\* lost, and whatever is put, while the audit runs.
THEOREM ZeroMeansClean == Spec => []ZeroIsACleanBill
<1>1. PhaseInv /\ CleanBillInv => ZeroIsACleanBill
  BY DEF PhaseInv, CleanBillInv, NothingForgotten, Selected, InHands, ZeroIsACleanBill
<1> QED BY <1>1, ListingHolds, PTL

-----------------------------------------------------------------------------
(* Why a seal of the system can be refused. *)

\* One of the objects the seal binds was damaged or lost.
Hurt(s) == Bound(s) \cap (damaged \cup lost) # {}

\* A seal of the system is never there before its records.
RecordsFirst ==
    \A r \in Request : There(SealOf[r]) => \A o \in Bound(SealOf[r]) : There(o)

\* What is still to be put is the rest of one request, the beginning of which is
\* there.
PutInOrder ==
    putting # <<>> =>
        \E r \in Request : \E n \in 0 .. Len(PutsOf[r]) - 1 :
            /\ putting = SubSeq(PutsOf[r], n + 1, Len(PutsOf[r]))
            /\ \A i \in 1 .. n : There(PutsOf[r][i])

\* The report on a seal of the system is not ok only if there is a cause.
DoubtHasACause ==
    \A r \in Request : current = SealOf[r] /\ ~ok => Hurt(SealOf[r])

CauseInv == RecordsFirst /\ PutInOrder /\ DoubtHasACause /\ RefusalHasACause

LEMMA BoundType ==
    ASSUME NEW r \in Request PROVE Bound(SealOf[r]) \subseteq Label
<1>1. DOMAIN PutsOf[r] = 1 .. Len(RecordsOf(r)) + 1 /\ PutsOf[r] \in Seq(Label)
  BY PutsAreTheChain
<1>2. \A i \in 1 .. Len(RecordsOf(r)) : i \in 1 .. Len(RecordsOf(r)) + 1
  BY PutsAreTheChain
<1>3. \A i \in 1 .. Len(RecordsOf(r)) : PutsOf[r][i] \in Label
  BY <1>1, <1>2, PutsAreTheChain
<1>4. Bound(SealOf[r]) = {PutsOf[r][i] : i \in 1 .. Len(RecordsOf(r))}
  BY SealBinds
<1> QED BY <1>3, <1>4, Zenon

\* The order of the puts survives the first step of putting: the head of what is
\* left comes to lie in the store, and a seal is the last of it.
LEMMA PutKeepsOrder ==
    ASSUME TypeOK, RecordsFirst, PutInOrder, Put
    PROVE  RecordsFirst' /\ PutInOrder'
<1>0. PICK r \in Request : \E n \in 0 .. Len(PutsOf[r]) - 1 :
        /\ putting = SubSeq(PutsOf[r], n + 1, Len(PutsOf[r]))
        /\ \A i \in 1 .. n : There(PutsOf[r][i])
  BY DEF Put, PutInOrder
<1>1. PICK n \in 0 .. Len(PutsOf[r]) - 1 :
        /\ putting = SubSeq(PutsOf[r], n + 1, Len(PutsOf[r]))
        /\ \A i \in 1 .. n : There(PutsOf[r][i])
  BY <1>0
<1> DEFINE puts == PutsOf[r]
           m == Len(RecordsOf(r))
<1>2. /\ m \in Nat /\ puts \in Seq(Label) /\ Len(puts) = m + 1 /\ puts[m + 1] = SealOf[r]
  BY PutsAreTheChain
<1>3. n + 1 \in 1 .. m + 1 /\ n \in Nat
  BY <1>2
<1>4. /\ Head(putting) = puts[n + 1]
      /\ Tail(putting) = SubSeq(puts, n + 2, Len(puts))
  BY <1>1, <1>2, <1>3
<1>5. /\ putting' = SubSeq(puts, n + 2, Len(puts)) /\ lost' = lost
      /\ file' = [file EXCEPT ![puts[n + 1]] = IF @ = "absent" THEN "good" ELSE @]
  BY <1>4 DEF Put, faultVars
<1>6. \A i \in 1 .. m + 1 : puts[i] \in Label
  BY <1>2
<1>7. \A o \in Label : There(o)' <=> There(o) \/ o = puts[n + 1]
  <2> TAKE o \in Label
  <2>1. puts[n + 1] \in Label
    BY <1>3, <1>6
  <2> HIDE DEF puts
  <2> QED BY <1>5, <2>1 DEF There, TypeOK
<1>8. ASSUME NEW i \in 1 .. n + 1 PROVE There(puts[i])'
  <2>1. i \in 1 .. m + 1
    BY <1>3
  <2>2. i = n + 1 \/ There(puts[i])
    BY <1>1, <1>3
  <2> QED BY <1>6, <1>7, <2>1, <2>2
<1>9. PutInOrder'
  <2>1. CASE n + 1 = m + 1
    <3>1. putting' = <<>>
      BY <1>2, <1>5, <2>1
    <3> QED BY <3>1 DEF PutInOrder
  <2>2. CASE n + 1 # m + 1
    <3>1. n + 1 \in 0 .. Len(puts) - 1 /\ n + 2 = (n + 1) + 1
      BY <1>2, <1>3, <2>2
    <3>2. putting' = SubSeq(puts, (n + 1) + 1, Len(puts))
      BY <1>5, <3>1
    <3> HIDE DEF puts
    <3>3. \E k \in 0 .. Len(puts) - 1 :
            /\ putting' = SubSeq(puts, k + 1, Len(puts))
            /\ \A i \in 1 .. k : There(puts[i])'
      BY <1>8, <3>1, <3>2
    <3> QED BY <3>3 DEF PutInOrder, puts
  <2> QED BY <2>1, <2>2
<1>10. RecordsFirst'
  <2> SUFFICES ASSUME NEW q \in Request, There(SealOf[q])', NEW o \in Bound(SealOf[q])
               PROVE  There(o)'
    BY DEF RecordsFirst
  <2>1. o \in Label /\ SealOf[q] \in Label
    BY BoundType, PutsAreTheChain
  <2>2. CASE There(SealOf[q])
    BY <1>7, <2>1, <2>2 DEF RecordsFirst
  <2>3. CASE ~There(SealOf[q])
    <3>1. SealOf[q] = puts[n + 1]
      BY <1>7, <2>1, <2>3
    <3>2. n + 1 = m + 1
      BY <1>2, <1>3, <3>1, RecordIsNoSeal
    <3>3. Bound(SealOf[q]) = {puts[i] : i \in 1 .. m}
      BY <1>2, <3>1, <3>2, SealBinds
    <3> QED BY <1>8, <3>2, <3>3, <1>2, <1>3
  <2> QED BY <2>2, <2>3
<1> QED BY <1>9, <1>10

LEMMA OrderStep ==
    TypeOK /\ RecordsFirst /\ PutInOrder /\ [Next]_vars => RecordsFirst' /\ PutInOrder'
<1> SUFFICES ASSUME TypeOK, RecordsFirst, PutInOrder, [Next]_vars
             PROVE  RecordsFirst' /\ PutInOrder'
  OBVIOUS
<1>1. CASE Put
  BY <1>1, PutKeepsOrder
<1>2. CASE ~Put
  <2>1. \A o \in Label : There(o) => There(o)'
    BY ThereStays
  <2>2. \A o \in Label : There(o)' => There(o)
    <3>1. CASE UNCHANGED <<file, lost>>
      BY <3>1 DEF There
    <3>2. ASSUME NEW b \in Label, Damage(b) \/ Lose(b)
          PROVE  \A o \in Label : There(o)' => There(o)
      BY <3>2 DEF Damage, Lose, Fault, There, TypeOK
    <3>3. CASE Environment
      BY <1>2, <3>1, <3>2, <3>3 DEF Environment, Serve, Abandon, faultVars
    <3>4. CASE Audit \/ UNCHANGED vars
      BY <3>1, <3>4 DEF Audit, List, Read, Select, OpenSeal, CheckRecord, CloseSeal, Exit,
                        vars, faultVars
    <3> QED BY <3>3, <3>4 DEF Next, Over
  <2>3. RecordsFirst'
    <3>1. \A r \in Request : SealOf[r] \in Label /\ Bound(SealOf[r]) \subseteq Label
      BY BoundType, PutsAreTheChain
    <3> QED BY <2>1, <2>2, <3>1 DEF RecordsFirst
  <2>4. CASE putting' = putting
    <3>1. ASSUME NEW r \in Request, NEW n \in 0 .. Len(PutsOf[r]) - 1, NEW i \in 1 .. n,
                 There(PutsOf[r][i])
          PROVE  There(PutsOf[r][i])'
      <4>1. PutsOf[r] \in Seq(Label) /\ i \in 1 .. Len(PutsOf[r])
        BY PutsAreTheChain
      <4>2. PutsOf[r][i] \in Label
        BY <4>1
      <4> QED BY <2>1, <3>1, <4>2
    <3>2. ASSUME putting' # <<>>
          PROVE  \E r \in Request : \E n \in 0 .. Len(PutsOf[r]) - 1 :
                    /\ putting' = SubSeq(PutsOf[r], n + 1, Len(PutsOf[r]))
                    /\ \A i \in 1 .. n : There(PutsOf[r][i])'
      <4>1. PICK r \in Request : \E n \in 0 .. Len(PutsOf[r]) - 1 :
              /\ putting = SubSeq(PutsOf[r], n + 1, Len(PutsOf[r]))
              /\ \A i \in 1 .. n : There(PutsOf[r][i])
        BY <2>4, <3>2 DEF PutInOrder
      <4>2. PICK n \in 0 .. Len(PutsOf[r]) - 1 :
              /\ putting = SubSeq(PutsOf[r], n + 1, Len(PutsOf[r]))
              /\ \A i \in 1 .. n : There(PutsOf[r][i])
        BY <4>1
      <4>3. \A i \in 1 .. n : There(PutsOf[r][i])'
        BY <3>1, <4>2
      <4> QED BY <2>4, <4>2, <4>3
    <3> QED BY <2>3, <3>2 DEF PutInOrder
  <2>5. CASE Abandon
    BY <2>3, <2>5 DEF Abandon, PutInOrder
  <2>6. ASSUME NEW r \in Request, Serve(r) PROVE PutInOrder'
    <3>1. putting' = PutsOf[r]
      BY <2>6 DEF Serve
    <3>2. PutsOf[r] \in Seq(Label) /\ 0 \in 0 .. Len(PutsOf[r]) - 1
      BY PutsAreTheChain
    <3>3. PutsOf[r] = SubSeq(PutsOf[r], 0 + 1, Len(PutsOf[r]))
      BY <3>2
    <3>4. \A i \in 1 .. 0 : There(PutsOf[r][i])'
      OBVIOUS
    <3> QED BY <3>1, <3>2, <3>3, <3>4 DEF PutInOrder
  <2>7. CASE \E o \in Label : Damage(o) \/ Lose(o)
    BY <2>4, <2>3, <2>7 DEF Damage, Lose, Fault, writerVars
  <2>8. CASE Audit \/ UNCHANGED vars
    BY <2>4, <2>3, <2>8 DEF Audit, List, Read, Select, OpenSeal, CheckRecord, CloseSeal, Exit,
                      vars, writerVars
  <2> QED BY <1>2, <2>3, <2>5, <2>6, <2>7, <2>8 DEF Next, Environment, Over
<1> QED BY <1>1, <1>2

LEMMA HurtStays ==
    ASSUME NEW s, Hurt(s), damaged \subseteq damaged', lost \subseteq lost' PROVE Hurt(s)'
<1>1. Bound(s)' = Bound(s)
  BY DEF Bound, Map
<1> QED BY <1>1 DEF Hurt

LEMMA HurtSteps == [Next]_vars => damaged \subseteq damaged' /\ lost \subseteq lost'
<1> SUFFICES ASSUME [Next]_vars PROVE damaged \subseteq damaged' /\ lost \subseteq lost'
  OBVIOUS
<1>1. CASE Environment
  BY <1>1, EnvironmentFrame
<1>2. CASE Audit \/ UNCHANGED vars
  BY <1>2 DEF Audit, List, Read, Select, OpenSeal, CheckRecord, CloseSeal, Exit, vars, faultVars
<1> QED BY <1>1, <1>2 DEF Next, Over

LEMMA CauseStep ==
    TypeOK /\ ListingInv /\ CauseInv /\ [Next]_vars => DoubtHasACause' /\ RefusalHasACause'
<1> SUFFICES ASSUME TypeOK, ListingInv, CauseInv, [Next]_vars
             PROVE  DoubtHasACause' /\ RefusalHasACause'
  OBVIOUS
<1>1. \A r \in Request : Hurt(SealOf[r]) => Hurt(SealOf[r])'
  BY HurtSteps, HurtStays
<1>2. CASE UNCHANGED <<reportVars, verdictVars>>
  <2>1. current' = current /\ ok' = ok /\ failed' = failed
    BY <1>2 DEF reportVars, verdictVars
  <2>2. RefusalHasACause'
    BY <1>1, <2>1 DEF CauseInv, RefusalHasACause, Hurt, Bound, Map
  <2> QED BY <1>1, <2>1, <2>2 DEF CauseInv, DoubtHasACause
<1>3. ASSUME NEW s \in Label, OpenSeal(s) PROVE DoubtHasACause' /\ RefusalHasACause'
  <2>1. CASE IsSealRecord(Map(s)) /\ Walkable(Map(s))
    <3>1. current' = s /\ ok' = LengthHolds(Map(s)) /\ failed' = failed
      BY <1>3, <2>1 DEF OpenSeal
    <3>2. RefusalHasACause'
      BY <1>1, <3>1 DEF CauseInv, RefusalHasACause, Hurt, Bound, Map
    <3> QED BY <3>1, <3>2, GenuineHolds DEF DoubtHasACause
  <2>2. CASE ~(IsSealRecord(Map(s)) /\ Walkable(Map(s)))
    <3>1. \A r \in Request : s # SealOf[r]
      BY <2>2, GenuineHolds
    <3>2. failed' = failed \cup {s} /\ current' = current /\ ok' = ok
      BY <1>3, <2>2 DEF OpenSeal, reportVars
    <3>3. RefusalHasACause'
      BY <1>1, <3>1, <3>2 DEF CauseInv, RefusalHasACause, Hurt, Bound, Map
    <3> QED BY <1>1, <3>2, <3>3 DEF CauseInv, DoubtHasACause
  <2> QED BY <2>1, <2>2
<1>4. CASE CheckRecord
  <2> DEFINE seal == Map(current)
             o == Named(seal.chain[block])
  <2>1. /\ current \in Label /\ current # None /\ Walkable(seal) /\ IsSealRecord(seal)
        /\ block \in Nat \ {0} /\ block <= Len(seal.chain)
    BY <1>4 DEF CheckRecord, TypeOK
  <2>2. /\ current' = current /\ failed' = failed
        /\ ok' = (ok /\ RecordHolds(seal, block, Fetched(o)))
        /\ damaged' = damaged /\ lost' = lost
    BY <1>4 DEF CheckRecord, verdictVars, faultVars
  <2>3. RefusalHasACause'
    BY <1>1, <2>2 DEF CauseInv, RefusalHasACause, Hurt, Bound, Map
  <2>4. ASSUME NEW r \in Request, current = SealOf[r], ok, ~ok'
        PROVE  Hurt(SealOf[r])
    <3>1. Len(seal.chain) \in Nat
      BY <2>4, SealBinds, PutsAreTheChain
    <3>2. block \in 1 .. Len(seal.chain)
      BY <2>1, <3>1
    <3>3. RecordHolds(seal, block, Bytes[o])
      BY <2>4, <3>2, GenuineHolds
    <3>4. file[o] # "good"
      BY <2>2, <2>4, <3>3 DEF Fetched
    <3>5. o \in Bound(SealOf[r])
      BY <2>4, <3>2 DEF Bound
    <3>6. There(SealOf[r]) /\ o \in Label
      BY <2>1, <2>4, <3>5, BoundType DEF ListingInv, InHands
    <3>7. There(o)
      BY <3>5, <3>6 DEF CauseInv, RecordsFirst
    <3>8. o \in damaged \cup lost
      BY <3>4, <3>6, <3>7 DEF There, TypeOK
    <3> QED BY <3>5, <3>8 DEF Hurt
  <2> QED BY <1>1, <2>2, <2>3, <2>4 DEF CauseInv, DoubtHasACause
<1>5. CASE CloseSeal
  <2>1. current' = None /\ ok'
    BY <1>5 DEF CloseSeal
  <2>2. \A r \in Request : current = SealOf[r] /\ failed' # failed => Hurt(SealOf[r])
    BY <1>5, GenuineHolds DEF CloseSeal, CauseInv, DoubtHasACause
  <2>3. failed' \subseteq failed \cup {current}
    BY <1>5 DEF CloseSeal
  <2>4. RefusalHasACause'
    <3>1. \A r \in Request : SealOf[r] \in failed' => Hurt(SealOf[r])
      BY <2>2, <2>3 DEF CauseInv, RefusalHasACause, Hurt
    <3> QED BY <1>1, <3>1 DEF RefusalHasACause, Hurt, Bound, Map
  <2> QED BY <2>1, <2>4 DEF DoubtHasACause
<1>6. CASE Environment
  BY <1>2, <1>6, EnvironmentFrame
<1>7. ASSUME NEW o \in Label, Read(o) PROVE DoubtHasACause' /\ RefusalHasACause'
  BY <1>2, <1>7 DEF Read
<1>8. CASE List \/ Select \/ Exit \/ UNCHANGED vars
  BY <1>2, <1>8 DEF List, Select, Exit, vars
<1> QED BY <1>3, <1>4, <1>5, <1>6, <1>7, <1>8 DEF Next, Audit, Over

LEMMA InitCause == Init => CauseInv
<1> SUFFICES ASSUME Init PROVE CauseInv
  OBVIOUS
<1>1. PICK f \in Foreign :
        file = [o \in Label |-> IF o \in f THEN "good" ELSE "absent"]
  BY DEF Init
<1>2. lost = {} /\ putting = <<>> /\ current = None /\ ok /\ failed = {}
  BY DEF Init
<1>3. \A o \in Label : There(o) <=> o \in f
  BY <1>1, <1>2 DEF There
<1>4. ASSUME NEW r \in Request, There(SealOf[r]), NEW o \in Bound(SealOf[r])
      PROVE  There(o)
  <2>1. SealOf[r] \in Label /\ o \in Label
    BY BoundType, PutsAreTheChain
  <2>2. SealOf[r] \in f /\ Bound(SealOf[r]) \subseteq f
    BY <1>3, <1>4, <2>1, WriterAssumption
  <2> QED BY <1>3, <2>1, <2>2
<1>5. RecordsFirst
  BY <1>4 DEF RecordsFirst
<1> QED BY <1>2, <1>5 DEF CauseInv, PutInOrder, DoubtHasACause, RefusalHasACause

\* What build_chain makes, verify_chain accepts, whatever is put, damaged and lost
\* while the audit runs: a seal of the system that was refused binds a record that
\* was damaged or lost.
THEOREM RefusalsHaveACause == Spec => []RefusalHasACause
<1>1. TypeOK /\ ListingInv /\ CauseInv /\ [Next]_vars => CauseInv'
  BY OrderStep, CauseStep DEF CauseInv
<1>2. CauseInv => RefusalHasACause
  BY DEF CauseInv
<1> QED BY <1>1, <1>2, InitCause, ListingHolds, PTL DEF Spec
=============================================================================
