--------------------------- MODULE DrafterProofs ---------------------------
(***************************************************************************)
(* What the drafter tracks, where every token goes, what its drafts say    *)
(* and what it recalls, for any requests, streams and bounds, any faults   *)
(* and any number of restarts; and that it implements the log of drafts.   *)
(***************************************************************************)
EXTENDS DrafterCorrectness, FiniteSetTheorems, TLAPS

\* Where the tracked requests are those the suffix tree holds as active, and where
\* none is tracked.
Paired ==
    /\ phase \in {"idle", "rows", "sealing"} => DOMAIN tracked = active \ {Synth}
    /\ phase \in {"boot", "off", "refused"} => DOMAIN tracked = {}
    /\ phase = "boot" => active \subseteq {Synth}
    /\ cached \cap active \subseteq {Synth}

\* Where the id of a failed replay may still be active: until the first call has
\* walked the ids it did not see.
SynthIsShort ==
    /\ Synth \notin seen
    /\ phase \in {"boot", "off", "refused"} =>
          \A r \in Req \ gone : length[r] = PromptLen[r]
    /\ phase = "idle" /\ Synth \in active =>
          /\ DOMAIN tracked = {}
          /\ \A r \in Req \ gone : length[r] = PromptLen[r]
    /\ phase = "sealing" /\ Synth \in active => Synth \in stale

\* The drafts among the objects of the store, and of a listing of it, were sealed.
StoreIsGrounded ==
    /\ (store \cup toWarm) \ Others \subseteq {Encoded(d) : d \in sealed}
    /\ warmed \subseteq {Encoded(d) : d \in sealed}

\* What a row has just sampled is part of its context.
RowsFit == \A row \in rows : length[row[1]] - row[2] \in Nat

Inv == TypeOK /\ RowsFit /\ Paired /\ SynthIsShort /\ StoreIsGrounded

-----------------------------------------------------------------------------
(* Places, slices and records. *)

LEMMA StreamType ==
    ASSUME NEW r \in Req
    PROVE  /\ Stream[r] \in Seq(Token) /\ Len(Stream[r]) \in Nat
           /\ PromptLen[r] \in Nat /\ PromptLen[r] \in 1 .. Len(Stream[r])
BY StreamAssumption

LEMMA SliceType ==
    ASSUME NEW r \in Req, NEW lo \in Nat, NEW hi \in Nat, hi <= Len(Stream[r])
    PROVE  Slice(r, lo, hi) \in Seq(Place)
<1>1. Greater(0, hi - lo) \in Nat
  BY DEF Greater
<1>2. ASSUME NEW i \in 1 .. Greater(0, hi - lo) PROVE <<r, lo + i>> \in Place
  <2>1. lo + i \in Nat \ {0} /\ lo + i <= hi
    BY <1>1, <1>2 DEF Greater
  <2> QED BY <2>1, StreamType DEF Place
<1> QED BY <1>1, <1>2 DEF Slice

LEMMA PlacesType ==
    ASSUME NEW s \in Seq(Place)
    PROVE  PlacesIn(s) \subseteq Place
BY DEF PlacesIn

LEMMA EncodedType ==
    ASSUME NEW d \in Draft
    PROVE  Encoded(d) \in Record
<1>1. ASSUME NEW s \in Seq(Place) PROVE Tokens(s) \in Seq(Token)
  <2>1. ASSUME NEW i \in DOMAIN s PROVE Stream[s[i][1]][s[i][2]] \in Token
    <3>1. s[i] \in Place OBVIOUS
    <3>2. /\ s[i][1] \in Req /\ s[i][2] \in Nat \ {0}
          /\ s[i][2] <= Len(Stream[s[i][1]])
      BY <3>1 DEF Place
    <3> QED BY <3>2, StreamType
  <2>2. DOMAIN s = 1 .. Len(s) /\ Len(s) \in Nat OBVIOUS
  <2> QED BY <2>1, <2>2 DEF Tokens
<1> QED BY <1>1 DEF Encoded, Draft, Record

\* What the code computes of a row.
LEMMA RowType ==
    ASSUME TypeOK, RowsFit, NEW row \in rows
    PROVE  LET r == row[1]  k == row[2] IN
           /\ r \in Req /\ k \in Nat /\ length[r] \in Nat
           /\ RowId(r) \in Req \cup Seq(Token)
           /\ Slice(r, length[r] - k, length[r]) \in Seq(Place)
           /\ Pattern(r, k) \in Seq(Place)
<1>1. row[1] \in Req /\ row[2] \in Nat
  BY DrafterAssumption DEF TypeOK
<1>2. length[row[1]] \in PromptLen[row[1]] .. Len(Stream[row[1]])
  BY <1>1 DEF TypeOK
<1>3. length[row[1]] \in Nat /\ length[row[1]] <= Len(Stream[row[1]])
  BY <1>1, <1>2, StreamType
<1>4. RowKey(row[1]) \in Seq(Token)
  BY <1>1, <1>3, StreamType, DrafterAssumption DEF RowKey, Lesser
<1>5. length[row[1]] - row[2] \in Nat
  BY DEF RowsFit
<1>6. Greater(0, length[row[1]] - row[2] - TreeDepth) \in Nat
  BY <1>5, DrafterAssumption DEF Greater
<1>7. length[row[1]] - row[2] <= Len(Stream[row[1]])
  BY <1>1, <1>3, StreamType
<1>8. Slice(row[1], length[row[1]] - row[2], length[row[1]]) \in Seq(Place)
  BY <1>1, <1>3, <1>5, SliceType
<1>9. Pattern(row[1], row[2]) \in Seq(Place)
  BY <1>1, <1>5, <1>6, <1>7, SliceType DEF Pattern
<1> QED BY <1>1, <1>3, <1>4, <1>8, <1>9 DEF RowId

\* What is given up at the end of the process.
LEMMA MemoryType ==
    ASSUME TypeOK, RowsFit
    PROVE  InMemory \subseteq Place
<1>1. InRows \subseteq Place
  <2>1. ASSUME NEW row \in rows
        PROVE PlacesIn(Slice(row[1], length[row[1]] - row[2], length[row[1]])) \subseteq Place
    BY RowType, PlacesType
  <2> QED BY <2>1 DEF InRows
<1>2. \A d \in Draft : PlacesIn(d.resp) \subseteq Place
  BY PlacesType DEF Draft
<1>3. InTracked \subseteq Place
  BY <1>2 DEF InTracked, TypeOK
<1>4. InQueue \subseteq Place
  <2>1. \A i \in DOMAIN queue : queue[i] \in Draft
    BY DEF TypeOK
  <2> QED BY <1>2, <2>1 DEF InQueue
<1>5. InHand \subseteq Place
  BY <1>2 DEF InHand, TypeOK
<1> QED BY <1>1, <1>3, <1>4, <1>5 DEF InMemory

LEMMA InitInv == Init => Inv
<1> SUFFICES ASSUME Init PROVE Inv OBVIOUS
<1>1. TypeOK
  <2>1. length \in [Req -> Nat] /\ \A r \in Req : length[r] \in PromptLen[r] .. Len(Stream[r])
    BY StreamType, StreamAssumption DEF Init
  <2>2. DOMAIN tracked = {}
    BY DEF Init, NoDraft
  <2>3. queue \in Seq(Draft) /\ Len(queue) <= QueueBound
    BY DrafterAssumption DEF Init
  <2> QED BY <2>1, <2>2, <2>3, DrafterAssumption DEF Init, TypeOK, Phase
<1>2. Paired
  BY DEF Init, Paired, NoDraft
<1>3. StoreIsGrounded /\ RowsFit
  BY DEF Init, StoreIsGrounded, RowsFit
<1>4. SynthIsShort
  BY DEF Init, SynthIsShort
<1> QED BY <1>1, <1>2, <1>3, <1>4 DEF Inv

-----------------------------------------------------------------------------
(* The type of the state: one lemma per step that computes. *)

LEMMA CallType == ASSUME TypeOK, Call PROVE TypeOK'
<1>0. PICK B \in SUBSET (Req \ gone) : \E k \in [B -> 1 .. MaxStep] :
        /\ \A r \in B : length[r] + k[r] <= Len(Stream[r])
        /\ rows' = {<<r, k[r]>> : r \in B}
        /\ length' = [r \in Req |-> IF r \in B THEN length[r] + k[r] ELSE length[r]]
  BY DEF Call
<1>1. PICK k \in [B -> 1 .. MaxStep] :
        /\ \A r \in B : length[r] + k[r] <= Len(Stream[r])
        /\ rows' = {<<r, k[r]>> : r \in B}
        /\ length' = [r \in Req |-> IF r \in B THEN length[r] + k[r] ELSE length[r]]
  BY <1>0
<1>2. rows' \subseteq Req \X (1 .. MaxStep)
  BY <1>1
<1>3. ASSUME NEW r \in Req
      PROVE  length'[r] \in Nat /\ length'[r] \in PromptLen[r] .. Len(Stream[r])
  <2>1. length[r] \in Nat /\ length[r] \in PromptLen[r] .. Len(Stream[r])
    BY DEF TypeOK
  <2>2. CASE r \in B
    <3>1. k[r] \in Nat BY <1>1, <2>2, DrafterAssumption
    <3> QED BY <1>1, <2>1, <2>2, <3>1, StreamType
  <2>3. CASE r \notin B
    BY <1>1, <2>1, <2>3
  <2> QED BY <2>2, <2>3
<1>4. length' \in [Req -> Nat]
  BY <1>1, <1>3
<1>5. phase' \in Phase
  BY DEF Call, Phase
<1> QED BY <1>2, <1>3, <1>4, <1>5
        DEF Call, TypeOK, treeVars, sealerVars, storeVars, warmVars, historyVars

LEMMA SkipRowType == ASSUME TypeOK, RowsFit, SkipRow PROVE TypeOK'
<1>1. PICK row \in rows :
        /\ rows' = rows \ {row}
        /\ forgone' = forgone \cup
             PlacesIn(Slice(row[1], length[row[1]] - row[2], length[row[1]]))
  BY DEF SkipRow
<1>2. forgone' \subseteq Place
  BY <1>1, RowType, PlacesType DEF TypeOK
<1> QED BY <1>1, <1>2
        DEF SkipRow, TypeOK, hostVars, treeVars, sealerVars, storeVars, warmVars

LEMMA StartRowType == ASSUME TypeOK, RowsFit, StartRow PROVE TypeOK'
<1>1. PICK row \in rows :
        LET r == row[1]  k == row[2]  n == length[r]  id == RowId(r) IN
        /\ rows' = rows \ {row}
        /\ seen' = seen \cup {id}
        /\ cached' = Evicted(id)
        /\ active' = active \cup {id}
        /\ tracked' = [x \in DOMAIN tracked \cup {id} |->
                          IF x = id THEN [pat |-> Pattern(r, k), resp |-> Slice(r, n - k, n)]
                          ELSE tracked[x]]
  BY DEF StartRow
<1> DEFINE d == [pat |-> Pattern(row[1], row[2]),
                 resp |-> Slice(row[1], length[row[1]] - row[2], length[row[1]])]
<1>2. d \in Draft /\ RowId(row[1]) \in Id
  BY RowType DEF Draft, Id
<1>3. DOMAIN tracked' \subseteq Id /\ \A x \in DOMAIN tracked' : tracked'[x] \in Draft
  BY <1>1, <1>2 DEF TypeOK
<1>4. seen' \subseteq Id /\ cached' \subseteq Id /\ active' \subseteq Id
  BY <1>1, <1>2 DEF TypeOK, Evicted
<1>5. rows' \subseteq Req \X (1 .. MaxStep)
  BY <1>1 DEF TypeOK
<1> QED BY <1>3, <1>4, <1>5
        DEF StartRow, TypeOK, hostVars, sealerVars, storeVars, warmVars, historyVars

LEMMA ExtendRowType == ASSUME TypeOK, RowsFit, ExtendRow PROVE TypeOK'
<1>1. PICK row \in rows :
        LET r == row[1]  k == row[2]  n == length[r]  id == RowId(r) IN
        /\ rows' = rows \ {row}
        /\ seen' = seen \cup {id}
        /\ IF id \in DOMAIN tracked
           THEN /\ tracked' = [tracked EXCEPT ![id].resp = @ \o Slice(r, n - k, n)]
                /\ UNCHANGED forgone
           ELSE /\ forgone' = forgone \cup PlacesIn(Slice(r, n - k, n))
                /\ UNCHANGED tracked
  BY DEF ExtendRow
<1> DEFINE id == RowId(row[1])
<1> DEFINE new == Slice(row[1], length[row[1]] - row[2], length[row[1]])
<1>2. new \in Seq(Place) /\ PlacesIn(new) \subseteq Place /\ id \in Id
  BY RowType, PlacesType DEF Id
<1>3. forgone' \subseteq Place
  BY <1>1, <1>2 DEF TypeOK
<1>4. DOMAIN tracked' \subseteq Id /\ \A x \in DOMAIN tracked' : tracked'[x] \in Draft
  <2>1. CASE id \in DOMAIN tracked
    <3>1. tracked[id] \in Draft /\ tracked[id].resp \o new \in Seq(Place)
      BY <1>2, <2>1 DEF TypeOK, Draft
    <3>2. [tracked[id] EXCEPT !.resp = @ \o new] \in Draft
      BY <3>1 DEF Draft
    <3>3. tracked' = [tracked EXCEPT ![id] = [tracked[id] EXCEPT !.resp = @ \o new]]
      BY <1>1, <2>1
    <3> HIDE DEF new
    <3> QED BY <2>1, <3>2, <3>3 DEF TypeOK
  <2>2. CASE id \notin DOMAIN tracked
    BY <1>1, <2>2 DEF TypeOK
  <2> QED BY <2>1, <2>2
<1>5. seen' \subseteq Id /\ rows' \subseteq Req \X (1 .. MaxStep)
  BY <1>1, <1>2 DEF TypeOK
<1> QED BY <1>3, <1>4, <1>5
        DEF ExtendRow, TypeOK, hostVars, treeVars, sealerVars, storeVars, warmVars

LEMMA SealStaleType == ASSUME TypeOK, SealStale PROVE TypeOK'
<1>1. PICK id \in stale :
        /\ SealDraft(id)
        /\ stale' = stale \ {id}
        /\ active' = active \ {id}
        /\ cached' = cached \cup {id}
  BY DEF SealStale
<1>2. /\ DOMAIN tracked' \subseteq Id /\ \A x \in DOMAIN tracked' : tracked'[x] \in Draft
      /\ queue' \in Seq(Draft) /\ Len(queue') <= QueueBound /\ forgone' \subseteq Place
  <2>1. CASE id \notin DOMAIN tracked
    BY <1>1, <2>1 DEF SealDraft, TypeOK
  <2>2. CASE id \in DOMAIN tracked
    <3>1. tracked[id] \in Draft BY <2>2 DEF TypeOK
    <3>2. PlacesIn(tracked[id].resp) \subseteq Place
      BY <3>1, PlacesType DEF Draft
    <3>3. tracked' = Forget(tracked, id)
      BY <1>1, <2>2 DEF SealDraft
    <3>4. DOMAIN tracked' \subseteq Id /\ \A x \in DOMAIN tracked' : tracked'[x] \in Draft
      BY <3>3 DEF Forget, TypeOK
    <3>5. queue' \in Seq(Draft) /\ Len(queue') <= QueueBound
      BY <1>1, <2>2, <3>1, DrafterAssumption DEF SealDraft, TypeOK
    <3>6. forgone' \subseteq Place
      BY <1>1, <2>2, <3>2 DEF SealDraft, TypeOK
    <3> QED BY <3>4, <3>5, <3>6
  <2> QED BY <2>1, <2>2
<1>3. stale' \subseteq Id /\ active' \subseteq Id /\ cached' \subseteq Id
  BY <1>1 DEF TypeOK
<1> QED BY <1>2, <1>3 DEF SealStale, TypeOK, hostVars, storeVars, warmVars

LEMMA SealerType == ASSUME TypeOK, SealerStep PROVE TypeOK'
<1>1. CASE Take
  <2>1. Head(queue) \in Draft /\ Tail(queue) \in Seq(Draft) /\ Len(Tail(queue)) <= QueueBound
    BY <1>1, DrafterAssumption DEF Take, TypeOK
  <2> QED BY <1>1, <2>1
      DEF Take, TypeOK, hostVars, callVars, treeVars, storeVars, warmVars, historyVars
<1>2. CASE PutTaken
  <2>1. inHand \in Draft BY <1>2 DEF PutTaken, TypeOK
  <2>2. Encoded(inHand) \in Record BY <2>1, EncodedType
  <2>3. store' \subseteq Record \cup Others /\ sealed' \subseteq Draft
    BY <1>2, <2>1, <2>2 DEF PutTaken, Put, TypeOK
  <2> QED BY <1>2, <2>3 DEF PutTaken, TypeOK, hostVars, callVars, treeVars, warmVars
<1>3. CASE PutRaises
  <2>1. inHand \in Draft BY <1>3 DEF PutRaises, TypeOK
  <2>2. PlacesIn(inHand.resp) \subseteq Place BY <2>1, PlacesType DEF Draft
  <2>3. faults' \in 0 .. MaxFaults
    BY <1>3, DrafterAssumption DEF PutRaises, Fault, TypeOK
  <2> QED BY <1>3, <2>2, <2>3
      DEF PutRaises, TypeOK, hostVars, callVars, treeVars, storeVars, warmVars
<1> QED BY <1>1, <1>2, <1>3 DEF SealerStep

LEMMA FlushType == ASSUME TypeOK, Flush PROVE TypeOK'
<1>1. PICK id \in DOMAIN tracked :
        /\ tracked' = Forget(tracked, id)
        /\ IF Sealable(tracked[id])
           THEN Put(tracked[id]) /\ UNCHANGED forgone
           ELSE /\ forgone' = forgone \cup PlacesIn(tracked[id].resp)
                /\ UNCHANGED <<store, sealed>>
  BY DEF Flush
<1>2. tracked[id] \in Draft BY DEF TypeOK
<1>3. Encoded(tracked[id]) \in Record /\ PlacesIn(tracked[id].resp) \subseteq Place
  BY <1>2, EncodedType, PlacesType DEF Draft
<1>4. /\ store' \subseteq Record \cup Others /\ sealed' \subseteq Draft
      /\ forgone' \subseteq Place
  BY <1>1, <1>2, <1>3 DEF Put, TypeOK
<1>5. DOMAIN tracked' \subseteq Id /\ \A x \in DOMAIN tracked' : tracked'[x] \in Draft
  BY <1>1 DEF Forget, TypeOK
<1> QED BY <1>4, <1>5 DEF Flush, TypeOK, hostVars, callVars, treeVars, sealerVars, warmVars

LEMMA WarmType == ASSUME TypeOK, WarmStep PROVE TypeOK'
<1>1. CASE WarmSkips
  BY <1>1 DEF WarmSkips, TypeOK, hostVars, callVars, treeVars, sealerVars, storeVars, historyVars
<1>2. CASE WarmReplays
  BY <1>2 DEF WarmReplays, TypeOK, hostVars, callVars, treeVars, sealerVars, historyVars
<1>3. CASE ReplayFails
  <2>1. faults' \in 0 .. MaxFaults /\ active' \subseteq Id
    BY <1>3, DrafterAssumption DEF ReplayFails, Fault, Id, TypeOK
  <2>2. store' \subseteq Record \cup Others /\ toWarm' \subseteq Record \cup Others
    BY <1>3 DEF ReplayFails, TypeOK
  <2> QED BY <1>3, <2>1, <2>2
      DEF ReplayFails, TypeOK, hostVars, callVars, sealerVars, historyVars
<1>4. CASE WarmRefuses \/ WarmEnds
  BY <1>4 DEF WarmRefuses, WarmEnds, TypeOK, Phase, hostVars, callVars, treeVars, sealerVars,
     storeVars, warmVars, historyVars
<1> QED BY <1>1, <1>2, <1>3, <1>4 DEF WarmStep

LEMMA LifeType == ASSUME TypeOK, RowsFit, Ends \/ Start \/ Damage PROVE TypeOK'
<1>1. CASE Ends
  <2>1. forgone' \subseteq Place
    BY <1>1, MemoryType DEF Ends, TypeOK
  <2>2. faults' \in 0 .. MaxFaults /\ starts' \in 0 .. MaxStarts
    BY <1>1, DrafterAssumption DEF Ends, Fault, TypeOK
  <2>3. DOMAIN tracked' = {} /\ queue' \in Seq(Draft) /\ Len(queue') <= QueueBound
    BY <1>1, DrafterAssumption DEF Ends, NoDraft
  <2>4. /\ rows' = {} /\ seen' = {} /\ stale' = {} /\ active' = {} /\ cached' = {}
        /\ inHand' = None /\ warmed' = {} /\ toWarm' = {} /\ gone' \subseteq Req
        /\ phase' \in Phase
    BY <1>1 DEF Ends, Phase
  <2>5. UNCHANGED <<contract, length, sealer, store, damaged, sealed>>
    BY <1>1 DEF Ends, storeVars
  <2> QED BY <2>1, <2>2, <2>3, <2>4, <2>5 DEF TypeOK
<1>2. CASE Start
  <2>1. starts' \in 0 .. MaxStarts
    BY <1>2, DrafterAssumption DEF Start, TypeOK
  <2> QED BY <1>2, <2>1
      DEF Start, TypeOK, Phase, hostVars, callVars, storeVars, historyVars
<1>3. CASE Damage
  <2>1. faults' \in 0 .. MaxFaults
    BY <1>3, DrafterAssumption DEF Damage, Fault, TypeOK
  <2>2. store' \subseteq Record \cup Others /\ damaged' \subseteq Record \cup Others
    BY <1>3 DEF Damage, TypeOK
  <2> QED BY <1>3, <2>1, <2>2
      DEF Damage, TypeOK, hostVars, callVars, treeVars, sealerVars, warmVars, historyVars
<1> QED BY <1>1, <1>2, <1>3

LEMMA TypeStep == TypeOK /\ RowsFit /\ [Next]_vars => TypeOK'
<1> SUFFICES ASSUME TypeOK, RowsFit, [Next]_vars PROVE TypeOK' OBVIOUS
<1>1. CASE RowsEnd \/ Return \/ Exit
  BY <1>1 DEF RowsEnd, Return, Exit, TypeOK, Phase, hostVars, callVars, treeVars, sealerVars,
     storeVars, warmVars, historyVars
<1>2. CASE Over \/ UNCHANGED vars
  BY <1>2 DEF Over, vars, TypeOK, hostVars, callVars, treeVars, sealerVars, storeVars,
     warmVars, historyVars
<1>3. CASE ProposeStep
  BY <1>1, <1>3, SkipRowType, StartRowType, ExtendRowType, SealStaleType DEF ProposeStep
<1>4. CASE MainStep
  BY <1>3, <1>4, WarmType, FlushType, LifeType DEF MainStep
<1> QED BY <1>1, <1>2, <1>4, CallType, SealerType, LifeType DEF Next

-----------------------------------------------------------------------------
(* The other parts of the invariant. *)

LEMMA RowsFitStep == TypeOK /\ RowsFit /\ [Next]_vars => RowsFit'
<1> SUFFICES ASSUME TypeOK, RowsFit, [Next]_vars PROVE RowsFit' OBVIOUS
<1>1. CASE Call
  <2>0. PICK B \in SUBSET (Req \ gone) : \E k \in [B -> 1 .. MaxStep] :
          /\ rows' = {<<r, k[r]>> : r \in B}
          /\ length' = [r \in Req |-> IF r \in B THEN length[r] + k[r] ELSE length[r]]
    BY <1>1 DEF Call
  <2>1. PICK k \in [B -> 1 .. MaxStep] :
          /\ rows' = {<<r, k[r]>> : r \in B}
          /\ length' = [r \in Req |-> IF r \in B THEN length[r] + k[r] ELSE length[r]]
    BY <2>0
  <2>2. ASSUME NEW r \in B PROVE length'[r] - k[r] \in Nat
    <3>1. k[r] \in Nat /\ length[r] \in Nat
      BY DrafterAssumption DEF TypeOK
    <3> QED BY <2>1, <3>1
  <2> QED BY <2>1, <2>2 DEF RowsFit
<1>2. ASSUME ~Call PROVE rows' \subseteq rows /\ length' = length
  BY <1>2 DEF Next, MainStep, WarmStep, WarmSkips, WarmReplays, ReplayFails, WarmRefuses,
     WarmEnds, ProposeStep, SkipRow, StartRow, ExtendRow, RowsEnd, SealStale, Return,
     SealerStep, Take, PutTaken, PutRaises, Exit, Flush, Ends, Start, Damage, Over,
     vars, hostVars, callVars
<1> QED BY <1>1, <1>2 DEF RowsFit

LEMMA PairedStep == Inv /\ [Next]_vars => Paired'
<1> SUFFICES ASSUME Inv, [Next]_vars PROVE Paired' OBVIOUS
<1>0. TypeOK /\ RowsFit /\ Paired BY DEF Inv
<1>1. CASE WarmStep
  BY <1>0, <1>1 DEF WarmStep, WarmSkips, WarmReplays, ReplayFails, WarmRefuses, WarmEnds,
     treeVars, Paired
<1>2. CASE Call \/ RowsEnd \/ Return \/ Exit \/ SkipRow
  BY <1>0, <1>2 DEF Call, RowsEnd, Return, Exit, SkipRow, treeVars, Paired
<1>3. CASE StartRow
  <2>1. PICK row \in rows :
          /\ cached' = Evicted(RowId(row[1]))
          /\ active' = active \cup {RowId(row[1])}
          /\ DOMAIN tracked' = DOMAIN tracked \cup {RowId(row[1])}
    BY <1>3 DEF StartRow
  <2>2. RowId(row[1]) # Synth
    BY <1>0, RowType, DrafterAssumption
  <2> QED BY <1>0, <1>3, <2>1, <2>2 DEF StartRow, Evicted, Paired
<1>4. CASE ExtendRow
  <2>1. DOMAIN tracked' = DOMAIN tracked
    BY <1>4 DEF ExtendRow
  <2> QED BY <1>0, <1>4, <2>1 DEF ExtendRow, treeVars, Paired
<1>5. CASE SealStale
  <2>1. PICK id \in stale :
          /\ SealDraft(id) /\ active' = active \ {id} /\ cached' = cached \cup {id}
    BY <1>5 DEF SealStale
  <2>2. DOMAIN tracked' = DOMAIN tracked \ {id}
    BY <2>1 DEF SealDraft, Forget
  <2> QED BY <1>0, <1>5, <2>1, <2>2 DEF SealStale, Paired
<1>6. CASE SealerStep \/ Damage
  BY <1>0, <1>6 DEF SealerStep, Take, PutTaken, PutRaises, Damage, treeVars, Paired
<1>7. CASE Flush
  BY <1>0, <1>7 DEF Flush, treeVars, Paired
<1>8. CASE Ends
  BY <1>8 DEF Ends, NoDraft, Paired
<1>9. CASE Start
  BY <1>0, <1>9 DEF Start, Paired
<1>10. CASE Over \/ UNCHANGED vars
  BY <1>0, <1>10 DEF Over, vars, treeVars, Paired
<1> QED BY <1>1, <1>2, <1>3, <1>4, <1>5, <1>6, <1>7, <1>8, <1>9, <1>10
        DEF Next, MainStep, ProposeStep

LEMMA SynthStep == Inv /\ [Next]_vars => SynthIsShort'
<1> SUFFICES ASSUME Inv, [Next]_vars PROVE SynthIsShort' OBVIOUS
<1>0. TypeOK /\ RowsFit /\ Paired /\ SynthIsShort BY DEF Inv
<1>1. CASE WarmStep
  <2>1. /\ UNCHANGED <<seen, length, gone, tracked>> /\ phase = "boot"
        /\ phase' \in {"boot", "idle", "refused"}
    BY <1>1 DEF WarmStep, WarmSkips, WarmReplays, ReplayFails, WarmRefuses, WarmEnds,
       hostVars, callVars
  <2> QED BY <1>0, <2>1 DEF SynthIsShort, Paired
<1>2. CASE Call
  BY <1>0, <1>2 DEF Call, SynthIsShort
<1>3. CASE StartRow \/ ExtendRow
  <2>1. PICK row \in rows : seen' = seen \cup {RowId(row[1])}
    BY <1>3 DEF StartRow, ExtendRow
  <2>2. RowId(row[1]) # Synth
    BY <1>0, RowType, DrafterAssumption
  <2>3. phase' = "rows"
    BY <1>3 DEF StartRow, ExtendRow
  <2> QED BY <1>0, <2>1, <2>2, <2>3 DEF SynthIsShort
<1>4. CASE SkipRow
  BY <1>0, <1>4 DEF SkipRow, SynthIsShort
<1>5. CASE RowsEnd
  BY <1>0, <1>5 DEF RowsEnd, treeVars, SynthIsShort
<1>6. CASE SealStale
  BY <1>0, <1>6 DEF SealStale, SynthIsShort
<1>7. CASE Return
  BY <1>0, <1>7 DEF Return, callVars, treeVars, SynthIsShort
<1>8. CASE SealerStep \/ Damage
  BY <1>0, <1>8 DEF SealerStep, Take, PutTaken, PutRaises, Damage, hostVars, callVars,
     treeVars, SynthIsShort
<1>9. CASE Exit \/ Flush
  BY <1>0, <1>9 DEF Exit, Flush, callVars, SynthIsShort
<1>10. CASE Ends
  <2>1. /\ seen' = {} /\ phase' = "off" /\ length' = length
        /\ gone' = {r \in Req : length[r] > PromptLen[r]}
    BY <1>10 DEF Ends
  <2>2. ASSUME NEW r \in Req \ gone' PROVE length[r] = PromptLen[r]
    <3>1. length[r] \in PromptLen[r] .. Len(Stream[r]) /\ PromptLen[r] \in Nat
      BY <1>0, StreamAssumption DEF TypeOK
    <3>2. Len(Stream[r]) \in Nat
      BY StreamAssumption
    <3> QED BY <2>1, <2>2, <3>1, <3>2
  <2> QED BY <2>1, <2>2 DEF SynthIsShort
<1>11. CASE Start
  BY <1>0, <1>11 DEF Start, hostVars, callVars, SynthIsShort
<1>12. CASE Over \/ UNCHANGED vars
  BY <1>0, <1>12 DEF Over, vars, hostVars, callVars, treeVars, SynthIsShort
<1> QED BY <1>1, <1>2, <1>3, <1>4, <1>5, <1>6, <1>7, <1>8, <1>9, <1>10, <1>11, <1>12
        DEF Next, MainStep, ProposeStep

LEMMA GroundedStep == StoreIsGrounded /\ [Next]_vars => StoreIsGrounded'
<1> SUFFICES ASSUME StoreIsGrounded, [Next]_vars PROVE StoreIsGrounded' OBVIOUS
<1>1. CASE WarmStep
  BY <1>1 DEF WarmStep, WarmSkips, WarmReplays, ReplayFails, WarmRefuses, WarmEnds,
     storeVars, warmVars, historyVars, StoreIsGrounded
<1>2. ASSUME NEW d, Put(d), UNCHANGED warmVars PROVE StoreIsGrounded'
  BY <1>2 DEF Put, warmVars, StoreIsGrounded
<1>3. CASE PutTaken \/ Flush
  <2>1. UNCHANGED warmVars /\ ((\E d : Put(d)) \/ UNCHANGED <<store, sealed>>)
    BY <1>3 DEF PutTaken, Flush
  <2> QED BY <1>2, <2>1 DEF warmVars, StoreIsGrounded
<1>4. CASE Ends \/ Start \/ Damage
  BY <1>4 DEF Ends, Start, Damage, storeVars, warmVars, historyVars, StoreIsGrounded
<1>5. CASE ProposeStep \/ Call \/ Take \/ PutRaises \/ Exit \/ Over \/ UNCHANGED vars
  <2>1. UNCHANGED <<store, toWarm, warmed, sealed>>
    BY <1>5 DEF ProposeStep, SkipRow, StartRow, ExtendRow, RowsEnd, SealStale, Return, Call,
       Take, PutRaises, Exit, Over, vars, storeVars, warmVars, historyVars
  <2> QED BY <2>1 DEF StoreIsGrounded
<1> QED BY <1>1, <1>3, <1>4, <1>5 DEF Next, MainStep, SealerStep

LEMMA InvStep == Inv /\ [Next]_vars => Inv'
BY TypeStep, RowsFitStep, PairedStep, SynthStep, GroundedStep DEF Inv

LEMMA Invariance == Spec => []Inv
BY InitInv, InvStep, PTL DEF Spec

-----------------------------------------------------------------------------

\* For any requests and bounds, the state of the drafter is one it can be in: no
\* draft or given-up token lies outside its stream, the queue keeps its bound.
THEOREM TypeCorrect == Spec => []TypeOK
<1>1. Inv => TypeOK BY DEF Inv
<1> QED BY <1>1, Invariance, PTL

\* Whatever is called, fails or restarts: between calls exactly the active requests
\* are tracked, none is cached besides, and what a failed replay left active is freed
\* by the end of the first call (_warm, _propose_rows).
THEOREM TrackedCorrect == Spec => []TrackedIsActive
<1>1. ASSUME Inv PROVE TrackedIsActive
  <2>1. CASE phase = "idle" /\ Synth \in active
    BY <1>1, <2>1 DEF Inv, Paired, SynthIsShort, TrackedIsActive, NoCallYet
  <2>2. CASE ~(phase = "idle" /\ Synth \in active)
    BY <1>1, <2>2 DEF Inv, Paired, TrackedIsActive
  <2> QED BY <2>1, <2>2
<1> QED BY <1>1, Invariance, PTL

\* Whatever becomes of the files: the tree is warmed with sealed drafts only (_warm).
THEOREM TreeGrounded == Spec => []TreeIsGrounded
<1>1. Inv => TreeIsGrounded BY DEF Inv, StoreIsGrounded, TreeIsGrounded
<1> QED BY <1>1, Invariance, PTL

-----------------------------------------------------------------------------
(* Where the accepted tokens are. *)

\* The tokens requests have accepted behind their prompts.
Accepted == {p \in Req \X (1 .. MaxLen) : p[2] > PromptLen[p[1]] /\ p[2] <= length[p[1]]}

\* The tokens of the drafts that were put.
InSealed == UNION {PlacesIn(d.resp) : d \in sealed}

\* What a row has just sampled.
Sampled(row) == PlacesIn(Slice(row[1], length[row[1]] - row[2], length[row[1]]))

\* There are rows only during a call, one for a request, of tokens behind its
\* prompt; a process that boots has nothing to put.
Resting ==
    /\ phase # "rows" => rows = {}
    /\ phase \in {"boot", "off", "refused"} => queue = <<>> /\ inHand = None

RowsApart ==
    /\ \A a, b \in rows : a[1] = b[1] => a = b
    /\ \A row \in rows : length[row[1]] - row[2] >= PromptLen[row[1]]

\* The six kinds of place a token can be in share none, and cover what was accepted.
PlacesApart ==
    /\ Accepted = InRows \cup InTracked \cup InQueue \cup InHand \cup InSealed \cup forgone
    /\ InRows \cap (InTracked \cup InQueue \cup InHand \cup InSealed \cup forgone) = {}
    /\ InTracked \cap (InQueue \cup InHand \cup InSealed \cup forgone) = {}
    /\ InQueue \cap (InHand \cup InSealed \cup forgone) = {}
    /\ InHand \cap (InSealed \cup forgone) = {}
    /\ InSealed \cap forgone = {}

\* And no two drafts of a kind share a token.
TrackedApart ==
    \A x, y \in DOMAIN tracked :
        x # y => PlacesIn(tracked[x].resp) \cap PlacesIn(tracked[y].resp) = {}

QueueApart ==
    \A x, y \in DOMAIN queue :
        x # y => PlacesIn(queue[x].resp) \cap PlacesIn(queue[y].resp) = {}

SealedApart ==
    \A d, e \in sealed : d # e => PlacesIn(d.resp) \cap PlacesIn(e.resp) = {}

\* What waits for the sealer is worth a draft.
QueueSealable ==
    /\ \A i \in DOMAIN queue : Sealable(queue[i])
    /\ inHand # None => Sealable(inHand)

ApartInv ==
    /\ Resting /\ RowsApart /\ PlacesApart
    /\ TrackedApart /\ QueueApart /\ SealedApart /\ QueueSealable

LEMMA SlicePlaces ==
    ASSUME NEW r, NEW lo \in Nat, NEW hi \in Nat
    PROVE  PlacesIn(Slice(r, lo, hi)) = {<<r, i>> : i \in lo + 1 .. hi}
<1> DEFINE n == Greater(0, hi - lo)
<1>1. n \in Nat /\ (hi >= lo => n = hi - lo) /\ (hi < lo => n = 0)
  BY DEF Greater
<1>2. PlacesIn(Slice(r, lo, hi)) = {<<r, lo + i>> : i \in 1 .. n}
  BY DEF PlacesIn, Slice
<1> HIDE DEF n
<1>3. \A i \in 1 .. n : lo + i \in lo + 1 .. hi
  BY <1>1
<1>4. \A j \in lo + 1 .. hi : j - lo \in 1 .. n /\ lo + (j - lo) = j
  BY <1>1
<1> QED BY <1>2, <1>3, <1>4

LEMMA ConcatPlaces ==
    ASSUME NEW s \in Seq(Place), NEW t \in Seq(Place)
    PROVE  PlacesIn(s \o t) = PlacesIn(s) \cup PlacesIn(t)
<1>1. /\ Len(s) \in Nat /\ Len(t) \in Nat
      /\ DOMAIN s = 1 .. Len(s) /\ DOMAIN t = 1 .. Len(t)
      /\ DOMAIN (s \o t) = 1 .. Len(s) + Len(t)
      /\ \A i \in 1 .. Len(s) + Len(t) :
            (s \o t)[i] = IF i <= Len(s) THEN s[i] ELSE t[i - Len(s)]
  OBVIOUS
<1> DEFINE u == s \o t
<1> HIDE DEF u
<1>2. /\ DOMAIN u = 1 .. Len(s) + Len(t)
      /\ \A i \in 1 .. Len(s) + Len(t) : u[i] = IF i <= Len(s) THEN s[i] ELSE t[i - Len(s)]
  BY <1>1 DEF u
<1>3. \A i \in 1 .. Len(s) : i \in DOMAIN u /\ u[i] = s[i]
  BY <1>1, <1>2
<1>4. \A i \in 1 .. Len(t) : i + Len(s) \in DOMAIN u /\ u[i + Len(s)] = t[i]
  BY <1>1, <1>2
<1>5. \A i \in DOMAIN u : i \in 1 .. Len(s) \/ i - Len(s) \in 1 .. Len(t)
  BY <1>1, <1>2
<1>6. PlacesIn(s) \cup PlacesIn(t) \subseteq PlacesIn(u)
  BY <1>1, <1>3, <1>4 DEF PlacesIn
<1>7. ASSUME NEW i \in DOMAIN u PROVE u[i] \in PlacesIn(s) \cup PlacesIn(t)
  BY <1>1, <1>2, <1>5 DEF PlacesIn
<1> QED BY <1>6, <1>7 DEF PlacesIn, u

\* What has not changed is where it was.
LEMMA Frames ==
    /\ UNCHANGED length => UNCHANGED Accepted
    /\ UNCHANGED <<rows, length>> => UNCHANGED InRows
    /\ UNCHANGED tracked => UNCHANGED InTracked
    /\ UNCHANGED queue => UNCHANGED InQueue
    /\ UNCHANGED inHand => UNCHANGED InHand
    /\ UNCHANGED sealed => UNCHANGED InSealed
BY DEF Accepted, InRows, InTracked, InQueue, InHand, InSealed

\* The tokens a row sampled are its request's.
LEMMA SampledPlaces ==
    ASSUME TypeOK, RowsFit, NEW row \in rows
    PROVE  /\ row[1] \in Req /\ row[2] \in Nat
           /\ length[row[1]] \in Nat /\ length[row[1]] - row[2] \in Nat
           /\ Sampled(row) = {<<row[1], i>> : i \in length[row[1]] - row[2] + 1 .. length[row[1]]}
<1>1. /\ row[1] \in Req /\ row[2] \in Nat
      /\ length[row[1]] \in Nat /\ length[row[1]] - row[2] \in Nat
  BY RowType DEF RowsFit
<1> QED BY <1>1, SlicePlaces DEF Sampled

LEMMA RowsUnion == InRows = UNION {Sampled(row) : row \in rows}
BY DEF InRows, Sampled

\* A row that is visited takes its tokens, and only them, out of the rows.
LEMMA RowLeaves ==
    ASSUME TypeOK, RowsFit, RowsApart, NEW row \in rows,
           rows' = rows \ {row}, length' = length
    PROVE  Sampled(row) \subseteq InRows /\ InRows' = InRows \ Sampled(row) /\ RowsApart'
<1>1. \A a \in rows : a # row => Sampled(a) \cap Sampled(row) = {}
  BY SampledPlaces DEF RowsApart
<1>2. \A a \in rows : Sampled(a)' = Sampled(a)
  BY DEF Sampled
<1>3. InRows' = UNION {Sampled(a) : a \in rows \ {row}}
  BY DEF InRows, Sampled
<1>4. InRows = UNION {Sampled(a) : a \in rows}
  BY RowsUnion
<1>5. RowsApart'
  BY DEF RowsApart
<1> QED BY <1>1, <1>3, <1>4, <1>5

\* A draft that is popped takes its tokens, and only them.
LEMMA TrackedLeaves ==
    ASSUME TrackedApart, NEW id \in DOMAIN tracked, tracked' = Forget(tracked, id)
    PROVE  /\ PlacesIn(tracked[id].resp) \subseteq InTracked
           /\ InTracked' = InTracked \ PlacesIn(tracked[id].resp)
           /\ TrackedApart'
<1>1. DOMAIN tracked' = DOMAIN tracked \ {id} /\ \A x \in DOMAIN tracked' : tracked'[x] = tracked[x]
  BY DEF Forget
<1>2. InTracked' = UNION {PlacesIn(tracked[x].resp) : x \in DOMAIN tracked \ {id}}
  BY <1>1 DEF InTracked
<1>3. \A x \in DOMAIN tracked \ {id} :
        PlacesIn(tracked[x].resp) \cap PlacesIn(tracked[id].resp) = {}
  BY DEF TrackedApart
<1>4. TrackedApart'
  BY <1>1 DEF TrackedApart
<1> QED BY <1>2, <1>3, <1>4 DEF InTracked

LEMMA QueueGrows ==
    ASSUME queue \in Seq(Draft), NEW d \in Draft, queue' = Append(queue, d),
           QueueApart, InQueue \cap PlacesIn(d.resp) = {}
    PROVE  /\ InQueue' = InQueue \cup PlacesIn(d.resp)
           /\ QueueApart'
           /\ \A i \in DOMAIN queue' : (i \in DOMAIN queue /\ queue'[i] = queue[i]) \/ queue'[i] = d
<1> DEFINE n == Len(queue)
<1>1. /\ n \in Nat /\ DOMAIN queue = 1 .. n /\ DOMAIN queue' = 1 .. n + 1
      /\ queue'[n + 1] = d /\ \A i \in 1 .. n : queue'[i] = queue[i]
  OBVIOUS
<1> HIDE DEF n
<1>2. \A i \in 1 .. n + 1 : i \in 1 .. n \/ i = n + 1
  BY <1>1
<1>3. n + 1 \in DOMAIN queue' /\ \A i \in DOMAIN queue : i \in DOMAIN queue'
  BY <1>1
<1>4. InQueue' = InQueue \cup PlacesIn(d.resp)
  <2>1. ASSUME NEW p, p \in InQueue' PROVE p \in InQueue \cup PlacesIn(d.resp)
    BY <1>1, <1>2, <2>1 DEF InQueue
  <2>2. InQueue \subseteq InQueue'
    BY <1>1, <1>3 DEF InQueue
  <2>3. PlacesIn(d.resp) \subseteq InQueue'
    BY <1>1, <1>3 DEF InQueue
  <2> QED BY <2>1, <2>2, <2>3
<1>5. ASSUME NEW i \in DOMAIN queue, NEW p \in PlacesIn(queue[i].resp) PROVE p \notin PlacesIn(d.resp)
  <2>1. p \in InQueue
    BY DEF InQueue
  <2> QED BY <2>1
<1>6. QueueApart'
  <2> SUFFICES ASSUME NEW x \in 1 .. n + 1, NEW y \in 1 .. n + 1, x # y
               PROVE  PlacesIn(queue'[x].resp) \cap PlacesIn(queue'[y].resp) = {}
    BY <1>1 DEF QueueApart
  <2>1. CASE x \in 1 .. n /\ y \in 1 .. n
    BY <1>1, <2>1 DEF QueueApart
  <2>2. CASE x \in 1 .. n /\ y = n + 1
    BY <1>1, <1>5, <2>2
  <2>3. CASE x = n + 1 /\ y \in 1 .. n
    BY <1>1, <1>5, <2>3
  <2> QED BY <1>2, <2>1, <2>2, <2>3
<1> QED BY <1>1, <1>2, <1>4, <1>6

LEMMA QueueShrinks ==
    ASSUME queue \in Seq(Draft), queue # <<>>, queue' = Tail(queue), QueueApart
    PROVE  /\ PlacesIn(Head(queue).resp) \subseteq InQueue
           /\ InQueue' = InQueue \ PlacesIn(Head(queue).resp)
           /\ QueueApart'
           /\ 1 \in DOMAIN queue /\ Head(queue) = queue[1]
           /\ \A i \in DOMAIN queue' : i + 1 \in DOMAIN queue /\ queue'[i] = queue[i + 1]
<1> DEFINE n == Len(queue)
<1>1. /\ n \in Nat \ {0} /\ DOMAIN queue = 1 .. n /\ DOMAIN queue' = 1 .. n - 1
      /\ Head(queue) = queue[1] /\ \A i \in 1 .. n - 1 : queue'[i] = queue[i + 1]
  OBVIOUS
<1> HIDE DEF n
<1>2. \A i \in 1 .. n - 1 : i + 1 \in 1 .. n /\ i + 1 # 1
  BY <1>1
<1>3. \A j \in 1 .. n : j = 1 \/ (j - 1 \in 1 .. n - 1 /\ (j - 1) + 1 = j)
  BY <1>1
<1>4. 1 \in DOMAIN queue
  BY <1>1
<1>5. \A j \in DOMAIN queue : j # 1 =>
        PlacesIn(queue[j].resp) \cap PlacesIn(queue[1].resp) = {}
  BY <1>4 DEF QueueApart
<1>6. ASSUME NEW p \in InQueue' PROVE p \in InQueue /\ p \notin PlacesIn(queue[1].resp)
  <2>1. PICK i \in 1 .. n - 1 : p \in PlacesIn(queue'[i].resp)
    BY <1>1 DEF InQueue
  <2>2. p \in PlacesIn(queue[i + 1].resp) /\ i + 1 \in DOMAIN queue /\ i + 1 # 1
    BY <1>1, <1>2, <2>1
  <2> QED BY <1>5, <2>2 DEF InQueue
<1>7. ASSUME NEW p \in InQueue, p \notin PlacesIn(queue[1].resp) PROVE p \in InQueue'
  <2>1. PICK j \in 1 .. n : p \in PlacesIn(queue[j].resp)
    BY <1>1 DEF InQueue
  <2>2. j - 1 \in 1 .. n - 1 /\ queue'[j - 1] = queue[j]
    BY <1>1, <1>3, <1>7, <2>1
  <2> QED BY <1>1, <2>1, <2>2 DEF InQueue
<1>8. PlacesIn(queue[1].resp) \subseteq InQueue
  BY <1>4 DEF InQueue
<1>9. QueueApart'
  <2> SUFFICES ASSUME NEW x \in 1 .. n - 1, NEW y \in 1 .. n - 1, x # y
               PROVE  PlacesIn(queue'[x].resp) \cap PlacesIn(queue'[y].resp) = {}
    BY <1>1 DEF QueueApart
  <2>1. x + 1 \in DOMAIN queue /\ y + 1 \in DOMAIN queue /\ x + 1 # y + 1
    BY <1>1, <1>2
  <2> QED BY <1>1, <2>1 DEF QueueApart
<1> QED BY <1>1, <1>2, <1>4, <1>6, <1>7, <1>8, <1>9

-----------------------------------------------------------------------------
(* Each step takes tokens from one kind of place to another. *)

LEMMA SkipRowApart == ASSUME Inv, ApartInv, SkipRow PROVE ApartInv'
<1>0. TypeOK /\ RowsFit
  BY DEF Inv
<1>1. PICK row \in rows :
        rows' = rows \ {row} /\ forgone' = forgone \cup Sampled(row)
  BY DEF SkipRow, Sampled
<1>2. UNCHANGED <<phase, length, tracked, queue, inHand, sealed>>
  BY DEF SkipRow, hostVars, sealerVars
<1>3. Sampled(row) \subseteq InRows /\ InRows' = InRows \ Sampled(row) /\ RowsApart'
  BY <1>0, <1>1, <1>2, RowLeaves DEF ApartInv
<1>4. UNCHANGED <<Accepted, InTracked, InQueue, InHand, InSealed>>
  BY <1>2, Frames
<1>5. PlacesApart'
  BY <1>1, <1>3, <1>4 DEF ApartInv, PlacesApart
<1>6. Resting'
  BY <1>1, <1>2 DEF ApartInv, Resting
<1> QED BY <1>2, <1>3, <1>5, <1>6
        DEF ApartInv, TrackedApart, QueueApart, SealedApart, QueueSealable

LEMMA StartRowApart == ASSUME Inv, ApartInv, StartRow PROVE ApartInv'
<1>0. TypeOK /\ RowsFit /\ Paired
  BY DEF Inv
<1>1. PICK row \in rows :
        /\ RowId(row[1]) \notin active
        /\ rows' = rows \ {row}
        /\ DOMAIN tracked' = DOMAIN tracked \cup {RowId(row[1])}
        /\ PlacesIn(tracked'[RowId(row[1])].resp) = Sampled(row)
        /\ \A x \in DOMAIN tracked \ {RowId(row[1])} : tracked'[x] = tracked[x]
  BY DEF StartRow, Sampled
<1> DEFINE id == RowId(row[1])
<1>2. UNCHANGED <<phase, length, queue, inHand, sealed, forgone>>
  BY DEF StartRow, hostVars, sealerVars, historyVars
<1>3. Sampled(row) \subseteq InRows /\ InRows' = InRows \ Sampled(row) /\ RowsApart'
  BY <1>0, <1>1, <1>2, RowLeaves DEF ApartInv
<1>4. UNCHANGED <<Accepted, InQueue, InHand, InSealed>>
  BY <1>2, Frames
<1>5. id \notin DOMAIN tracked
  BY <1>0, <1>1 DEF StartRow, Paired
<1> HIDE DEF id
<1>6. InTracked' = InTracked \cup Sampled(row)
  BY <1>1, <1>5 DEF InTracked, id
<1>7. PlacesApart'
  BY <1>2, <1>3, <1>4, <1>6 DEF ApartInv, PlacesApart
<1>8. \A x \in DOMAIN tracked : PlacesIn(tracked[x].resp) \cap Sampled(row) = {}
  BY <1>3 DEF ApartInv, PlacesApart, InTracked
<1>9. TrackedApart'
  BY <1>1, <1>5, <1>8 DEF ApartInv, TrackedApart, id
<1>10. Resting'
  BY <1>1, <1>2 DEF ApartInv, Resting
<1> QED BY <1>2, <1>3, <1>7, <1>9, <1>10
        DEF ApartInv, QueueApart, SealedApart, QueueSealable

LEMMA ExtendRowApart == ASSUME Inv, ApartInv, ExtendRow PROVE ApartInv'
<1>0. TypeOK /\ RowsFit
  BY DEF Inv
<1>1. PICK row \in rows :
        LET id == RowId(row[1])
            new == Slice(row[1], length[row[1]] - row[2], length[row[1]]) IN
        /\ rows' = rows \ {row}
        /\ IF id \in DOMAIN tracked
           THEN /\ tracked' = [tracked EXCEPT ![id].resp = @ \o new]
                /\ UNCHANGED forgone
           ELSE /\ forgone' = forgone \cup PlacesIn(new)
                /\ UNCHANGED tracked
  BY DEF ExtendRow
<1> DEFINE id == RowId(row[1])
<1> DEFINE new == Slice(row[1], length[row[1]] - row[2], length[row[1]])
<1>2. UNCHANGED <<phase, length, queue, inHand, sealed>>
  BY DEF ExtendRow, hostVars, sealerVars
<1>3. Sampled(row) \subseteq InRows /\ InRows' = InRows \ Sampled(row) /\ RowsApart'
  BY <1>0, <1>1, <1>2, RowLeaves DEF ApartInv
<1>4. UNCHANGED <<Accepted, InQueue, InHand, InSealed>>
  BY <1>2, Frames
<1>5. new \in Seq(Place) /\ PlacesIn(new) = Sampled(row)
  BY <1>0, RowType DEF Sampled
<1> HIDE DEF id, new
<1>6. ASSUME id \in DOMAIN tracked PROVE PlacesApart' /\ TrackedApart'
  <2>1. UNCHANGED forgone /\ tracked' = [tracked EXCEPT ![id].resp = @ \o new]
    BY <1>1, <1>6 DEF id, new
  <2>2. tracked[id] \in Draft
    BY <1>0, <1>6 DEF TypeOK
  <2>3. /\ DOMAIN tracked' = DOMAIN tracked
        /\ PlacesIn(tracked'[id].resp) = PlacesIn(tracked[id].resp) \cup Sampled(row)
        /\ \A x \in DOMAIN tracked \ {id} : tracked'[x] = tracked[x]
    <3>1. tracked'[id].resp = tracked[id].resp \o new
      BY <1>6, <2>1, <2>2 DEF Draft
    <3>2. tracked[id].resp \in Seq(Place)
      BY <2>2 DEF Draft
    <3> QED BY <1>5, <2>1, <3>1, <3>2, ConcatPlaces
  <2>4. InTracked' = InTracked \cup Sampled(row)
    BY <1>6, <2>3 DEF InTracked
  <2>5. PlacesApart'
    BY <1>3, <1>4, <2>1, <2>4 DEF ApartInv, PlacesApart
  <2>6. \A x \in DOMAIN tracked : PlacesIn(tracked[x].resp) \cap Sampled(row) = {}
    BY <1>3 DEF ApartInv, PlacesApart, InTracked
  <2>7. TrackedApart'
    BY <1>6, <2>3, <2>6 DEF ApartInv, TrackedApart
  <2> QED BY <2>5, <2>7
<1>7. ASSUME id \notin DOMAIN tracked PROVE PlacesApart' /\ TrackedApart'
  <2>1. UNCHANGED tracked /\ forgone' = forgone \cup Sampled(row)
    BY <1>1, <1>5, <1>7 DEF id, new
  <2>2. UNCHANGED InTracked
    BY <2>1, Frames
  <2>3. PlacesApart'
    BY <1>3, <1>4, <2>1, <2>2 DEF ApartInv, PlacesApart
  <2> QED BY <2>1, <2>3 DEF ApartInv, TrackedApart
<1>8. Resting'
  BY <1>1, <1>2 DEF ApartInv, Resting
<1> QED BY <1>2, <1>3, <1>6, <1>7, <1>8
        DEF ApartInv, QueueApart, SealedApart, QueueSealable

LEMMA SealStaleApart == ASSUME Inv, ApartInv, SealStale PROVE ApartInv'
<1>0. TypeOK
  BY DEF Inv
<1>1. PICK id \in stale : SealDraft(id)
  BY DEF SealStale
<1>2. /\ phase = "sealing"
      /\ UNCHANGED <<phase, length, rows, inHand, sealed>>
  BY DEF SealStale, hostVars
<1>3. UNCHANGED <<Accepted, InRows, InHand, InSealed>>
  BY <1>2, Frames
<1>4. Resting' /\ RowsApart' /\ SealedApart'
  BY <1>2 DEF ApartInv, Resting, RowsApart, SealedApart
<1>5. CASE id \notin DOMAIN tracked
  <2>1. UNCHANGED <<tracked, queue, forgone>>
    BY <1>1, <1>5 DEF SealDraft
  <2>2. UNCHANGED <<InTracked, InQueue>>
    BY <2>1, Frames
  <2> QED BY <1>2, <1>3, <1>4, <2>1, <2>2
      DEF ApartInv, PlacesApart, TrackedApart, QueueApart, QueueSealable
<1>6. CASE id \in DOMAIN tracked
  <2> DEFINE d == tracked[id]
  <2>1. tracked' = Forget(tracked, id) /\ d \in Draft
    BY <1>0, <1>1, <1>6 DEF SealDraft, TypeOK
  <2>2. /\ PlacesIn(d.resp) \subseteq InTracked
        /\ InTracked' = InTracked \ PlacesIn(d.resp)
        /\ TrackedApart'
    BY <1>6, <2>1, TrackedLeaves DEF ApartInv
  <2>3. CASE Sealable(d) /\ Len(queue) < QueueBound
    <3>1. queue' = Append(queue, d) /\ UNCHANGED forgone
      BY <1>1, <1>6, <2>3 DEF SealDraft
    <3>2. InQueue \cap PlacesIn(d.resp) = {}
      BY <2>2 DEF ApartInv, PlacesApart
    <3>3. /\ InQueue' = InQueue \cup PlacesIn(d.resp)
          /\ QueueApart'
          /\ \A i \in DOMAIN queue' : (i \in DOMAIN queue /\ queue'[i] = queue[i]) \/ queue'[i] = d
      BY <1>0, <2>1, <3>1, <3>2, QueueGrows DEF ApartInv, TypeOK
    <3>4. QueueSealable'
      BY <1>2, <2>3, <3>3 DEF ApartInv, QueueSealable
    <3>5. PlacesApart'
      BY <1>3, <2>2, <3>1, <3>3 DEF ApartInv, PlacesApart
    <3> QED BY <1>4, <2>2, <3>3, <3>4, <3>5 DEF ApartInv
  <2>4. CASE ~(Sealable(d) /\ Len(queue) < QueueBound)
    <3>1. forgone' = forgone \cup PlacesIn(d.resp) /\ UNCHANGED queue
      BY <1>1, <1>6, <2>4 DEF SealDraft
    <3>2. UNCHANGED InQueue
      BY <3>1, Frames
    <3>3. PlacesApart'
      BY <1>3, <2>2, <3>1, <3>2 DEF ApartInv, PlacesApart
    <3> QED BY <1>2, <1>4, <2>2, <3>1, <3>3 DEF ApartInv, QueueApart, QueueSealable
  <2> QED BY <2>3, <2>4
<1> QED BY <1>5, <1>6

LEMMA PutAdds ==
    ASSUME NEW d, Put(d), SealedApart, InSealed \cap PlacesIn(d.resp) = {}
    PROVE  InSealed' = InSealed \cup PlacesIn(d.resp) /\ SealedApart'
<1>1. sealed' = sealed \cup {d}
  BY DEF Put
<1>2. InSealed' = InSealed \cup PlacesIn(d.resp)
  BY <1>1 DEF InSealed
<1>3. \A e \in sealed : PlacesIn(e.resp) \cap PlacesIn(d.resp) = {}
  BY DEF InSealed
<1>4. SealedApart'
  BY <1>1, <1>3 DEF SealedApart
<1> QED BY <1>2, <1>4

LEMMA TakeApart == ASSUME Inv, ApartInv, Take PROVE ApartInv'
<1>0. queue \in Seq(Draft)
  BY DEF Inv, TypeOK
<1>1. /\ inHand = None /\ inHand' = Head(queue) /\ queue # <<>> /\ queue' = Tail(queue)
      /\ phase \notin {"off", "refused"}
      /\ UNCHANGED <<phase, length, rows, tracked, sealed, forgone>>
  BY DEF Take, hostVars, callVars, historyVars
<1>2. UNCHANGED <<Accepted, InRows, InTracked, InSealed>>
  BY <1>1, Frames
<1>3. /\ PlacesIn(Head(queue).resp) \subseteq InQueue
      /\ InQueue' = InQueue \ PlacesIn(Head(queue).resp)
      /\ QueueApart'
      /\ 1 \in DOMAIN queue /\ Head(queue) = queue[1]
      /\ \A i \in DOMAIN queue' : i + 1 \in DOMAIN queue /\ queue'[i] = queue[i + 1]
  BY <1>0, <1>1, QueueShrinks DEF ApartInv
<1>4. Head(queue) # None
  BY <1>0, <1>1, DrafterAssumption
<1>5. InHand = {} /\ InHand' = PlacesIn(Head(queue).resp)
  BY <1>1, <1>4 DEF InHand
<1>6. PlacesApart'
  BY <1>1, <1>2, <1>3, <1>5 DEF ApartInv, PlacesApart
<1>7. QueueSealable'
  BY <1>1, <1>3 DEF ApartInv, QueueSealable
<1>8. Resting' /\ RowsApart' /\ TrackedApart' /\ SealedApart'
  <2>1. phase \notin {"boot", "off", "refused"}
    BY <1>1 DEF ApartInv, Resting
  <2> QED BY <1>1, <2>1 DEF ApartInv, Resting, RowsApart, TrackedApart, SealedApart
<1> QED BY <1>3, <1>6, <1>7, <1>8 DEF ApartInv

LEMMA PutTakenApart == ASSUME Inv, ApartInv, PutTaken PROVE ApartInv'
<1>1. /\ inHand # None /\ inHand' = None /\ Put(inHand)
      /\ UNCHANGED <<phase, length, rows, tracked, queue, forgone>>
  BY DEF PutTaken, hostVars, callVars
<1>2. UNCHANGED <<Accepted, InRows, InTracked, InQueue>>
  BY <1>1, Frames
<1>3. InHand = PlacesIn(inHand.resp) /\ InHand' = {}
  BY <1>1 DEF InHand
<1>4. InSealed' = InSealed \cup PlacesIn(inHand.resp) /\ SealedApart'
  <2>1. InSealed \cap PlacesIn(inHand.resp) = {}
    BY <1>3 DEF ApartInv, PlacesApart
  <2> QED BY <1>1, <2>1, PutAdds DEF ApartInv
<1>5. PlacesApart'
  BY <1>1, <1>2, <1>3, <1>4 DEF ApartInv, PlacesApart
<1> QED BY <1>1, <1>4, <1>5
        DEF ApartInv, Resting, RowsApart, TrackedApart, QueueApart, QueueSealable

LEMMA PutRaisesApart == ASSUME Inv, ApartInv, PutRaises PROVE ApartInv'
<1>1. /\ inHand # None /\ inHand' = None
      /\ forgone' = forgone \cup PlacesIn(inHand.resp)
      /\ UNCHANGED <<phase, length, rows, tracked, queue, sealed>>
  BY DEF PutRaises, hostVars, callVars
<1>2. UNCHANGED <<Accepted, InRows, InTracked, InQueue, InSealed>>
  BY <1>1, Frames
<1>3. InHand = PlacesIn(inHand.resp) /\ InHand' = {}
  BY <1>1 DEF InHand
<1>4. PlacesApart'
  BY <1>1, <1>2, <1>3 DEF ApartInv, PlacesApart
<1> QED BY <1>1, <1>4
        DEF ApartInv, Resting, RowsApart, TrackedApart, QueueApart, SealedApart, QueueSealable

LEMMA FlushApart == ASSUME Inv, ApartInv, Flush PROVE ApartInv'
<1>1. PICK id \in DOMAIN tracked :
        /\ tracked' = Forget(tracked, id)
        /\ IF Sealable(tracked[id])
           THEN Put(tracked[id]) /\ UNCHANGED forgone
           ELSE /\ forgone' = forgone \cup PlacesIn(tracked[id].resp)
                /\ UNCHANGED <<store, sealed>>
  BY DEF Flush
<1> DEFINE d == tracked[id]
<1>2. UNCHANGED <<phase, length, rows, queue, inHand>>
  BY DEF Flush, hostVars, callVars, sealerVars
<1>3. UNCHANGED <<Accepted, InRows, InQueue, InHand>>
  BY <1>2, Frames
<1>4. /\ PlacesIn(d.resp) \subseteq InTracked
      /\ InTracked' = InTracked \ PlacesIn(d.resp)
      /\ TrackedApart'
  BY <1>1, TrackedLeaves DEF ApartInv
<1>5. PlacesApart' /\ SealedApart'
  <2>1. CASE Sealable(d)
    <3>1. InSealed \cap PlacesIn(d.resp) = {}
      BY <1>4 DEF ApartInv, PlacesApart
    <3>2. InSealed' = InSealed \cup PlacesIn(d.resp) /\ SealedApart' /\ UNCHANGED forgone
      BY <1>1, <2>1, <3>1, PutAdds DEF ApartInv
    <3> QED BY <1>3, <1>4, <3>2 DEF ApartInv, PlacesApart
  <2>2. CASE ~Sealable(d)
    <3>1. UNCHANGED InSealed /\ SealedApart' /\ forgone' = forgone \cup PlacesIn(d.resp)
      BY <1>1, <2>2, Frames DEF ApartInv, SealedApart
    <3> QED BY <1>3, <1>4, <3>1 DEF ApartInv, PlacesApart
  <2> QED BY <2>1, <2>2
<1> QED BY <1>2, <1>4, <1>5 DEF ApartInv, Resting, RowsApart, QueueApart, QueueSealable

LEMMA EndsApart == ASSUME ApartInv, Ends PROVE ApartInv'
<1>1. /\ rows' = {} /\ DOMAIN tracked' = {} /\ queue' = <<>> /\ inHand' = None
      /\ forgone' = forgone \cup InMemory /\ UNCHANGED <<length, sealed>>
  BY DEF Ends, NoDraft
<1>2. DOMAIN queue' = {}
  BY <1>1
<1>3. InRows' = {} /\ InTracked' = {} /\ InQueue' = {} /\ InHand' = {}
  BY <1>1, <1>2 DEF InRows, InTracked, InQueue, InHand
<1>4. UNCHANGED <<Accepted, InSealed>>
  BY <1>1, Frames
<1>5. PlacesApart'
  BY <1>1, <1>3, <1>4 DEF ApartInv, PlacesApart, InMemory
<1> QED BY <1>1, <1>2, <1>5
        DEF ApartInv, Resting, RowsApart, TrackedApart, QueueApart, SealedApart, QueueSealable

\* A call adds what its rows sampled to what was accepted, and nothing else.
LEMMA CallApart == ASSUME Inv, ApartInv, Call PROVE ApartInv'
<1>0. PICK B \in SUBSET (Req \ gone) : \E k \in [B -> 1 .. MaxStep] :
        /\ \A r \in B : length[r] + k[r] <= Len(Stream[r])
        /\ rows' = {<<r, k[r]>> : r \in B}
        /\ length' = [r \in Req |-> IF r \in B THEN length[r] + k[r] ELSE length[r]]
  BY DEF Call
<1>1. PICK k \in [B -> 1 .. MaxStep] :
        /\ \A r \in B : length[r] + k[r] <= Len(Stream[r])
        /\ rows' = {<<r, k[r]>> : r \in B}
        /\ length' = [r \in Req |-> IF r \in B THEN length[r] + k[r] ELSE length[r]]
  BY <1>0
<1>2. /\ phase = "idle" /\ phase' = "rows"
      /\ UNCHANGED <<tracked, queue, inHand, sealed, forgone>>
  BY DEF Call, sealerVars, historyVars
<1>3. UNCHANGED <<InTracked, InQueue, InHand, InSealed>>
  BY <1>2, Frames
<1>4. InRows = {}
  BY <1>2 DEF ApartInv, Resting, InRows
<1>5. ASSUME NEW r \in Req
      PROVE  /\ length[r] \in Nat /\ PromptLen[r] \in Nat /\ length[r] >= PromptLen[r]
             /\ Len(Stream[r]) \in Nat /\ Len(Stream[r]) <= MaxLen
             /\ length[r] <= Len(Stream[r])
  BY StreamType, StreamAssumption DEF Inv, TypeOK
<1>6. ASSUME NEW r \in B
      PROVE  /\ r \in Req /\ k[r] \in Nat \ {0} /\ length'[r] = length[r] + k[r]
             /\ length'[r] - k[r] = length[r]
  BY <1>1, <1>5, DrafterAssumption
<1> DEFINE New(r) == {<<r, i>> : i \in length[r] + 1 .. length[r] + k[r]}
<1>7. ASSUME NEW r \in B
      PROVE  PlacesIn(Slice(r, length'[r] - k[r], length'[r])) = New(r)
  <2>1. length[r] \in Nat /\ length[r] + k[r] \in Nat
    BY <1>5, <1>6
  <2> QED BY <1>6, <2>1, SlicePlaces
<1>8. /\ \A r \in B : New(r) \subseteq InRows'
      /\ \A p \in InRows' : \E r \in B : p \in New(r)
  <2> HIDE DEF New
  <2>1. ASSUME NEW r \in B PROVE New(r) \subseteq InRows'
    <3>1. /\ <<r, k[r]>> \in rows'
          /\ PlacesIn(Slice(<<r, k[r]>>[1], length'[<<r, k[r]>>[1]] - <<r, k[r]>>[2],
                            length'[<<r, k[r]>>[1]])) = New(r)
      BY <1>1, <1>7
    <3> QED BY <3>1 DEF InRows
  <2>2. ASSUME NEW p \in InRows' PROVE \E r \in B : p \in New(r)
    <3>1. PICK row \in rows' :
            p \in PlacesIn(Slice(row[1], length'[row[1]] - row[2], length'[row[1]]))
      BY DEF InRows
    <3>2. PICK r \in B : row = <<r, k[r]>>
      BY <1>1
    <3>3. p \in PlacesIn(Slice(r, length'[r] - k[r], length'[r]))
      BY <3>1, <3>2
    <3> QED BY <1>7, <3>3
  <2> QED BY <2>1, <2>2
<1>9. InRows' \subseteq Accepted'
  <2> SUFFICES ASSUME NEW r \in B, NEW i \in length[r] + 1 .. length[r] + k[r]
               PROVE  <<r, i>> \in Accepted'
    BY <1>8
  <2>1. r \in Req /\ i \in 1 .. MaxLen
    BY <1>1, <1>5, <1>6, DrafterAssumption
  <2>2. i > PromptLen[r] /\ i <= length'[r]
    BY <1>5, <1>6
  <2> QED BY <2>1, <2>2 DEF Accepted
<1>10. InRows' \cap Accepted = {}
  <2> SUFFICES ASSUME NEW r \in B, NEW i \in length[r] + 1 .. length[r] + k[r],
                      <<r, i>> \in Accepted
               PROVE  FALSE
    BY <1>8
  <2>1. i <= length[r] BY DEF Accepted
  <2> QED BY <1>5, <1>6, <2>1
<1>11. Accepted \subseteq Accepted'
  <2> SUFFICES ASSUME NEW p \in Accepted PROVE p \in Accepted'
    OBVIOUS
  <2>1. p[1] \in Req /\ p[2] \in Nat /\ p[2] <= length[p[1]]
    BY DrafterAssumption DEF Accepted
  <2>2. length'[p[1]] \in Nat /\ length[p[1]] <= length'[p[1]]
    <3>1. CASE p[1] \in B BY <1>5, <1>6, <3>1
    <3>2. CASE p[1] \notin B BY <1>1, <1>5, <2>1, <3>2
    <3> QED BY <3>1, <3>2
  <2>3. p[2] <= length'[p[1]]
    BY <1>5, <2>1, <2>2
  <2> QED BY <2>3 DEF Accepted
<1>12. ASSUME NEW p \in Accepted', p \notin Accepted PROVE p \in InRows'
  <2>1. /\ p = <<p[1], p[2]>> /\ p[1] \in Req /\ p[2] \in 1 .. MaxLen
        /\ p[2] > PromptLen[p[1]] /\ p[2] <= length'[p[1]]
    BY DEF Accepted
  <2>2. ~(p[2] <= length[p[1]])
    BY <1>12, <2>1 DEF Accepted
  <2>3. p[1] \in B
    BY <1>1, <2>1, <2>2
  <2>4. p[2] \in length[p[1]] + 1 .. length[p[1]] + k[p[1]]
    <3>1. /\ length[p[1]] \in Nat /\ p[2] \in Nat
          /\ length'[p[1]] = length[p[1]] + k[p[1]]
      BY <1>5, <1>6, <2>1, <2>3, DrafterAssumption
    <3> QED BY <1>6, <2>1, <2>2, <2>3, <3>1
  <2>5. p \in New(p[1])
    BY <2>1, <2>4
  <2> QED BY <1>8, <2>3, <2>5
<1>13. PlacesApart'
  BY <1>2, <1>3, <1>4, <1>9, <1>10, <1>11, <1>12 DEF ApartInv, PlacesApart
<1>14. RowsApart'
  <2>1. \A a, b \in rows' : a[1] = b[1] => a = b
    BY <1>1
  <2>2. \A row \in rows' : length'[row[1]] - row[2] >= PromptLen[row[1]]
    BY <1>1, <1>5, <1>6
  <2> QED BY <2>1, <2>2 DEF RowsApart
<1>15. Resting'
  BY <1>2 DEF Resting
<1> QED BY <1>2, <1>13, <1>14, <1>15
        DEF ApartInv, TrackedApart, QueueApart, SealedApart, QueueSealable

LEMMA InitApart == Init => ApartInv
<1> SUFFICES ASSUME Init PROVE ApartInv OBVIOUS
<1>1. /\ rows = {} /\ DOMAIN tracked = {} /\ DOMAIN queue = {} /\ inHand = None
      /\ sealed = {} /\ forgone = {} /\ length = PromptLen /\ queue = <<>>
  BY DEF Init, NoDraft
<1>2. InRows = {} /\ InTracked = {} /\ InQueue = {} /\ InHand = {} /\ InSealed = {}
  BY <1>1 DEF InRows, InTracked, InQueue, InHand, InSealed
<1>3. Accepted = {}
  BY <1>1, StreamType, DrafterAssumption DEF Accepted
<1> QED BY <1>1, <1>2, <1>3
        DEF ApartInv, Resting, RowsApart, PlacesApart, TrackedApart, QueueApart, SealedApart,
            QueueSealable

LEMMA ApartStep == Inv /\ ApartInv /\ [Next]_vars => ApartInv'
<1> SUFFICES ASSUME Inv, ApartInv, [Next]_vars PROVE ApartInv' OBVIOUS
<1> DEFINE Still == UNCHANGED <<length, rows, tracked, queue, inHand, sealed, forgone>>
<1>1. ASSUME Still, Resting' PROVE ApartInv'
  <2>1. UNCHANGED <<Accepted, InRows, InTracked, InQueue, InHand, InSealed>>
    BY <1>1, Frames
  <2> QED BY <1>1, <2>1
      DEF ApartInv, RowsApart, PlacesApart, TrackedApart, QueueApart, SealedApart, QueueSealable
<1>2. CASE WarmStep \/ RowsEnd \/ Return \/ Exit \/ Start \/ Damage \/ Over \/ UNCHANGED vars
  <2>1. Still
    BY <1>2 DEF WarmStep, WarmSkips, WarmReplays, ReplayFails, WarmRefuses, WarmEnds, RowsEnd,
       Return, Exit, Start, Damage, Over, vars, hostVars, callVars, sealerVars, historyVars
  <2>2. \/ UNCHANGED phase
        \/ phase = "boot"
        \/ phase = "rows" /\ rows = {} /\ phase' \notin {"boot", "off", "refused"}
        \/ phase \notin {"rows", "boot"} /\ phase' \notin {"rows", "boot", "off", "refused"}
        \/ phase \in {"off", "refused"}
    BY <1>2 DEF WarmStep, WarmSkips, WarmReplays, ReplayFails, WarmRefuses, WarmEnds, RowsEnd,
       Return, Exit, Start, Damage, Over, vars
  <2>3. Resting'
    BY <2>1, <2>2 DEF ApartInv, Resting
  <2> QED BY <1>1, <2>1, <2>3
<1> QED BY <1>2, SkipRowApart, StartRowApart, ExtendRowApart, SealStaleApart, TakeApart,
           PutTakenApart, PutRaisesApart, FlushApart, EndsApart, CallApart
        DEF Next, MainStep, ProposeStep, SealerStep

LEMMA Apart == Spec => [](Inv /\ ApartInv)
BY InitInv, InvStep, InitApart, ApartStep, PTL DEF Spec

LEMMA OneOrNone ==
    ASSUME NEW S, \A x, y \in S : x = y
    PROVE  Cardinality(S) = IF S = {} THEN 0 ELSE 1
<1>1. CASE S = {}
  BY <1>1, FS_EmptySet
<1>2. CASE S # {}
  <2>1. PICK x \in S : S = {x}
    BY <1>2
  <2> QED BY <1>2, <2>1, FS_Singleton
<1> QED BY <1>1, <1>2

LEMMA OneHome ==
    ASSUME ApartInv, NEW p \in Accepted
    PROVE  Homes(p) = 1
<1> DEFINE T == {id \in DOMAIN tracked : p \in PlacesIn(tracked[id].resp)}
<1> DEFINE Q == {i \in DOMAIN queue : p \in PlacesIn(queue[i].resp)}
<1> DEFINE S == {d \in sealed : p \in PlacesIn(d.resp)}
<1>1. Cardinality(T) = IF p \in InTracked THEN 1 ELSE 0
  <2>1. \A x, y \in T : x = y
    BY DEF ApartInv, TrackedApart
  <2>2. T # {} <=> p \in InTracked
    BY DEF InTracked
  <2> HIDE DEF T
  <2> QED BY <2>1, <2>2, OneOrNone
<1>2. Cardinality(Q) = IF p \in InQueue THEN 1 ELSE 0
  <2>1. \A x, y \in Q : x = y
    BY DEF ApartInv, QueueApart
  <2>2. Q # {} <=> p \in InQueue
    BY DEF InQueue
  <2> HIDE DEF Q
  <2> QED BY <2>1, <2>2, OneOrNone
<1>3. Cardinality(S) = IF p \in InSealed THEN 1 ELSE 0
  <2>1. \A x, y \in S : x = y
    BY DEF ApartInv, SealedApart
  <2>2. S # {} <=> p \in InSealed
    BY DEF InSealed
  <2> HIDE DEF S
  <2> QED BY <2>1, <2>2, OneOrNone
<1>4. Homes(p) = Cardinality(T) + Cardinality(Q) + Cardinality(S)
                 + (IF p \in InHand THEN 1 ELSE 0)
                 + (IF p \in InRows THEN 1 ELSE 0)
                 + (IF p \in forgone THEN 1 ELSE 0)
  BY DEF Homes
<1> HIDE DEF T, Q, S
<1>5. PlacesApart
  BY DEF ApartInv
<1>6. /\ p \in InRows \/ p \in InTracked \/ p \in InQueue \/ p \in InHand \/ p \in InSealed
           \/ p \in forgone
      /\ p \in InRows => p \notin InTracked /\ p \notin InQueue /\ p \notin InHand
                           /\ p \notin InSealed /\ p \notin forgone
      /\ p \in InTracked => p \notin InQueue /\ p \notin InHand /\ p \notin InSealed
                              /\ p \notin forgone
      /\ p \in InQueue => p \notin InHand /\ p \notin InSealed /\ p \notin forgone
      /\ p \in InHand => p \notin InSealed /\ p \notin forgone
      /\ p \in InSealed => p \notin forgone
  BY <1>5 DEF PlacesApart
<1> QED BY <1>1, <1>2, <1>3, <1>4, <1>6

\* No accepted token is lost or kept twice, whatever fails and restarts: it is in one
\* row, one draft, or given up (_propose_rows, _seal, _drain_seals, _seal_all).
THEOREM TokensAccounted == Spec => []EveryTokenAccounted
<1>1. Inv /\ ApartInv => EveryTokenAccounted
  <2> SUFFICES ASSUME Inv, ApartInv, NEW r \in Req, NEW i \in PromptLen[r] + 1 .. length[r]
               PROVE  Homes(<<r, i>>) = 1
    BY DEF EveryTokenAccounted
  <2>1. /\ PromptLen[r] \in Nat /\ length[r] \in Nat
        /\ length[r] <= Len(Stream[r]) /\ Len(Stream[r]) <= MaxLen /\ Len(Stream[r]) \in Nat
    BY StreamType, StreamAssumption DEF Inv, TypeOK
  <2>2. i \in 1 .. MaxLen /\ i > PromptLen[r] /\ i <= length[r]
    BY <2>1, DrafterAssumption
  <2>3. <<r, i>> \in Accepted
    BY <2>2 DEF Accepted
  <2> QED BY <2>3, OneHome
<1> QED BY <1>1, Apart, PTL

-----------------------------------------------------------------------------
(* The log of sealed drafts. *)

\* A put adds one draft, of accepted tokens that no sealed draft has.
LEMMA PutSeals ==
    ASSUME Inv, ApartInv, NEW d \in Draft, Put(d), Sealable(d), UNCHANGED length,
           PlacesIn(d.resp) \subseteq InTracked \/ PlacesIn(d.resp) \subseteq InHand
    PROVE  Log!Seal
<1>1. d.resp \in Seq(Place) /\ d.resp # <<>> /\ Len(d.resp) >= MinSeal
  BY DEF Draft, Sealable
<1>2. PlacesIn(d.resp) \subseteq Accepted /\ PlacesIn(d.resp) \cap InSealed = {}
  BY DEF ApartInv, PlacesApart
<1>3. d \notin sealed
  <2> SUFFICES ASSUME d \in sealed PROVE FALSE OBVIOUS
  <2>1. d.resp[1] \in PlacesIn(d.resp)
    BY <1>1 DEF PlacesIn
  <2>2. PlacesIn(d.resp) \subseteq InSealed
    BY DEF InSealed
  <2> QED BY <1>2, <2>1, <2>2
<1>4. sealed' = sealed \cup {d} /\ d \in sealed' \ sealed
  BY <1>3 DEF Put
<1>5. Log!InLog = InSealed
  BY DEF Log!InLog, InSealed, PlacesIn
<1>6. ASSUME NEW i \in DOMAIN d.resp PROVE Log!Fresh(d.resp[i])
  <2>1. d.resp[i] \in Accepted /\ d.resp[i] \notin InSealed
    BY <1>2 DEF PlacesIn
  <2> DEFINE p == d.resp[i]
  <2>2. /\ p[1] \in Req /\ p[2] \in Nat /\ p[2] > PromptLen[p[1]] /\ p[2] <= length[p[1]]
    BY <2>1, DrafterAssumption DEF Accepted
  <2>3. PromptLen[p[1]] \in Nat /\ length[p[1]] \in Nat
    BY <2>2, StreamType DEF Inv, TypeOK
  <2>4. p[2] \in PromptLen[p[1]] + 1 .. length[p[1]]
    BY <2>2, <2>3
  <2> QED BY <1>5, <2>1, <2>2, <2>4 DEF Log!Fresh
<1> QED BY <1>1, <1>4, <1>6 DEF Log!Seal

LEMMA CallAccepts == ASSUME Inv, Call PROVE Log!Accept
<1>0. PICK B \in SUBSET (Req \ gone) : \E k \in [B -> 1 .. MaxStep] :
        length' = [r \in Req |-> IF r \in B THEN length[r] + k[r] ELSE length[r]]
  BY DEF Call
<1>1. PICK k \in [B -> 1 .. MaxStep] :
        length' = [r \in Req |-> IF r \in B THEN length[r] + k[r] ELSE length[r]]
  BY <1>0
<1>2. ASSUME NEW r \in Req PROVE length'[r] \in Nat /\ length'[r] >= length[r]
  <2>1. length[r] \in Nat
    BY DEF Inv, TypeOK
  <2>2. r \in B => k[r] \in Nat
    BY DrafterAssumption
  <2> QED BY <1>1, <2>1, <2>2
<1>3. length' \in [Req -> Nat]
  BY <1>1, <1>2
<1>4. UNCHANGED sealed
  BY DEF Call, historyVars
<1> QED BY <1>2, <1>3, <1>4 DEF Log!Accept

LEMMA LogStep == Inv /\ ApartInv /\ [Next]_vars => [Log!Next]_<<length, sealed>>
<1> SUFFICES ASSUME Inv, ApartInv, [Next]_vars PROVE [Log!Next]_<<length, sealed>>
  OBVIOUS
<1>1. CASE Call
  BY <1>1, CallAccepts DEF Log!Next
<1>2. CASE PutTaken
  <2>1. /\ inHand # None /\ inHand \in Draft /\ Put(inHand) /\ UNCHANGED length
        /\ Sealable(inHand)
    BY <1>2 DEF PutTaken, hostVars, Inv, TypeOK, ApartInv, QueueSealable
  <2>2. PlacesIn(inHand.resp) \subseteq InHand
    BY <2>1 DEF InHand
  <2> QED BY <2>1, <2>2, PutSeals DEF Log!Next
<1>3. CASE Flush
  <2>1. PICK id \in DOMAIN tracked :
          IF Sealable(tracked[id]) THEN Put(tracked[id]) ELSE UNCHANGED sealed
    BY <1>3 DEF Flush
  <2>2. UNCHANGED length /\ tracked[id] \in Draft
    BY <1>3 DEF Flush, hostVars, Inv, TypeOK
  <2>3. PlacesIn(tracked[id].resp) \subseteq InTracked
    BY DEF InTracked
  <2> QED BY <2>1, <2>2, <2>3, PutSeals DEF Log!Next
<1>4. CASE ~(Call \/ PutTaken \/ Flush)
  BY <1>4 DEF Next, MainStep, WarmStep, WarmSkips, WarmReplays, ReplayFails, WarmRefuses,
     WarmEnds, ProposeStep, SkipRow, StartRow, ExtendRow, RowsEnd, SealStale, Return,
     SealerStep, Take, PutRaises, Exit, Ends, Start, Damage, Over, vars, hostVars,
     historyVars
<1> QED BY <1>1, <1>2, <1>3, <1>4

\* The drafter implements the log of drafts: over all processes, faults and crashes
\* each put adds one draft of accepted tokens that no sealed draft has, and none is
\* shorter than the minimum (_seal, _drain_seals, _seal_all).
THEOREM DraftsAreLogged == Spec => ImplementsDraftLog
<1>1. Init => Log!Init
  BY DEF Init, Log!Init
<1> QED BY <1>1, Apart, LogStep, PTL DEF Spec, ImplementsDraftLog, Log!Spec

-----------------------------------------------------------------------------
(* What a boot recalls. *)

\* The tree holds no more than its fill; and while nothing has gone wrong, every
\* sealed draft lies in the store, and a boot has read it or will.
Recall ==
    /\ IsFiniteSet(warmed) /\ Cardinality(warmed) <= WarmMax
    /\ faults = 0 =>
          /\ Synth \notin active
          /\ {Encoded(d) : d \in sealed} \subseteq store
          /\ phase = "boot" => {Encoded(d) : d \in sealed} \subseteq toWarm \cup warmed

LEMMA InitRecall == Init => Recall
BY FS_EmptySet, DrafterAssumption DEF Init, Recall

LEMMA WarmRecalls == ASSUME Inv, Recall, WarmStep PROVE Recall'
<1>1. CASE WarmSkips
  <2>1. PICK label \in toWarm : Unusable(label) /\ toWarm' = toWarm \ {label}
    BY <1>1 DEF WarmSkips
  <2>2. UNCHANGED <<phase, active, warmed, store, sealed, faults>>
    BY <1>1 DEF WarmSkips, treeVars, storeVars, historyVars
  <2>3. ASSUME faults = 0, NEW d \in sealed PROVE label # Encoded(d)
    <3>1. Encoded(d) \in store /\ Encoded(d) \in Record
      BY <2>3, EncodedType DEF Recall, Inv, TypeOK
    <3> QED BY <2>1, <3>1, DrafterAssumption DEF Unusable
  <2> QED BY <2>1, <2>2, <2>3 DEF Recall
<1>2. CASE WarmReplays
  <2>1. PICK label \in toWarm :
          /\ toWarm' = toWarm \ {label}
          /\ warmed' = warmed \cup {label}
          /\ store' = store \cup {label}
    BY <1>2 DEF WarmReplays
  <2>2. Cardinality(warmed) < WarmMax /\ UNCHANGED <<phase, active, sealed, faults>>
    BY <1>2 DEF WarmReplays, treeVars, historyVars
  <2>3. IsFiniteSet(warmed') /\ Cardinality(warmed') <= WarmMax
    <3>1. /\ Cardinality(warmed) \in Nat /\ IsFiniteSet(warmed')
          /\ Cardinality(warmed') \in {Cardinality(warmed), Cardinality(warmed) + 1}
      BY <2>1, FS_AddElement, FS_CardinalityType DEF Recall
    <3> QED BY <2>2, <3>1, DrafterAssumption
  <2> QED BY <2>1, <2>2, <2>3 DEF Recall
<1>3. CASE ReplayFails
  <2>1. faults' # 0
    BY <1>3 DEF ReplayFails, Fault, Recall, Inv, TypeOK
  <2>2. UNCHANGED warmed
    BY <1>3 DEF ReplayFails
  <2> QED BY <2>1, <2>2 DEF Recall
<1>4. CASE WarmRefuses \/ WarmEnds
  BY <1>4 DEF WarmRefuses, WarmEnds, treeVars, storeVars, warmVars, historyVars, Recall
<1> QED BY <1>1, <1>2, <1>3, <1>4 DEF WarmStep

LEMMA RecallStep == Inv /\ ApartInv /\ Recall /\ [Next]_vars => Recall'
<1> SUFFICES ASSUME Inv, ApartInv, Recall, [Next]_vars PROVE Recall' OBVIOUS
<1>1. CASE StartRow
  <2>1. PICK row \in rows : active' = active \cup {RowId(row[1])}
    BY <1>1 DEF StartRow
  <2>2. RowId(row[1]) # Synth
    BY RowType, DrafterAssumption DEF Inv
  <2>3. UNCHANGED <<phase, store, toWarm, warmed, sealed, faults>>
    BY <1>1 DEF StartRow, storeVars, warmVars, historyVars
  <2> QED BY <2>1, <2>2, <2>3 DEF Recall
<1>2. CASE Call \/ SkipRow \/ ExtendRow \/ RowsEnd \/ Return \/ Exit \/ Take \/ Over
           \/ UNCHANGED vars
  <2>1. /\ UNCHANGED <<active, store, toWarm, warmed, sealed, faults>>
        /\ phase' = "boot" => phase = "boot"
    BY <1>2 DEF Call, SkipRow, ExtendRow, RowsEnd, Return, Exit, Take, Over, vars, treeVars,
       storeVars, warmVars, historyVars
  <2> QED BY <2>1 DEF Recall
<1>3. CASE SealStale
  <2>1. active' \subseteq active /\ UNCHANGED <<phase, store, toWarm, warmed, sealed, faults>>
    BY <1>3 DEF SealStale, storeVars, warmVars
  <2> QED BY <2>1 DEF Recall
<1>4. CASE PutRaises \/ Damage
  <2>1. faults' # 0 /\ UNCHANGED warmed
    BY <1>4 DEF PutRaises, Damage, Fault, warmVars, Inv, TypeOK
  <2> QED BY <2>1 DEF Recall
<1>5. CASE PutTaken \/ Flush
  <2>1. phase # "boot" /\ UNCHANGED <<phase, active, toWarm, warmed, faults>>
    BY <1>5 DEF PutTaken, Flush, treeVars, warmVars, ApartInv, Resting
  <2>2. (\E d : Put(d)) \/ UNCHANGED <<store, sealed>>
    BY <1>5 DEF PutTaken, Flush
  <2>3. {Encoded(d) : d \in sealed} \subseteq store => {Encoded(d) : d \in sealed'} \subseteq store'
    BY <2>2 DEF Put
  <2> QED BY <2>1, <2>3 DEF Recall
<1>6. CASE Ends
  <2>1. /\ phase' = "off" /\ active' = {} /\ warmed' = {}
        /\ UNCHANGED <<store, sealed>>
        /\ faults' = 0 => faults = 0
    BY <1>6 DEF Ends, Fault, storeVars, Inv, TypeOK
  <2> QED BY <2>1, FS_EmptySet, DrafterAssumption DEF Recall
<1>7. CASE Start
  <2>1. active' = {} /\ warmed' = {} /\ toWarm' = store /\ UNCHANGED <<store, sealed, faults>>
    BY <1>7 DEF Start, storeVars, historyVars
  <2> QED BY <2>1, FS_EmptySet, DrafterAssumption DEF Recall
<1> QED BY <1>1, <1>2, <1>3, <1>4, <1>5, <1>6, <1>7, WarmRecalls
        DEF Next, MainStep, ProposeStep, SealerStep

\* As long as nothing went wrong, a boot ends only with every sealed draft in the
\* tree or with its fill of them, however many processes there were (_warm).
THEOREM RestartsRecall == Spec => RestartRecalls
<1>1. Inv /\ ApartInv /\ Recall /\ [Next]_vars =>
        [phase = "boot" /\ phase' = "idle" /\ faults = 0 =>
            \/ Cardinality(warmed) = WarmMax
            \/ {Encoded(d) : d \in sealed} \subseteq warmed]_vars
  <2> SUFFICES ASSUME Recall, Next, phase = "boot", phase' = "idle", faults = 0
               PROVE  \/ Cardinality(warmed) = WarmMax
                      \/ {Encoded(d) : d \in sealed} \subseteq warmed
    OBVIOUS
  <2>1. WarmEnds
    BY DEF Next, MainStep, WarmStep, WarmSkips, WarmReplays, ReplayFails, WarmRefuses,
       ProposeStep, SkipRow, StartRow, ExtendRow, RowsEnd, SealStale, Return, Call,
       SealerStep, Take, PutTaken, PutRaises, Exit, Flush, Ends, Start, Damage, Over, vars
  <2>2. Cardinality(warmed) \in Nat
    BY FS_CardinalityType DEF Recall
  <2> QED BY <2>1, <2>2, DrafterAssumption DEF WarmEnds, Recall
<1>2. Spec => []Recall
  BY Apart, InitRecall, RecallStep, PTL DEF Spec
<1> QED BY <1>1, <1>2, Apart, PTL DEF Spec, RestartRecalls

-----------------------------------------------------------------------------
(* Drafts continue their streams. *)

\* What DraftsAreGenuine says of a draft and takes no state to say but the contract.
Genuine(d) ==
    /\ d.resp # <<>> /\ Gapless(d.resp)
    /\ Consecutive(Append(d.pat, d.resp[1]))
    /\ \A p \in PlacesIn(d.pat) : p[1] = d.resp[1][1]
    /\ \A p, q \in PlacesIn(d.resp) :
          IF contract = "pinned" THEN p[1] = q[1] ELSE Alike(p[1], q[1], d.resp[1][2] - 1)

\* What s has of r ends with its v-th token.
UpTo(s, r, v) == <<r, v>> \in PlacesIn(s) /\ \A p \in PlacesIn(s) : p[1] = r => p[2] <= v

\* The calls have visited the first v tokens of r.
Reached(r, v) ==
    \/ v = length[r] /\ \A row \in rows : row[1] # r
    \/ \E row \in rows : row[1] = r /\ v = length[r] - row[2]

KeyLen(r) == Lesser(length[r], KeyTokens)

\* The draft tracked as id is of requests whose rows had this id: r itself, or
\* those with this head, which is as long as the key or reaches into the response.
Keyed(id, d, r) ==
    IF contract = "pinned" THEN id = r
    ELSE /\ id \in Seq(Token) /\ Len(id) <= KeyLen(r) /\ id = SubSeq(Stream[r], 1, Len(id))
         /\ Len(id) >= Lesser(KeyTokens, d.resp[1][2])

\* It has r up to what the calls have visited, or r will never have this id again:
\* it is at the length limit, or its key has grown.
CaughtUp(id, d, r) ==
    \/ \E v \in Nat : Reached(r, v) /\ UpTo(d.resp, r, v)
    \/ AtLimit(r)
    \/ contract = "nightly" /\ Len(id) < KeyLen(r)

Follows(id, d) ==
    \A p \in PlacesIn(d.resp) : Keyed(id, d, p[1]) /\ CaughtUp(id, d, p[1])

GenuineInv ==
    /\ \A d \in Drafts : Genuine(d)
    /\ \A id \in DOMAIN tracked : Follows(id, tracked[id])

\* A slice, token by token.
LEMMA SliceTokens ==
    ASSUME NEW r \in Req, NEW lo \in Nat, NEW hi \in Nat, lo <= hi
    PROVE  /\ DOMAIN Slice(r, lo, hi) = 1 .. hi - lo /\ Len(Slice(r, lo, hi)) = hi - lo
           /\ \A i \in 1 .. hi - lo : Slice(r, lo, hi)[i] = <<r, lo + i>>
<1>1. Greater(0, hi - lo) = hi - lo /\ hi - lo \in Nat
  BY DEF Greater
<1> QED BY <1>1 DEF Slice

LEMMA SliceGapless ==
    ASSUME NEW r \in Req, NEW lo \in Nat, NEW hi \in Nat, lo < hi,
           Slice(r, lo, hi) \in Seq(Place)
    PROVE  /\ Slice(r, lo, hi) # <<>> /\ Slice(r, lo, hi)[1] = <<r, lo + 1>>
           /\ Gapless(Slice(r, lo, hi)) /\ UpTo(Slice(r, lo, hi), r, hi)
           /\ \A p \in PlacesIn(Slice(r, lo, hi)) : p[1] = r
<1> DEFINE t == Slice(r, lo, hi)
<1>0. lo <= hi
  OBVIOUS
<1>1. /\ DOMAIN t = 1 .. hi - lo /\ Len(t) = hi - lo
      /\ \A i \in 1 .. hi - lo : t[i] = <<r, lo + i>>
  BY <1>0, SliceTokens
<1>2. PlacesIn(t) = {<<r, i>> : i \in lo + 1 .. hi}
  BY SlicePlaces
<1> HIDE DEF t
<1>3. t # <<>> /\ t[1] = <<r, lo + 1>>
  BY <1>1
<1>4. \A i, j \in DOMAIN t : i < j => t[i][2] < t[j][2]
  BY <1>1
<1>5. ASSUME NEW p \in PlacesIn(t), NEW q \in PlacesIn(t), NEW m \in p[2] .. q[2]
      PROVE  <<p[1], m>> \in PlacesIn(t)
  BY <1>2
<1>6. Gapless(t)
  BY <1>4, <1>5 DEF Gapless
<1>7. UpTo(t, r, hi)
  BY <1>2 DEF UpTo
<1> QED BY <1>2, <1>3, <1>6, <1>7 DEF t

\* A sequence that has r up to its lo-th token, or not at all, goes on with the next.
LEMMA ConcatGapless ==
    ASSUME NEW s \in Seq(Place), s # <<>>, Gapless(s),
           NEW r \in Req, NEW lo \in Nat, NEW hi \in Nat, lo < hi,
           Slice(r, lo, hi) \in Seq(Place),
           \A p \in PlacesIn(s) : p[1] = r => UpTo(s, r, lo)
    PROVE  /\ s \o Slice(r, lo, hi) # <<>> /\ (s \o Slice(r, lo, hi))[1] = s[1]
           /\ Gapless(s \o Slice(r, lo, hi))
           /\ UpTo(s \o Slice(r, lo, hi), r, hi)
           /\ \A q \in Req, v \in Nat :
                 q # r /\ UpTo(s, q, v) => UpTo(s \o Slice(r, lo, hi), q, v)
<1> DEFINE t == Slice(r, lo, hi)
           u == s \o t
<1>0. lo <= hi
  OBVIOUS
<1>1. /\ DOMAIN t = 1 .. hi - lo /\ Len(t) = hi - lo
      /\ \A i \in 1 .. hi - lo : t[i] = <<r, lo + i>>
  BY <1>0, SliceTokens
<1>2. PlacesIn(t) = {<<r, i>> : i \in lo + 1 .. hi}
  BY SlicePlaces
<1>3. PlacesIn(u) = PlacesIn(s) \cup PlacesIn(t)
  BY ConcatPlaces
<1>14. t \in Seq(Place)
  OBVIOUS
<1> HIDE DEF t
<1>4. /\ Len(s) \in Nat \ {0} /\ DOMAIN s = 1 .. Len(s) /\ Len(t) = hi - lo
      /\ DOMAIN u = 1 .. Len(s) + (hi - lo)
      /\ \A i \in 1 .. Len(s) : u[i] = s[i]
      /\ \A i \in 1 .. hi - lo : u[Len(s) + i] = t[i]
  <2>1. /\ Len(s) \in Nat \ {0} /\ DOMAIN s = 1 .. Len(s) /\ Len(t) \in Nat
        /\ DOMAIN u = 1 .. Len(s) + Len(t)
        /\ \A i \in 1 .. Len(s) + Len(t) : u[i] = IF i <= Len(s) THEN s[i] ELSE t[i - Len(s)]
    BY <1>14
  <2> HIDE DEF u
  <2>2. \A i \in 1 .. Len(s) : u[i] = s[i]
    BY <2>1
  <2>3. ASSUME NEW i \in 1 .. Len(t) PROVE u[Len(s) + i] = t[i]
    <3>1. Len(s) + i \in 1 .. Len(s) + Len(t) /\ ~(Len(s) + i <= Len(s)) /\ (Len(s) + i) - Len(s) = i
      BY <2>1
    <3> QED BY <2>1, <3>1
  <2>4. Len(t) = hi - lo
    BY <1>1
  <2> QED BY <2>1, <2>2, <2>3, <2>4
<1> HIDE DEF u
<1>5. \A p \in PlacesIn(s) : p = <<p[1], p[2]>> /\ p[1] \in Req /\ p[2] \in Nat
  BY PlacesType DEF Place
<1>6. u # <<>> /\ u[1] = s[1]
  BY <1>4
<1>7. ASSUME NEW i \in DOMAIN u, NEW j \in DOMAIN u, i < j, u[i][1] = u[j][1]
      PROVE  u[i][2] < u[j][2]
  <2>1. CASE j <= Len(s)
    <3>1. i \in DOMAIN s /\ j \in DOMAIN s /\ u[i] = s[i] /\ u[j] = s[j]
      BY <1>4, <1>7, <2>1
    <3> QED BY <1>7, <3>1 DEF Gapless
  <2>2. CASE i <= Len(s) /\ j > Len(s)
    <3>1. i \in DOMAIN s /\ u[i] = s[i] /\ s[i] \in PlacesIn(s)
      BY <1>4, <2>2 DEF PlacesIn
    <3>2. j - Len(s) \in 1 .. hi - lo /\ u[j] = t[j - Len(s)]
      <4>1. j - Len(s) \in 1 .. hi - lo /\ Len(s) + (j - Len(s)) = j
        BY <1>4, <2>2
      <4> QED BY <1>4, <4>1
    <3>3. u[j] = <<r, lo + (j - Len(s))>>
      BY <1>1, <3>2
    <3>4. u[i][2] \in Nat /\ u[i][2] <= lo
      BY <1>5, <1>7, <3>1, <3>3 DEF UpTo
    <3> QED BY <3>2, <3>3, <3>4
  <2>3. CASE i > Len(s)
    <3>1. /\ i - Len(s) \in 1 .. hi - lo /\ Len(s) + (i - Len(s)) = i
          /\ j - Len(s) \in 1 .. hi - lo /\ Len(s) + (j - Len(s)) = j
      <4>1. i \in 1 .. Len(s) + (hi - lo) /\ j \in 1 .. Len(s) + (hi - lo) /\ Len(s) \in Nat
        BY <1>4
      <4>2. i \in Nat /\ j \in Nat
        BY <4>1
      <4> QED BY <1>7, <2>3, <4>1, <4>2
    <3>2. u[i] = <<r, lo + (i - Len(s))>> /\ u[j] = <<r, lo + (j - Len(s))>>
      BY <1>1, <1>4, <3>1
    <3>3. u[i][2] = lo + (i - Len(s)) /\ u[j][2] = lo + (j - Len(s))
      BY <3>2
    <3>4. lo \in Nat /\ Len(s) \in Nat /\ i \in Nat /\ j \in Nat
      BY <1>4
    <3>5. lo + (i - Len(s)) < lo + (j - Len(s))
      BY <1>7, <3>4
    <3> QED BY <3>3, <3>5
  <2>4. Len(s) \in Nat /\ i \in Nat /\ j \in Nat
    BY <1>4
  <2> QED BY <1>7, <2>1, <2>2, <2>3, <2>4
<1>8. ASSUME NEW p \in PlacesIn(u), NEW q \in PlacesIn(u), p[1] = q[1], NEW m \in p[2] .. q[2]
      PROVE  <<p[1], m>> \in PlacesIn(u)
  <2>1. CASE p \in PlacesIn(s) /\ q \in PlacesIn(s)
    BY <1>3, <1>8, <2>1 DEF Gapless
  <2>2. CASE p \in PlacesIn(s) /\ q \in PlacesIn(t)
    <3>1. /\ p[1] = r /\ q[2] \in lo + 1 .. hi /\ p[2] \in Nat
          /\ p[2] <= lo /\ <<r, lo>> \in PlacesIn(s)
      <4>1. PICK i \in lo + 1 .. hi : q = <<r, i>>
        BY <1>2, <2>2
      <4>2. q[1] = r /\ q[2] = i
        BY <4>1
      <4>3. p[1] = r /\ p[2] \in Nat
        BY <1>5, <1>8, <2>2, <4>2
      <4>4. p[2] <= lo /\ <<r, lo>> \in PlacesIn(s)
        BY <2>2, <4>3 DEF UpTo
      <4> QED BY <4>2, <4>3, <4>4
    <3>2. CASE m <= lo
      <4>1. m \in p[2] .. <<r, lo>>[2]
        BY <3>1, <3>2
      <4>2. \A b \in PlacesIn(s) : p[1] = b[1] =>
              \A k \in p[2] .. b[2] : <<p[1], k>> \in PlacesIn(s)
        BY <2>2 DEF Gapless
      <4>3. \A k \in p[2] .. <<r, lo>>[2] : <<p[1], k>> \in PlacesIn(s)
        BY <3>1, <4>2
      <4> QED BY <1>3, <4>1, <4>3
    <3>3. CASE m > lo
      <4>1. m \in lo + 1 .. hi
        BY <3>1, <3>3
      <4> QED BY <1>2, <1>3, <3>1, <4>1
    <3> QED BY <3>1, <3>2, <3>3
  <2>3. CASE p \in PlacesIn(t) /\ q \in PlacesIn(s)
    <3>1. q[1] = r /\ p[2] \in lo + 1 .. hi /\ q[2] \in Nat /\ q[2] <= lo
      BY <1>2, <1>5, <1>8, <2>3 DEF UpTo
    <3> QED BY <3>1
  <2>4. CASE p \in PlacesIn(t) /\ q \in PlacesIn(t)
    <3>1. p[1] = r /\ p[2] \in lo + 1 .. hi /\ q[2] \in lo + 1 .. hi
      BY <1>2, <2>4
    <3>2. m \in lo + 1 .. hi
      BY <3>1
    <3> QED BY <1>2, <1>3, <3>1, <3>2
  <2> QED BY <1>3, <2>1, <2>2, <2>3, <2>4
<1>9. Gapless(u)
  BY <1>7, <1>8 DEF Gapless
<1>10. UpTo(u, r, hi)
  <2>1. <<r, hi>> \in PlacesIn(u)
    BY <1>2, <1>3
  <2>2. ASSUME NEW p \in PlacesIn(u), p[1] = r PROVE p[2] <= hi
    <3>1. CASE p \in PlacesIn(s)
      BY <1>5, <2>2, <3>1 DEF UpTo
    <3>2. CASE p \in PlacesIn(t)
      BY <1>2, <3>2
    <3> QED BY <1>3, <3>1, <3>2
  <2> QED BY <2>1, <2>2 DEF UpTo
<1>11. ASSUME NEW q \in Req, NEW v \in Nat, q # r, UpTo(s, q, v) PROVE UpTo(u, q, v)
  <2>1. \A p \in PlacesIn(t) : p[1] # q
    BY <1>2, <1>11
  <2> QED BY <1>3, <1>11, <2>1 DEF UpTo
<1> QED BY <1>6, <1>9, <1>10, <1>11 DEF u, t

\* The head of a head.
LEMMA HeadOfHead ==
    ASSUME NEW S, NEW s \in Seq(S), NEW a \in Nat, NEW b \in Nat, a <= b, b <= Len(s)
    PROVE  SubSeq(SubSeq(s, 1, b), 1, a) = SubSeq(s, 1, a)
OBVIOUS

\* Requests of one key have equal heads.
LEMMA KeyedAlike ==
    ASSUME contract # "pinned", NEW id, NEW d \in Draft, d.resp # <<>>,
           NEW r \in Req, NEW s \in Req, length[r] \in Nat, length[s] \in Nat,
           length[r] <= Len(Stream[r]), length[s] <= Len(Stream[s]),
           Keyed(id, d, r), Keyed(id, d, s)
    PROVE  Alike(r, s, d.resp[1][2] - 1)
<1>1. d.resp[1] \in Place
  BY DEF Draft
<1>2. d.resp[1][2] \in Nat /\ (d.resp[1][2] - 1) + 1 = d.resp[1][2]
  BY <1>1 DEF Place
<1> DEFINE h == Lesser(KeyTokens, d.resp[1][2])
<1>3. h \in Nat /\ h <= Len(id) /\ Len(id) \in Nat
  BY <1>2, DrafterAssumption DEF Keyed, Lesser
<1>4. Len(id) <= Len(Stream[r]) /\ Len(id) <= Len(Stream[s])
  BY <1>3, StreamType, DrafterAssumption DEF Keyed, KeyLen, Lesser
<1>5. id = SubSeq(Stream[r], 1, Len(id)) /\ id = SubSeq(Stream[s], 1, Len(id))
  BY DEF Keyed
<1> HIDE DEF h
<1>6. SubSeq(Stream[r], 1, h) = SubSeq(id, 1, h)
  BY <1>3, <1>4, <1>5, StreamType, HeadOfHead
<1>7. SubSeq(Stream[s], 1, h) = SubSeq(id, 1, h)
  BY <1>3, <1>4, <1>5, StreamType, HeadOfHead
<1> QED BY <1>2, <1>6, <1>7 DEF Alike, h

\* What is known of a request.
LEMMA RequestType ==
    ASSUME TypeOK, NEW r \in Req
    PROVE  /\ length[r] \in Nat /\ length[r] <= Len(Stream[r])
           /\ KeyLen(r) \in Nat /\ KeyLen(r) <= length[r]
           /\ RowKey(r) \in Seq(Token) /\ Len(RowKey(r)) = KeyLen(r)
           /\ RowKey(r) = SubSeq(Stream[r], 1, KeyLen(r))
<1>1. length[r] \in Nat /\ length[r] <= Len(Stream[r])
  BY StreamType DEF TypeOK
<1>2. KeyLen(r) \in Nat /\ KeyLen(r) <= length[r]
  BY <1>1, DrafterAssumption DEF KeyLen, Lesser
<1>3. RowKey(r) = SubSeq(Stream[r], 1, KeyLen(r))
  BY DEF RowKey, KeyLen
<1>4. KeyLen(r) <= Len(Stream[r])
  BY <1>1, <1>2, StreamType
<1> HIDE DEF KeyLen
<1> QED BY <1>1, <1>2, <1>3, <1>4, StreamType

\* A row of another id has outgrown this one.
LEMMA OtherId ==
    ASSUME TypeOK, NEW r \in Req, NEW id, NEW d, Keyed(id, d, r), RowId(r) # id
    PROVE  contract = "nightly" /\ Len(id) < KeyLen(r)
<1>1. contract = "nightly"
  BY DEF TypeOK, Keyed, RowId
<1>2. /\ Len(id) <= KeyLen(r) /\ id = SubSeq(Stream[r], 1, Len(id)) /\ id # RowKey(r)
      /\ Len(id) \in Nat
  BY <1>1 DEF Keyed, RowId
<1>3. Len(id) # KeyLen(r)
  BY <1>2, RequestType
<1> QED BY <1>1, <1>2, <1>3, RequestType

\* A visit to a row leaves a draft as far as it was with every other request, and
\* with that request too if the draft is not the row's.
LEMMA OthersKeep ==
    ASSUME TypeOK, RowsFit, NEW row \in rows, rows' = rows \ {row}, UNCHANGED <<length, contract>>,
           NEW id, NEW d, NEW r \in Req, Keyed(id, d, r), CaughtUp(id, d, r),
           r # row[1] \/ AtLimit(r) \/ RowId(r) # id
    PROVE  Keyed(id, d, r)' /\ CaughtUp(id, d, r)'
<1>1. Keyed(id, d, r)' /\ (AtLimit(r) => AtLimit(r)') /\ KeyLen(r)' = KeyLen(r)
  BY DEF Keyed, AtLimit, KeyLen
<1>2. CASE AtLimit(r)
  BY <1>1, <1>2 DEF CaughtUp
<1>3. CASE RowId(r) # id
  BY <1>1, <1>3, OtherId DEF CaughtUp
<1>4. CASE r # row[1]
  <2>1. \A v \in Nat : Reached(r, v) => Reached(r, v)'
    BY <1>4 DEF Reached
  <2> QED BY <1>1, <2>1 DEF CaughtUp
<1> QED BY <1>1, <1>2, <1>3, <1>4

\* What the step of a request that was visited has added is where it now stands.
LEMMA RowReached ==
    ASSUME TypeOK, RowsFit, RowsApart, NEW row \in rows, rows' = rows \ {row}, UNCHANGED length
    PROVE  /\ Reached(row[1], length[row[1]])'
           /\ \A v \in Nat : Reached(row[1], v) => v = length[row[1]] - row[2]
<1>1. \A a \in rows' : a[1] # row[1]
  BY DEF RowsApart
<1>2. Reached(row[1], length[row[1]])'
  BY <1>1 DEF Reached
<1>3. \A v \in Nat : Reached(row[1], v) => v = length[row[1]] - row[2]
  BY DEF Reached, RowsApart
<1> QED BY <1>2, <1>3

\* A call lets requests grow; the drafts stand where the next rows begin.
LEMMA CallKeeps ==
    ASSUME TypeOK, Call, rows = {}, NEW id, NEW d, NEW r \in Req, Keyed(id, d, r),
           CaughtUp(id, d, r)
    PROVE  Keyed(id, d, r)' /\ CaughtUp(id, d, r)'
<1>0. PICK B \in SUBSET (Req \ gone) : \E k \in [B -> 1 .. MaxStep] :
        /\ rows' = {<<x, k[x]>> : x \in B}
        /\ length' = [x \in Req |-> IF x \in B THEN length[x] + k[x] ELSE length[x]]
  BY DEF Call
<1>1. PICK k \in [B -> 1 .. MaxStep] :
        /\ rows' = {<<x, k[x]>> : x \in B}
        /\ length' = [x \in Req |-> IF x \in B THEN length[x] + k[x] ELSE length[x]]
  BY <1>0
<1>2. length[r] \in Nat /\ (r \in B => k[r] \in Nat)
  BY RequestType, DrafterAssumption
<1>3. length'[r] \in Nat /\ length[r] <= length'[r]
  BY <1>1, <1>2
<1>4. KeyLen(r) \in Nat /\ KeyLen(r)' \in Nat /\ KeyLen(r) <= KeyLen(r)' /\ UNCHANGED contract
  BY <1>2, <1>3, DrafterAssumption DEF KeyLen, Lesser, Call
<1>5. Keyed(id, d, r)'
  <2>1. CASE contract = "pinned"
    BY <1>4, <2>1 DEF Keyed
  <2>2. CASE contract # "pinned"
    <3>1. Len(id) \in Nat
      BY <2>2 DEF Keyed
    <3> HIDE DEF KeyLen
    <3> QED BY <1>4, <2>2, <3>1 DEF Keyed
  <2> QED BY <2>1, <2>2
<1>6. AtLimit(r) => AtLimit(r)'
  BY <1>2, <1>3, DrafterAssumption DEF AtLimit
<1>7. contract = "nightly" /\ Len(id) < KeyLen(r) => contract' = "nightly" /\ Len(id) < KeyLen(r)'
  <2>1. contract = "nightly" => Len(id) \in Nat
    BY DEF Keyed
  <2> HIDE DEF KeyLen
  <2> QED BY <1>4, <2>1
<1>8. ASSUME NEW v \in Nat, Reached(r, v) PROVE Reached(r, v)'
  <2>1. v = length[r]
    BY <1>8 DEF Reached
  <2>2. CASE r \in B
    <3>1. <<r, k[r]>> \in rows' /\ v = length'[r] - k[r]
      BY <1>1, <1>2, <2>1, <2>2
    <3> QED BY <3>1 DEF Reached
  <2>3. CASE r \notin B
    BY <1>1, <2>1, <2>3 DEF Reached
  <2> QED BY <2>2, <2>3
<1>9. CaughtUp(id, d, r)'
  BY <1>6, <1>7, <1>8 DEF CaughtUp
<1> QED BY <1>5, <1>9

\* A pattern ends where the next token begins.
LEMMA SliceEnds ==
    ASSUME NEW r \in Req, NEW lo \in Nat, NEW hi \in Nat, lo <= hi,
           Slice(r, lo, hi) \in Seq(Place)
    PROVE  /\ Consecutive(Append(Slice(r, lo, hi), <<r, hi + 1>>))
           /\ \A p \in PlacesIn(Slice(r, lo, hi)) : p[1] = r
<1> DEFINE t == Slice(r, lo, hi)
           u == Append(t, <<r, hi + 1>>)
<1>1. /\ DOMAIN t = 1 .. hi - lo /\ Len(t) = hi - lo
      /\ \A i \in 1 .. hi - lo : t[i] = <<r, lo + i>>
  BY SliceTokens
<1>2. \A p \in PlacesIn(t) : p[1] = r
  BY <1>1 DEF PlacesIn
<1>3. t \in Seq(Place)
  OBVIOUS
<1> HIDE DEF t
<1>4. /\ Len(u) = hi - lo + 1 /\ u[hi - lo + 1] = <<r, hi + 1>>
      /\ \A i \in 1 .. hi - lo : u[i] = t[i]
  BY <1>1, <1>3
<1> HIDE DEF u
<1>5. ASSUME NEW i \in 1 .. Len(u) - 1 PROVE u[i + 1] = <<u[i][1], u[i][2] + 1>>
  <2>1. i \in 1 .. hi - lo /\ u[i] = <<r, lo + i>>
    BY <1>1, <1>4
  <2>2. CASE i = hi - lo
    BY <1>4, <2>1, <2>2
  <2>3. CASE i # hi - lo
    <3>1. i + 1 \in 1 .. hi - lo
      BY <2>1, <2>3
    <3>2. u[i + 1] = <<r, lo + (i + 1)>>
      BY <1>1, <1>4, <3>1
    <3> QED BY <2>1, <3>2
  <2> QED BY <2>2, <2>3
<1> QED BY <1>2, <1>5 DEF Consecutive, t, u

\* Whoever shares a draft is alike.
LEMMA SharersAlike ==
    ASSUME TypeOK, NEW id, NEW d \in Draft, d.resp # <<>>,
           \A p \in PlacesIn(d.resp) : Keyed(id, d, p[1]),
           NEW p \in PlacesIn(d.resp), NEW q \in PlacesIn(d.resp)
    PROVE  IF contract = "pinned" THEN p[1] = q[1] ELSE Alike(p[1], q[1], d.resp[1][2] - 1)
<1>1. p[1] \in Req /\ q[1] \in Req
  BY PlacesType DEF Draft, Place
<1>2. CASE contract = "pinned"
  BY <1>2 DEF Keyed
<1>3. CASE contract # "pinned"
  BY <1>1, <1>3, RequestType, KeyedAlike
<1> QED BY <1>2, <1>3

\* The row of a request has its id.
LEMMA RowKeyed ==
    ASSUME TypeOK, NEW r \in Req, NEW d,
           contract # "pinned" => KeyLen(r) >= Lesser(KeyTokens, d.resp[1][2])
    PROVE  Keyed(RowId(r), d, r)
BY RequestType DEF Keyed, RowId

\* The draft of the row that was visited is new, the others stay.
LEMMA VisitKeeps ==
    ASSUME Inv, ApartInv, GenuineInv, NEW row \in rows, rows' = rows \ {row},
           UNCHANGED <<length, contract, queue, inHand, sealed>>,
           NEW id, id = RowId(row[1]), NEW d \in Draft,
           DOMAIN tracked' = DOMAIN tracked \cup {id}, tracked'[id] = d,
           \A x \in DOMAIN tracked \ {id} : tracked'[x] = tracked[x],
           Genuine(d),
           \A p \in PlacesIn(d.resp) : Keyed(id, d, p[1]) /\ CaughtUp(id, d, p[1])'
    PROVE  GenuineInv'
<1>0. TypeOK /\ RowsFit
  BY DEF Inv
<1>1. \A e : Genuine(e) => Genuine(e)'
  BY DEF Genuine
<1>2. Drafts' \subseteq Drafts \cup {d}
  BY DEF Drafts
<1>3. \A e \in Drafts' : Genuine(e)'
  BY <1>1, <1>2 DEF GenuineInv
<1>4. ASSUME NEW x \in DOMAIN tracked \ {id} PROVE Follows(x, tracked[x])'
  <2>1. PICK e \in Draft : e = tracked[x]
    BY <1>0 DEF TypeOK
  <2>2. ASSUME NEW p \in PlacesIn(e.resp) PROVE Keyed(x, e, p[1])' /\ CaughtUp(x, e, p[1])'
    <3>1. p[1] \in Req
      BY PlacesType DEF Draft, Place
    <3>2. Keyed(x, e, p[1]) /\ CaughtUp(x, e, p[1])
      BY <2>1 DEF GenuineInv, Follows
    <3>3. p[1] # row[1] \/ RowId(p[1]) # x
      OBVIOUS
    <3> QED BY <1>0, <3>1, <3>2, <3>3, OthersKeep
  <2>3. Follows(x, e)'
    BY <2>2 DEF Follows
  <2>4. tracked'[x] = e
    BY <2>1
  <2> QED BY <2>3, <2>4
<1>5. Follows(id, tracked[id])'
  <2>1. \A p \in PlacesIn(d.resp) : Keyed(id, d, p[1])'
    BY DEF Keyed, KeyLen
  <2>2. Follows(id, d)'
    BY <2>1 DEF Follows
  <2> QED BY <2>2
<1> QED BY <1>3, <1>4, <1>5 DEF GenuineInv

LEMMA StartRowGenuine == ASSUME Inv, ApartInv, GenuineInv, StartRow PROVE GenuineInv'
<1>0. TypeOK /\ RowsFit /\ RowsApart
  BY DEF Inv, ApartInv
<1>1. PICK row \in rows :
        LET id == RowId(row[1]) IN
        /\ rows' = rows \ {row}
        /\ tracked' = [x \in DOMAIN tracked \cup {id} |->
                          IF x = id
                          THEN [pat |-> Pattern(row[1], row[2]),
                                resp |-> Slice(row[1], length[row[1]] - row[2], length[row[1]])]
                          ELSE tracked[x]]
  BY DEF StartRow
<1>2. UNCHANGED <<length, contract, queue, inHand, sealed>>
  BY DEF StartRow, hostVars, sealerVars, historyVars
<1>3. PICK r, id, n, lo, from :
        /\ r = row[1] /\ id = RowId(r) /\ n = length[r] /\ lo = n - row[2]
        /\ from = Greater(0, lo - TreeDepth)
  OBVIOUS
<1>4. /\ r \in Req /\ n \in Nat /\ lo \in Nat /\ lo < n /\ row[2] \in Nat \ {0}
      /\ Slice(r, lo, n) \in Seq(Place) /\ Pattern(r, row[2]) \in Seq(Place)
  <2>1. /\ r \in Req /\ n \in Nat
        /\ Slice(r, lo, n) \in Seq(Place) /\ Pattern(r, row[2]) \in Seq(Place)
    BY <1>0, <1>3, RowType
  <2>2. row[2] \in Nat \ {0}
    BY <1>0, <1>1, DrafterAssumption DEF TypeOK
  <2>3. lo \in Nat
    BY <1>0, <1>1, <1>3 DEF RowsFit
  <2>4. lo < n
    BY <1>3, <2>1, <2>2
  <2> QED BY <2>1, <2>2, <2>3, <2>4
<1>5. /\ from \in Nat /\ from <= lo /\ Pattern(r, row[2]) = Slice(r, from, lo)
  <2>1. lo - TreeDepth \in Int /\ lo - TreeDepth <= lo
    BY <1>4, DrafterAssumption
  <2>2. from \in Nat /\ from <= lo
    BY <1>3, <1>4, <2>1 DEF Greater
  <2>3. Pattern(r, row[2]) = Slice(r, from, lo)
    BY <1>3 DEF Pattern
  <2> QED BY <2>2, <2>3
<1>6. PICK d \in Draft : d.pat = Slice(r, from, lo) /\ d.resp = Slice(r, lo, n)
                         /\ d = [pat |-> Slice(r, from, lo), resp |-> Slice(r, lo, n)]
  BY <1>4, <1>5 DEF Draft
<1>7. /\ DOMAIN tracked' = DOMAIN tracked \cup {id} /\ tracked'[id] = d
      /\ \A x \in DOMAIN tracked \ {id} : tracked'[x] = tracked[x]
  BY <1>1, <1>3, <1>5, <1>6
<1>8. /\ d.resp # <<>> /\ d.resp[1] = <<r, lo + 1>> /\ Gapless(d.resp) /\ UpTo(d.resp, r, n)
      /\ \A p \in PlacesIn(d.resp) : p[1] = r
  BY <1>4, <1>6, SliceGapless
<1>9. /\ Consecutive(Append(d.pat, d.resp[1])) /\ \A p \in PlacesIn(d.pat) : p[1] = r
  <2>1. Slice(r, from, lo) \in Seq(Place)
    BY <1>4, <1>5
  <2>2. /\ Consecutive(Append(Slice(r, from, lo), <<r, lo + 1>>))
        /\ \A p \in PlacesIn(Slice(r, from, lo)) : p[1] = r
    BY <1>4, <1>5, <2>1, SliceEnds
  <2> QED BY <1>6, <1>8, <2>2
<1>10. Keyed(id, d, r)
  <2>1. d.resp[1][2] = lo + 1 /\ lo + 1 <= length[r]
    BY <1>3, <1>4, <1>8
  <2>2. KeyLen(r) >= Lesser(KeyTokens, d.resp[1][2])
    BY <1>3, <1>4, <2>1, DrafterAssumption DEF KeyLen, Lesser
  <2> QED BY <1>0, <1>3, <1>4, <2>2, RowKeyed
<1>11. CaughtUp(id, d, r)'
  <2>1. Reached(r, n)'
    BY <1>0, <1>1, <1>2, <1>3, RowReached
  <2> QED BY <1>4, <1>8, <2>1 DEF CaughtUp
<1>12. Genuine(d)
  <2>1. d.resp[1][1] = r
    BY <1>8
  <2>2. \A p, q \in PlacesIn(d.resp) :
          IF contract = "pinned" THEN p[1] = q[1] ELSE Alike(p[1], q[1], d.resp[1][2] - 1)
    BY <1>0, <1>8, <1>10, SharersAlike
  <2> QED BY <1>8, <1>9, <2>1, <2>2 DEF Genuine
<1> QED BY <1>1, <1>2, <1>3, <1>7, <1>8, <1>10, <1>11, <1>12, VisitKeeps

LEMMA ExtendRowGenuine == ASSUME Inv, ApartInv, GenuineInv, ExtendRow PROVE GenuineInv'
<1>0. TypeOK /\ RowsFit /\ RowsApart
  BY DEF Inv, ApartInv
<1>1. PICK row \in rows :
        LET id == RowId(row[1]) IN
        /\ ~AtLimit(row[1]) /\ id \in active /\ rows' = rows \ {row}
        /\ id \in DOMAIN tracked =>
             tracked' = [tracked EXCEPT ![id].resp =
                            @ \o Slice(row[1], length[row[1]] - row[2], length[row[1]])]
  BY DEF ExtendRow
<1>2. UNCHANGED <<length, contract, queue, inHand, sealed>>
  BY DEF ExtendRow, hostVars, sealerVars
<1>3. PICK r, id, n, lo :
        /\ r = row[1] /\ id = RowId(r) /\ n = length[r] /\ lo = n - row[2]
  OBVIOUS
<1>4. /\ r \in Req /\ n \in Nat /\ lo \in Nat /\ lo < n
      /\ Slice(r, lo, n) \in Seq(Place)
  BY <1>0, <1>3, RowType, DrafterAssumption DEF TypeOK, RowsFit
<1>5. id \in DOMAIN tracked
  <2>1. id # Synth
    BY <1>0, <1>3, RowType, DrafterAssumption
  <2> QED BY <1>1, <1>3, <2>1 DEF ExtendRow, Inv, Paired
<1>6. PICK e \in Draft : e = tracked[id]
  BY <1>0, <1>5 DEF TypeOK
<1>7. Genuine(e) /\ Follows(id, e)
  BY <1>5, <1>6 DEF GenuineInv, Drafts
<1>8. e.pat \in Seq(Place) /\ e.resp \in Seq(Place) /\ e.resp # <<>> /\ Gapless(e.resp)
  BY <1>7 DEF Draft, Genuine
<1>9. ASSUME NEW p \in PlacesIn(e.resp), p[1] = r PROVE UpTo(e.resp, r, lo)
  <2>1. Keyed(id, e, r) /\ CaughtUp(id, e, r)
    BY <1>7, <1>9 DEF Follows
  <2>2. ~AtLimit(r)
    BY <1>1, <1>3
  <2>3. ~(contract = "nightly" /\ Len(id) < KeyLen(r))
    BY <1>0, <1>3, <1>4, RequestType DEF RowId
  <2>4. PICK v \in Nat : Reached(r, v) /\ UpTo(e.resp, r, v)
    BY <2>1, <2>2, <2>3 DEF CaughtUp
  <2>5. v = lo
    BY <1>0, <1>1, <1>2, <1>3, <2>4, RowReached
  <2> QED BY <2>4, <2>5
<1>10. PICK u : u = e.resp \o Slice(r, lo, n)
  OBVIOUS
<1>11. /\ u # <<>> /\ u[1] = e.resp[1] /\ Gapless(u) /\ UpTo(u, r, n) /\ u \in Seq(Place)
       /\ \A q \in Req, v \in Nat : q # r /\ UpTo(e.resp, q, v) => UpTo(u, q, v)
       /\ PlacesIn(u) = PlacesIn(e.resp) \cup PlacesIn(Slice(r, lo, n))
  BY <1>4, <1>8, <1>9, <1>10, ConcatGapless, ConcatPlaces
<1>12. PICK d \in Draft : d.pat = e.pat /\ d.resp = u /\ d = [e EXCEPT !.resp = u]
  BY <1>8, <1>11 DEF Draft
<1>13. /\ DOMAIN tracked' = DOMAIN tracked \cup {id} /\ tracked'[id] = d
       /\ \A x \in DOMAIN tracked \ {id} : tracked'[x] = tracked[x]
  <2>1. tracked' = [tracked EXCEPT ![id].resp = @ \o Slice(r, lo, n)]
    BY <1>1, <1>3, <1>5
  <2>2. tracked' = [tracked EXCEPT ![id] = d]
    BY <1>5, <1>6, <1>10, <1>12, <2>1
  <2> QED BY <1>5, <2>2
<1>14. \A q : Keyed(id, e, q) => Keyed(id, d, q)
  BY <1>11, <1>12 DEF Keyed
<1>15. Keyed(id, d, r)
  <2>1. e.resp[1] \in PlacesIn(e.resp)
    BY <1>8 DEF PlacesIn
  <2>2. Keyed(id, e, e.resp[1][1])
    BY <1>7, <2>1 DEF Follows
  <2>3. contract # "pinned" => Len(id) >= Lesser(KeyTokens, d.resp[1][2])
    BY <1>11, <1>12, <2>2 DEF Keyed
  <2>4. contract # "pinned" => Len(id) = KeyLen(r)
    BY <1>0, <1>3, <1>4, RequestType DEF RowId
  <2>5. contract # "pinned" => KeyLen(r) >= Lesser(KeyTokens, d.resp[1][2])
    BY <2>3, <2>4
  <2> QED BY <1>0, <1>3, <1>4, <2>5, RowKeyed
<1>16. ASSUME NEW p \in PlacesIn(d.resp), p[1] # r
       PROVE  p \in PlacesIn(e.resp) /\ p[1] \in Req
  <2>1. \A q \in PlacesIn(Slice(r, lo, n)) : q[1] = r
    BY <1>4, SliceGapless
  <2>2. p[1] \in Req
    BY PlacesType DEF Draft, Place
  <2> QED BY <1>11, <1>12, <1>16, <2>1, <2>2
<1>17. ASSUME NEW p \in PlacesIn(d.resp) PROVE Keyed(id, d, p[1]) /\ CaughtUp(id, d, p[1])'
  <2>1. CASE p[1] = r
    <3>1. Reached(r, n)'
      BY <1>0, <1>1, <1>2, <1>3, RowReached
    <3>2. CaughtUp(id, d, r)'
      BY <1>4, <1>11, <1>12, <3>1 DEF CaughtUp
    <3> QED BY <1>15, <2>1, <3>2
  <2>2. CASE p[1] # r
    <3>1. p[1] \in Req /\ Keyed(id, e, p[1]) /\ CaughtUp(id, e, p[1])
      BY <1>7, <1>16, <2>2 DEF Follows
    <3>2. CaughtUp(id, e, p[1])'
      BY <1>0, <1>1, <1>2, <1>3, <2>2, <3>1, OthersKeep
    <3>3. CaughtUp(id, d, p[1])'
      BY <1>11, <1>12, <2>2, <3>1, <3>2 DEF CaughtUp
    <3> QED BY <1>14, <3>1, <3>3
  <2> QED BY <2>1, <2>2
<1>18. Genuine(d)
  <2>1. \A p, q \in PlacesIn(d.resp) :
          IF contract = "pinned" THEN p[1] = q[1] ELSE Alike(p[1], q[1], d.resp[1][2] - 1)
    BY <1>0, <1>11, <1>12, <1>17, SharersAlike
  <2> QED BY <1>7, <1>11, <1>12, <2>1 DEF Genuine
<1> QED BY <1>1, <1>2, <1>3, <1>13, <1>17, <1>18, VisitKeeps

\* A step that moves or drops drafts makes none.
LEMMA DraftsStay ==
    ASSUME GenuineInv, Drafts' \subseteq Drafts, UNCHANGED contract,
           \/ DOMAIN tracked' = {}
           \/ /\ UNCHANGED <<rows, length>> /\ DOMAIN tracked' \subseteq DOMAIN tracked
              /\ \A id \in DOMAIN tracked' : tracked'[id] = tracked[id]
    PROVE  GenuineInv'
<1>1. \A e : Genuine(e) => Genuine(e)'
  BY DEF Genuine
<1>2. \A e \in Drafts' : Genuine(e)'
  BY <1>1 DEF GenuineInv
<1>3. ASSUME NEW id \in DOMAIN tracked' PROVE Follows(id, tracked[id])'
  <2>1. PICK e : e = tracked[id]
    OBVIOUS
  <2>2. /\ id \in DOMAIN tracked /\ tracked'[id] = e
        /\ UNCHANGED <<rows, length, contract>>
    BY <1>3, <2>1
  <2>3. Follows(id, e)
    BY <2>1, <2>2 DEF GenuineInv
  <2>4. Follows(id, e)'
    BY <2>2, <2>3 DEF Follows, Keyed, CaughtUp, KeyLen, AtLimit, Reached
  <2> QED BY <2>2, <2>4
<1> QED BY <1>2, <1>3 DEF GenuineInv

LEMMA SkipRowGenuine == ASSUME Inv, ApartInv, GenuineInv, SkipRow PROVE GenuineInv'
<1>0. TypeOK /\ RowsFit
  BY DEF Inv
<1>1. PICK row \in rows : AtLimit(row[1]) /\ rows' = rows \ {row}
  BY DEF SkipRow
<1>2. UNCHANGED <<length, contract, tracked, queue, inHand, sealed>>
  BY DEF SkipRow, hostVars, sealerVars
<1>3. \A e : Genuine(e) => Genuine(e)'
  BY <1>2 DEF Genuine
<1>4. \A e \in Drafts' : Genuine(e)'
  BY <1>2, <1>3 DEF GenuineInv, Drafts
<1>5. ASSUME NEW id \in DOMAIN tracked PROVE Follows(id, tracked[id])'
  <2>1. PICK e \in Draft : e = tracked[id]
    BY <1>0 DEF TypeOK
  <2>2. ASSUME NEW p \in PlacesIn(e.resp) PROVE Keyed(id, e, p[1])' /\ CaughtUp(id, e, p[1])'
    <3>1. p[1] \in Req
      BY PlacesType DEF Draft, Place
    <3>2. Keyed(id, e, p[1]) /\ CaughtUp(id, e, p[1])
      BY <2>1 DEF GenuineInv, Follows
    <3> QED BY <1>0, <1>1, <1>2, <3>1, <3>2, OthersKeep
  <2>3. Follows(id, e)'
    BY <2>2 DEF Follows
  <2> QED BY <1>2, <2>1, <2>3
<1> QED BY <1>2, <1>4, <1>5 DEF GenuineInv

LEMMA CallGenuine == ASSUME Inv, ApartInv, GenuineInv, Call PROVE GenuineInv'
<1>0. TypeOK /\ rows = {}
  BY DEF Inv, ApartInv, Resting, Call
<1>1. UNCHANGED <<contract, tracked, queue, inHand, sealed>>
  BY DEF Call, sealerVars, historyVars
<1>2. \A e : Genuine(e) => Genuine(e)'
  BY <1>1 DEF Genuine
<1>3. \A e \in Drafts' : Genuine(e)'
  BY <1>1, <1>2 DEF GenuineInv, Drafts
<1>4. ASSUME NEW id \in DOMAIN tracked PROVE Follows(id, tracked[id])'
  <2>1. PICK e \in Draft : e = tracked[id]
    BY <1>0 DEF TypeOK
  <2>2. ASSUME NEW p \in PlacesIn(e.resp) PROVE Keyed(id, e, p[1])' /\ CaughtUp(id, e, p[1])'
    <3>1. p[1] \in Req
      BY PlacesType DEF Draft, Place
    <3>2. Keyed(id, e, p[1]) /\ CaughtUp(id, e, p[1])
      BY <2>1 DEF GenuineInv, Follows
    <3> QED BY <1>0, <3>1, <3>2, CallKeeps
  <2>3. Follows(id, e)'
    BY <2>2 DEF Follows
  <2> QED BY <1>1, <2>1, <2>3
<1> QED BY <1>1, <1>3, <1>4 DEF GenuineInv

LEMMA MovesGenuine ==
    ASSUME Inv, GenuineInv, SealStale \/ SealerStep \/ Flush \/ Ends
    PROVE  GenuineInv'
<1>0. TypeOK
  BY DEF Inv
<1>1. CASE SealStale
  <2>1. PICK id \in stale : SealDraft(id)
    BY <1>1 DEF SealStale
  <2>2. UNCHANGED <<contract, rows, length, inHand, sealed>>
    BY <1>1 DEF SealStale, hostVars
  <2>3. CASE id \notin DOMAIN tracked
    BY <2>1, <2>2, <2>3, DraftsStay DEF SealDraft, Drafts
  <2>4. CASE id \in DOMAIN tracked
    <3>1. /\ DOMAIN tracked' \subseteq DOMAIN tracked
          /\ \A x \in DOMAIN tracked' : tracked'[x] = tracked[x]
      BY <2>1, <2>4 DEF SealDraft, Forget
    <3>2. \A i \in DOMAIN queue' : queue'[i] \in Drafts
      <4>1. CASE queue' = Append(queue, tracked[id])
        <5>1. \A i \in DOMAIN queue' :
                (i \in DOMAIN queue /\ queue'[i] = queue[i]) \/ queue'[i] = tracked[id]
          BY <1>0, <4>1 DEF TypeOK
        <5> QED BY <2>4, <5>1 DEF Drafts
      <4>2. CASE UNCHANGED queue
        BY <4>2 DEF Drafts
      <4> QED BY <2>1, <2>4, <4>1, <4>2 DEF SealDraft
    <3>3. Drafts' \subseteq Drafts
      BY <2>2, <3>1, <3>2 DEF Drafts
    <3> QED BY <2>2, <3>1, <3>3, DraftsStay
  <2> QED BY <2>3, <2>4
<1>2. CASE Take
  <2>1. UNCHANGED <<contract, rows, length, tracked, sealed>>
    BY <1>2 DEF Take, hostVars, callVars, historyVars
  <2>2. inHand' \in Drafts /\ \A i \in DOMAIN queue' : queue'[i] \in Drafts
    <3>1. /\ 1 \in DOMAIN queue /\ Head(queue) = queue[1]
          /\ \A i \in DOMAIN Tail(queue) : i + 1 \in DOMAIN queue /\ Tail(queue)[i] = queue[i + 1]
      BY <1>0, <1>2 DEF Take, TypeOK
    <3> QED BY <1>2, <3>1 DEF Take, Drafts
  <2>3. Drafts' \subseteq Drafts
    BY <2>1, <2>2 DEF Drafts
  <2> QED BY <2>1, <2>3, DraftsStay
<1>3. CASE PutTaken \/ PutRaises
  <2>1. UNCHANGED <<contract, rows, length, tracked, queue>>
    BY <1>3 DEF PutTaken, PutRaises, hostVars, callVars
  <2>2. inHand # None /\ inHand' = None /\ sealed' \subseteq sealed \cup {inHand}
    BY <1>3 DEF PutTaken, PutRaises, Put
  <2>3. Drafts' \subseteq Drafts
    BY <2>1, <2>2 DEF Drafts
  <2> QED BY <2>1, <2>3, DraftsStay
<1>4. CASE Flush
  <2>1. PICK id \in DOMAIN tracked :
          /\ tracked' = Forget(tracked, id)
          /\ sealed' \subseteq sealed \cup {tracked[id]}
    BY <1>4 DEF Flush, Put
  <2>2. UNCHANGED <<contract, rows, length, queue, inHand>>
    BY <1>4 DEF Flush, hostVars, callVars, sealerVars
  <2>3. /\ DOMAIN tracked' \subseteq DOMAIN tracked
        /\ \A x \in DOMAIN tracked' : tracked'[x] = tracked[x]
    BY <2>1 DEF Forget
  <2>4. Drafts' \subseteq Drafts
    BY <2>1, <2>2, <2>3 DEF Drafts
  <2> QED BY <2>2, <2>3, <2>4, DraftsStay
<1>5. CASE Ends
  <2>1. /\ DOMAIN tracked' = {} /\ queue' = <<>> /\ inHand' = None
        /\ UNCHANGED <<contract, sealed>>
    BY <1>5 DEF Ends, NoDraft
  <2>2. DOMAIN queue' = {}
    BY <2>1
  <2>3. Drafts' \subseteq Drafts
    BY <2>1, <2>2 DEF Drafts
  <2> QED BY <2>1, <2>3, DraftsStay
<1> QED BY <1>1, <1>2, <1>3, <1>4, <1>5 DEF SealerStep

LEMMA InitGenuine == Init => GenuineInv
<1> SUFFICES ASSUME Init PROVE GenuineInv OBVIOUS
<1>1. DOMAIN tracked = {} /\ DOMAIN queue = {} /\ inHand = None /\ sealed = {}
  BY DEF Init, NoDraft
<1> QED BY <1>1 DEF GenuineInv, Drafts

LEMMA GenuineStep == Inv /\ ApartInv /\ GenuineInv /\ [Next]_vars => GenuineInv'
<1> SUFFICES ASSUME Inv, ApartInv, GenuineInv, [Next]_vars PROVE GenuineInv' OBVIOUS
<1>1. CASE WarmStep \/ RowsEnd \/ Return \/ Exit \/ Start \/ Damage \/ Over \/ UNCHANGED vars
  <2>1. UNCHANGED <<contract, length, rows, tracked, queue, inHand, sealed>>
    BY <1>1 DEF WarmStep, WarmSkips, WarmReplays, ReplayFails, WarmRefuses, WarmEnds, RowsEnd,
       Return, Exit, Start, Damage, Over, vars, hostVars, callVars, sealerVars, historyVars
  <2>2. Drafts' \subseteq Drafts
    BY <2>1 DEF Drafts
  <2> QED BY <2>1, <2>2, DraftsStay
<1> QED BY <1>1, SkipRowGenuine, StartRowGenuine, ExtendRowGenuine, CallGenuine, MovesGenuine
        DEF Next, MainStep, ProposeStep

\* Every draft, tracked, queued, taken or sealed, continues the streams it was cut
\* from without a gap, and only requests of equal heads share one: for any streams,
\* row keys and schedules of the rows, under both contracts (_propose_rows).
THEOREM DraftsGenuine == Spec => []DraftsAreGenuine
<1>1. Inv /\ ApartInv /\ GenuineInv => DraftsAreGenuine
  <2> SUFFICES ASSUME Inv, ApartInv, GenuineInv, NEW d \in Drafts
               PROVE  /\ d.resp # <<>> /\ Gapless(d.resp)
                      /\ \A p \in PlacesIn(d.resp) : p[2] \in PromptLen[p[1]] + 1 .. length[p[1]]
                      /\ Consecutive(Append(d.pat, d.resp[1]))
                      /\ IF contract = "pinned" THEN Cardinality(Owners(d)) = 1
                         ELSE \A r, s \in Owners(d) : Alike(r, s, d.resp[1][2] - 1)
    BY DEF DraftsAreGenuine
  <2>1. Genuine(d)
    BY DEF GenuineInv
  <2>2. d \in Draft
    BY DEF Inv, TypeOK, Drafts
  <2>3. PlacesIn(d.resp) \subseteq Accepted
    <3>1. \/ PlacesIn(d.resp) \subseteq InTracked
          \/ PlacesIn(d.resp) \subseteq InQueue
          \/ PlacesIn(d.resp) \subseteq InHand
          \/ PlacesIn(d.resp) \subseteq InSealed
      BY DEF Drafts, InTracked, InQueue, InHand, InSealed
    <3> QED BY <3>1 DEF ApartInv, PlacesApart
  <2>4. ASSUME NEW p \in PlacesIn(d.resp) PROVE p[2] \in PromptLen[p[1]] + 1 .. length[p[1]]
    <3>1. p[1] \in Req /\ p[2] \in Nat /\ p[2] > PromptLen[p[1]] /\ p[2] <= length[p[1]]
      BY <2>3, DrafterAssumption DEF Accepted
    <3>2. PromptLen[p[1]] \in Nat /\ length[p[1]] \in Nat
      BY <3>1, StreamType DEF Inv, TypeOK
    <3> QED BY <3>1, <3>2
  <2>5. d.resp[1] \in PlacesIn(d.resp)
    BY <2>1, <2>2 DEF Genuine, Draft, PlacesIn
  <2>6. \A r \in Owners(d) : \E p \in PlacesIn(d.resp) : r = p[1]
    BY <2>1, <2>5 DEF Genuine, Owners
  <2>7. CASE contract = "pinned"
    <3>1. \A r \in Owners(d) : r = d.resp[1][1]
      BY <2>1, <2>5, <2>6, <2>7 DEF Genuine
    <3>2. Owners(d) = {d.resp[1][1]}
      BY <2>5, <3>1 DEF Owners
    <3> QED BY <2>1, <2>4, <2>7, <3>2, FS_Singleton DEF Genuine
  <2>8. CASE contract # "pinned"
    <3>1. \A r, s \in Owners(d) : Alike(r, s, d.resp[1][2] - 1)
      BY <2>1, <2>6, <2>8 DEF Genuine
    <3> QED BY <2>1, <2>4, <2>8, <3>1 DEF Genuine
  <2> QED BY <2>7, <2>8
<1> QED BY <1>1, Apart, InitGenuine, GenuineStep, PTL DEF Spec

=============================================================================
