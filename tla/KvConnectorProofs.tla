------------------------- MODULE KvConnectorProofs -------------------------
(***************************************************************************)
(* Theorems about the connector of KvConnector, for every set of engines,  *)
(* requests and keys: its types, and that damage is contained: while no    *)
(* request is preempted and all run under one adapter, a wrong block       *)
(* exists only downstream of a block that could not be loaded, whatever is *)
(* corrupted, lost, raced for or crashed.                                  *)
(***************************************************************************)
EXTENDS KvCorrectness, TLAPS, WellFoundedInduction

-----------------------------------------------------------------------------
(* Facts about the constants and the operators of the specification. *)

\* The number of eligible blocks of a request is within the bound.
LEMMA BlocksType == \A r \in Req : Blocks(r) \in 0 .. MaxBlocks
BY PromptAssumption DEF Blocks

\* Every eligible block has a key.
LEMMA PromptType ==
    ASSUME NEW r \in Req, NEW j \in 1 .. Blocks(r)
    PROVE  Prompt[r][j] \in Key
BY PromptAssumption DEF Blocks

\* A block computed by a prefill, soundly or not, is content.
LEMMA RightType ==
    ASSUME NEW r \in Req, NEW j \in 1 .. Blocks(r)
    PROVE  /\ Right(r, j) \in Content
           /\ <<Wrong, Prompt[r][j]>> \in Content
BY PromptType, PromptAssumption DEF Right, Content

\* A non-empty set of positions has a least element.
LEMMA LeastPosition ==
    ASSUME NEW S, S \subseteq 1 .. MaxBlocks, S # {}
    PROVE  \E j \in S : \A i \in S : j <= i
<1>1. S \subseteq Nat
  BY PromptAssumption
<1>2. PICK j \in S : \A i \in S : <<i, j>> \notin OpToRel(<, Nat)
  BY <1>1, NatLessThanWellFounded, WFMin, Zenon
<1>3. \A i \in S : ~(i < j)
  BY <1>1, <1>2, Zenon DEF OpToRel
<1>. QED
  BY <1>1, <1>3

\* What rewinding keeps of a request: fewer blocks than the first reported one.
LEMMA ValidPrefixIsCut ==
    ASSUME NEW r \in Req, loadErrors[r] \subseteq 1 .. MaxBlocks, loadErrors[r] # {}
    PROVE  /\ ValidPrefix(r) \in 0 .. MaxBlocks
           /\ \A i \in loadErrors[r] : ValidPrefix(r) < i
           /\ ValidPrefix(r) + 1 \in loadErrors[r]
<1>1. \E j \in loadErrors[r] : \A i \in loadErrors[r] : j <= i
  BY LeastPosition
<1>. QED
  BY <1>1, PromptAssumption DEF ValidPrefix

\* Storing a payload leaves every file in a legal state.
LEMMA StoredType ==
    ASSUME NEW c \in Content, objects \in [Content -> {"absent", "good", "bad"}]
    PROVE  Stored(c) \in [Content -> {"absent", "good", "bad"}]
BY DEF Stored

\* A fetch of a held label answers with nothing or with that label's content.
LEMMA FetchedType ==
    ASSUME NEW l \in Content \cup {None},
           objects \in [Content -> {"absent", "good", "bad"}]
    PROVE  Fetched(l) \subseteq {None, l}
BY DEF Fetched

-----------------------------------------------------------------------------
(* Type correctness. *)

LEMMA InitType == Init => TypeOK
<1> SUFFICES ASSUME Init PROVE TypeOK
  OBVIOUS
<1>1. Junk \in Content /\ NoWindow \in Window /\ 0 \in 0 .. MaxBlocks
  BY PromptAssumption DEF Content, NoWindow, Window
<1>2. kvCache \in [Req -> [1 .. MaxBlocks -> Content]]
  BY <1>1 DEF Init, EmptyCache
<1>3. \A r \in Req : needLoad[r][2] <= Blocks(r) /\ window[r][2] <= Blocks(r)
  BY BlocksType DEF Init, NoWindow
<1>4. 0 \in 0 .. MaxFaults
  BY ParameterAssumption
<1>. QED
  BY <1>1, <1>2, <1>3, <1>4 DEF Init, TypeOK, Phase, Status

LEMMA ScheduleType ==
    ASSUME TypeOK, NEW r \in Req, Schedule(r)
    PROVE  TypeOK'
<1>1. PICK n \in 0 .. Blocks(r), hit \in 0 .. Blocks(r), s \in Req :
          /\ LocalHit(r, n, s)
          /\ ContiguousHit(r, n, hit)
          /\ needLoad' = [needLoad EXCEPT ![r] = AfterAlloc(r, n, hit)]
          /\ computed' = [computed EXCEPT ![r] = hit]
          /\ kvCache' = [kvCache EXCEPT ![r] =
                [j \in 1 .. MaxBlocks |-> IF j <= n THEN kvCache[s][j] ELSE Junk]]
  BY DEF Schedule
<1>2. n \in 0 .. MaxBlocks /\ hit \in 0 .. MaxBlocks
  BY BlocksType, PromptAssumption
<1>3. AfterAlloc(r, n, hit) \in Window
  <2>1. needLoad[r] \in Window
    BY DEF TypeOK
  <2>2. <<0, 0>> \in Window /\ <<n, hit>> \in Window
    BY <1>2, PromptAssumption DEF Window
  <2>. QED
    BY <2>1, <2>2 DEF AfterAlloc, AfterMatch, NoWindow
<1>4. [j \in 1 .. MaxBlocks |-> IF j <= n THEN kvCache[s][j] ELSE Junk]
          \in [1 .. MaxBlocks -> Content]
  <2>1. Junk \in Content
    BY DEF Content
  <2>2. kvCache[s] \in [1 .. MaxBlocks -> Content]
    BY DEF TypeOK
  <2>. QED
    BY <2>1, <2>2
<1>5. status' \in [Req -> Status]
  BY DEF Schedule, TypeOK, Status
<1>6. \A q \in Req : needLoad'[q][2] <= Blocks(q) /\ window'[q][2] <= Blocks(q)
  BY <1>1, BlocksType DEF Schedule, TypeOK, AfterAlloc, AfterMatch, NoWindow
<1>. QED
  BY <1>1, <1>2, <1>3, <1>4, <1>5, <1>6 DEF Schedule, TypeOK, storeVars

LEMMA AllocFailsType ==
    ASSUME TypeOK, NEW r \in Req, AllocFails(r)
    PROVE  TypeOK'
<1>1. \A n, hit \in 0 .. Blocks(r) : AfterMatch(r, n, hit) \in Window
  <2>1. needLoad[r] \in Window
    BY DEF TypeOK
  <2>. QED
    BY <2>1, BlocksType, PromptAssumption DEF AfterMatch, Window
<1>2. \A n, hit \in 0 .. Blocks(r) : AfterMatch(r, n, hit)[2] <= Blocks(r)
  BY BlocksType DEF AfterMatch, TypeOK
<1>3. PICK n, hit \in 0 .. Blocks(r) :
          needLoad' = [needLoad EXCEPT ![r] = AfterMatch(r, n, hit)]
  BY DEF AllocFails
<1>4. needLoad' \in [Req -> Window] /\ \A q \in Req : needLoad'[q][2] <= Blocks(q)
  BY <1>1, <1>2, <1>3 DEF TypeOK
<1>. QED
  BY <1>4 DEF AllocFails, TypeOK, storeVars, workerVars

LEMMA EngineStepType ==
    ASSUME TypeOK, NEW e \in Engine, EngineStep(e)
    PROVE  TypeOK'
<1>1. CASE BuildMeta(e)
  <2>1. \A w \in Window : w[1] \in 0 .. MaxBlocks
    BY DEF Window
  <2>2. NoWindow \in Window /\ \A r \in Req : NoWindow[2] <= Blocks(r)
    BY BlocksType, PromptAssumption DEF NoWindow, Window
  <2>3. phase' \in [Engine -> Phase]
    BY <1>1 DEF BuildMeta, TypeOK, Phase
  <2>4. window' \in [Req -> Window] /\ needLoad' \in [Req -> Window]
    BY <1>1, <2>2 DEF BuildMeta, TypeOK
  <2>5. cursor' \in [Req -> 0 .. MaxBlocks]
    BY <1>1, <2>1 DEF BuildMeta, TypeOK
  <2>6. \A r \in Req : needLoad'[r][2] <= Blocks(r) /\ window'[r][2] <= Blocks(r)
    BY <1>1, <2>2 DEF BuildMeta, TypeOK
  <2>. QED
    BY <1>1, <2>3, <2>4, <2>5, <2>6 DEF BuildMeta, TypeOK, storeVars
<1>2. CASE Forward(e)
  <2>1. \A r \in Req : Computed(r) \in [1 .. MaxBlocks -> Content]
    BY RightType, PromptAssumption, BlocksType DEF Computed, TypeOK
  <2>2. kvCache' \in [Req -> [1 .. MaxBlocks -> Content]]
    BY <1>2, <2>1 DEF Forward, TypeOK
  <2>3. phase' \in [Engine -> Phase] /\ cursor' \in [Req -> 0 .. MaxBlocks]
    BY <1>2, PromptAssumption DEF Forward, TypeOK, Phase
  <2>. QED
    BY <1>2, <2>2, <2>3 DEF Forward, TypeOK, storeVars, schedulerVars
<1>3. CASE EndStep(e)
  <2>1. \A r \in Req : loadErrors[r] # {} => ValidPrefix(r) \in 0 .. MaxBlocks
    BY ValidPrefixIsCut DEF TypeOK
  <2>2. computed' \in [Req -> 0 .. MaxBlocks]
    BY <1>3, <2>1, BlocksType DEF EndStep, TypeOK
  <2>3. status' \in [Req -> Status]
    BY <1>3 DEF EndStep, TypeOK, Status
  <2>4. /\ phase' \in [Engine -> Phase]
        /\ window' \in [Req -> Window]
        /\ cursor' \in [Req -> 0 .. MaxBlocks]
        /\ loadErrors' \in [Req -> SUBSET (1 .. MaxBlocks)]
    BY <1>3, PromptAssumption DEF EndStep, TypeOK, Phase, Window, NoWindow
  <2>5. \A r \in Req : needLoad'[r][2] <= Blocks(r) /\ window'[r][2] <= Blocks(r)
    BY <1>3, BlocksType DEF EndStep, TypeOK, NoWindow
  <2>. QED
    BY <1>3, <2>2, <2>3, <2>4, <2>5 DEF EndStep, TypeOK, storeVars
<1>. QED
  BY <1>1, <1>2, <1>3 DEF EngineStep

LEMMA LoadStepType ==
    ASSUME TypeOK, NEW r \in Req, LoadStep(r)
    PROVE  TypeOK'
<1> DEFINE j == cursor[r] + 1
<1>1. j \in 1 .. Blocks(r) /\ j \in 1 .. MaxBlocks
  BY BlocksType, PromptAssumption
     DEF LoadStep, Lookup, Inject, Refuse, Mismatch, Loading, TypeOK, Window
<1>2. Prompt[r][j] \in Key
  BY <1>1, PromptType
<1>3. CASE Lookup(r)
  BY <1>2, <1>3 DEF Lookup, TypeOK, storeVars, schedulerVars
<1>4. CASE Inject(r)
  <2>1. held[r] \in Content
    BY <1>4 DEF Inject, TypeOK, Fetched
  <2>2. Fetched(held[r]) \ {None} \subseteq Content
    BY <2>1 DEF Fetched
  <2>3. Stored(held[r]) \in [Content -> {"absent", "good", "bad"}]
    BY <2>1, StoredType DEF TypeOK
  <2>. QED
    BY <1>1, <1>4, <2>2, <2>3 DEF Inject, TypeOK, schedulerVars
<1>5. CASE Refuse(r)
  BY <1>1, <1>2, <1>5 DEF Refuse, Reported, TypeOK, schedulerVars
<1>6. CASE Mismatch(r)
  <2>1. held[r] \in Content
    BY <1>6 DEF Mismatch, Reported, TypeOK, Fetched
  <2>2. Stored(held[r]) \in [Content -> {"absent", "good", "bad"}]
    BY <2>1, StoredType DEF TypeOK
  <2>. QED
    BY <1>1, <1>2, <1>6, <2>1, <2>2 DEF Mismatch, Reported, TypeOK, schedulerVars
<1>. QED
  BY <1>3, <1>4, <1>5, <1>6 DEF LoadStep

LEMMA SaveStepType ==
    ASSUME TypeOK, NEW r \in Req, SaveStep(r)
    PROVE  TypeOK'
<1> DEFINE j == cursor[r] + 1
<1>1. j \in 1 .. Blocks(r) /\ j \in 1 .. MaxBlocks
  BY BlocksType, PromptAssumption
     DEF SaveStep, SkipBlock, PutPayload, PutIndex, Saving, TypeOK
<1>2. Prompt[r][j] \in Key
  BY <1>1, PromptType
<1>3. CASE SkipBlock(r)
  BY <1>1, <1>3 DEF SkipBlock, TypeOK, storeVars, schedulerVars
<1>4. CASE PutPayload(r)
  <2>1. kvCache[r][j] \in Content
    <3>1. kvCache[r] \in [1 .. MaxBlocks -> Content]
      BY DEF TypeOK
    <3>. QED
      BY <1>1, <3>1
  <2>2. Stored(kvCache[r][j]) \in [Content -> {"absent", "good", "bad"}]
    BY <2>1, StoredType DEF TypeOK
  <2>. QED
    BY <1>4, <2>1, <2>2 DEF PutPayload, TypeOK, schedulerVars
<1>5. CASE PutIndex(r)
  BY <1>1, <1>2, <1>5 DEF PutIndex, TypeOK, schedulerVars
<1>. QED
  BY <1>3, <1>4, <1>5 DEF SaveStep

LEMMA FinishType ==
    ASSUME TypeOK, NEW r \in Req, Finish(r)
    PROVE  TypeOK'
BY DEF Finish, TypeOK, Status, storeVars, workerVars

LEMMA FaultType ==
    ASSUME TypeOK, NEW kind, Fault(kind)
    PROVE  faults' \in 0 .. MaxFaults
BY ParameterAssumption DEF TypeOK, Fault

LEMMA PreemptType ==
    ASSUME TypeOK, NEW r \in Req, Preempt(r)
    PROVE  TypeOK'
<1>1. EmptyCache \in [1 .. MaxBlocks -> Content] /\ 0 \in 0 .. MaxBlocks
  BY PromptAssumption DEF EmptyCache, Content
<1>2. faults' \in 0 .. MaxFaults
  BY FaultType DEF Preempt
<1>. QED
  BY <1>1, <1>2 DEF Preempt, TypeOK, Status, storeVars

LEMMA CrashType ==
    ASSUME TypeOK, NEW e \in Engine, Crash(e)
    PROVE  TypeOK'
<1>1. /\ EmptyCache \in [1 .. MaxBlocks -> Content] /\ 0 \in 0 .. MaxBlocks
      /\ NoWindow \in Window /\ \A r \in Req : NoWindow[2] <= Blocks(r)
  BY BlocksType, PromptAssumption DEF EmptyCache, Content, Window, NoWindow
<1>2. faults' \in 0 .. MaxFaults
  BY FaultType DEF Crash
<1>3. status' \in [Req -> Status] /\ phase' \in [Engine -> Phase]
  BY DEF Crash, TypeOK, Status, Phase
<1>4. /\ computed' \in [Req -> 0 .. MaxBlocks]
      /\ cursor' \in [Req -> 0 .. MaxBlocks]
      /\ held' \in [Req -> Content \cup {None, Idle}]
      /\ kvCache' \in [Req -> [1 .. MaxBlocks -> Content]]
      /\ loadErrors' \in [Req -> SUBSET (1 .. MaxBlocks)]
  BY <1>1 DEF Crash, TypeOK
<1>5. /\ needLoad' \in [Req -> Window]
      /\ window' \in [Req -> Window]
      /\ \A r \in Req : needLoad'[r][2] <= Blocks(r) /\ window'[r][2] <= Blocks(r)
  BY <1>1 DEF Crash, TypeOK
<1>. QED
  BY <1>2, <1>3, <1>4, <1>5 DEF Crash, TypeOK, storeVars

LEMMA DamageType ==
    ASSUME TypeOK, NEW label \in Content, Corrupt(label) \/ Lose(label)
    PROVE  TypeOK'
<1>1. faults' \in 0 .. MaxFaults
  BY FaultType DEF Corrupt, Lose
<1>. QED
  BY <1>1 DEF Corrupt, Lose, TypeOK, schedulerVars, workerVars

LEMMA NextType == TypeOK /\ [Next]_vars => TypeOK'
<1> SUFFICES ASSUME TypeOK, [Next]_vars PROVE TypeOK'
  OBVIOUS
<1>1. ASSUME NEW e \in Engine, EngineStep(e) \/ Crash(e) PROVE TypeOK'
  BY <1>1, EngineStepType, CrashType
<1>2. ASSUME NEW r \in Req, RequestStep(r) \/ Preempt(r) PROVE TypeOK'
  BY <1>2, ScheduleType, AllocFailsType, LoadStepType, SaveStepType, FinishType,
     PreemptType DEF RequestStep
<1>3. ASSUME NEW label \in Content, Corrupt(label) \/ Lose(label) PROVE TypeOK'
  BY <1>3, DamageType
<1>4. CASE UNCHANGED vars
  BY <1>4 DEF vars, storeVars, schedulerVars, workerVars, TypeOK
<1>. QED
  BY <1>1, <1>2, <1>3, <1>4 DEF Next, Quiet

\* The connector's state stays well formed: windows, cursors and rewinds never
\* leave the prompt they belong to, whatever interleaving or fault.
THEOREM TypeCorrect == Spec => []TypeOK
BY InitType, NextType, PTL DEF Spec

-----------------------------------------------------------------------------
(* Facts about credible content. *)

LEMMA RightIsReal ==
    ASSUME NEW r \in Req, NEW j \in 1 .. Blocks(r)
    PROVE  Right(r, j) \in Real /\ <<Wrong, Prompt[r][j]>> \in Real
BY PromptType, PromptAssumption DEF Right, Real

\* Real content is neither garbage nor an absent value.
LEMMA RealValues ==
    /\ Real \subseteq Content
    /\ None \notin Real /\ Idle \notin Real /\ None # Idle
    /\ Junk \notin Real /\ Rotten \notin Real
BY ValueAssumption DEF Real, Content

LEMMA CredibleIsReal ==
    ASSUME NEW r \in Req, NEW j \in 1 .. Blocks(r), NEW c, Credible(r, j, c)
    PROVE  c \in Real
BY RightIsReal DEF Credible

\* A refusal more takes nothing from what is credible.
LEMMA CredibleStays ==
    ASSUME NEW r, NEW j, NEW c, Credible(r, j, c), refused \subseteq refused'
    PROVE  Credible(r, j, c)'
BY DEF Credible, Downstream, Failed, Right

\* What stands for a block stands for the same key's block in every prompt.
LEMMA CredibleForKey ==
    ASSUME OneContext,
           NEW r \in Req, NEW i \in 1 .. Blocks(r),
           NEW s \in Req, NEW j \in 1 .. Blocks(s),
           Prompt[r][i] = Prompt[s][j], NEW c, Credible(r, i, c)
    PROVE  Credible(s, j, c)
<1>1. i = j /\ \A h \in 1 .. i : Prompt[r][h] = Prompt[s][h]
  BY ChainedKeys
<1>2. Right(r, i) = Right(s, j)
  BY <1>1 DEF Right, OneContext
<1>3. Downstream(r, i) => Downstream(s, j)
  BY <1>1, BlocksType DEF Downstream, Failed
<1>. QED
  BY <1>2, <1>3 DEF Credible

\* Whatever follows a block that is not right and not credible is downstream.
LEMMA AfterABadBlock ==
    ASSUME NEW r \in Req, NEW i \in Nat, NEW j \in Nat, 1 <= i, i < j,
           Failed(r, i) \/ Downstream(r, i)
    PROVE  Downstream(r, j)
<1>1. CASE Failed(r, i)
  BY <1>1 DEF Downstream
<1>2. CASE Downstream(r, i)
  <2>1. PICK h \in 1 .. i - 1 : Failed(r, h)
    BY <1>2 DEF Downstream
  <2>2. h \in 1 .. j - 1
    BY <2>1
  <2>. QED
    BY <2>1, <2>2 DEF Downstream
<1>. QED
  BY <1>1, <1>2

-----------------------------------------------------------------------------
(* Frames: what a step that leaves a part of the state alone preserves. *)

LEMMA IndexFrame ==
    ASSUME IndexIsCredible, index' = index, refused \subseteq refused'
    PROVE  IndexIsCredible'
BY CredibleStays DEF IndexIsCredible

\* Nothing of request q, nor the phase of its engine, changes.
Untouched(q) ==
    /\ status'[q] = status[q] /\ computed'[q] = computed[q]
    /\ needLoad'[q] = needLoad[q] /\ window'[q] = window[q]
    /\ cursor'[q] = cursor[q] /\ held'[q] = held[q]
    /\ kvCache'[q] = kvCache[q] /\ loadErrors'[q] = loadErrors[q]
    /\ phase'[Home[q]] = phase[Home[q]]

LEMMA RequestFrame ==
    ASSUME NEW q \in Req, RequestIsContained(q), Untouched(q), refused \subseteq refused'
    PROVE  RequestIsContained(q)'
<1>1. InPlace(q)'
  BY DEF RequestIsContained, InPlace, Untouched, Blocks
<1>2. HeldIsCredible(q)'
  BY CredibleStays
     DEF RequestIsContained, HeldIsCredible, Untouched, Loading, Saving, Saves, InMeta,
         Blocks
<1>3. ErrorsAreFailures(q)'
  BY DEF RequestIsContained, ErrorsAreFailures, Untouched, Claimed, Failed
<1>4. CacheIsCredible(q)'
  <2>1. Extent(q)' = Extent(q)
    BY DEF Extent, Served, Untouched, Blocks
  <2>2. \A j : Doubtful(q, j) => Doubtful(q, j)'
    BY DEF Doubtful, Untouched
  <2>3. \A j : Credible(q, j, kvCache[q][j]) => Credible(q, j, kvCache[q][j])'
    BY CredibleStays DEF Untouched
  <2>. QED
    BY <2>1, <2>2, <2>3 DEF RequestIsContained, CacheIsCredible
<1>. QED
  BY <1>1, <1>2, <1>3, <1>4 DEF RequestIsContained

\* A step of r alone: the others keep what they have.
LEMMA OneRequest ==
    ASSUME NEW r \in Req, \A q \in Req : RequestIsContained(q),
           \A q \in Req \ {r} : Untouched(q), refused \subseteq refused',
           RequestIsContained(r)'
    PROVE  \A q \in Req : RequestIsContained(q)'
BY RequestFrame

-----------------------------------------------------------------------------
(* The steps of the scheduler. *)

LEMMA InitContained == Init => Containment
<1> SUFFICES ASSUME Init PROVE Containment
  OBVIOUS
<1>1. IndexIsCredible
  BY PromptType DEF Init, IndexIsCredible
<1>2. ASSUME NEW r \in Req PROVE RequestIsContained(r)
  BY BlocksType
     DEF Init, RequestIsContained, InPlace, HeldIsCredible, ErrorsAreFailures,
         CacheIsCredible, Extent, Served
<1>. QED
  BY <1>1, <1>2 DEF Containment

LEMMA ScheduleContained ==
    ASSUME TypeOK, Containment, OneContext, NEW r \in Req, Schedule(r)
    PROVE  Containment'
<1>1. PICK n \in 0 .. Blocks(r), hit \in 0 .. Blocks(r), s \in Req :
          /\ LocalHit(r, n, s)
          /\ ContiguousHit(r, n, hit)
          /\ needLoad' = [needLoad EXCEPT ![r] = AfterAlloc(r, n, hit)]
          /\ computed' = [computed EXCEPT ![r] = hit]
          /\ kvCache' = [kvCache EXCEPT ![r] =
                [j \in 1 .. MaxBlocks |-> IF j <= n THEN kvCache[s][j] ELSE Junk]]
  BY DEF Schedule
<1>2. IndexIsCredible'
  BY IndexFrame DEF Containment, Schedule, storeVars
<1>3. status[r] = "waiting" /\ status' = [status EXCEPT ![r] = "scheduled"]
  BY DEF Schedule, Containment, RequestIsContained, InPlace
<1>4. held[r] = Idle /\ loadErrors[r] = {}
  BY <1>3 DEF Containment, RequestIsContained, HeldIsCredible, ErrorsAreFailures,
              Loading, Saving, Saves, InMeta
<1>5. InPlace(r)' /\ HeldIsCredible(r)' /\ ErrorsAreFailures(r)'
  BY <1>1, <1>3, <1>4, BlocksType
     DEF Schedule, TypeOK, InPlace, HeldIsCredible, ErrorsAreFailures, Blocks
<1>6. CacheIsCredible(r)'
  <2>1. Extent(r)' = hit
    BY <1>1, <1>3 DEF Schedule, Extent, Served, TypeOK
  <2>2. SUFFICES ASSUME NEW j \in 1 .. hit
                 PROVE  (Doubtful(r, j) \/ Credible(r, j, kvCache[r][j]))'
    BY <2>1 DEF CacheIsCredible
  <2>3. j \in 1 .. Blocks(r) /\ j \in 1 .. MaxBlocks
    BY BlocksType, PromptAssumption
  <2>4. CASE j <= n
    <3>1. /\ j \in 1 .. Blocks(s) /\ Prompt[s][j] = Prompt[r][j]
          /\ Served(s)
      BY <1>1, <2>4, BlocksType DEF LocalHit, Served
    <3>2. ~Doubtful(s, j) /\ Extent(s) = Blocks(s)
      BY <3>1 DEF Doubtful, Extent, Served, Containment, RequestIsContained,
                  ErrorsAreFailures
    <3>3. Credible(s, j, kvCache[s][j])
      BY <3>1, <3>2 DEF Containment, RequestIsContained, CacheIsCredible
    <3>4. Credible(r, j, kvCache[s][j])
      BY <2>3, <3>1, <3>3, CredibleForKey
    <3>5. kvCache'[r][j] = kvCache[s][j]
      BY <1>1, <2>3, <2>4 DEF TypeOK
    <3>. QED
      BY <3>4, <3>5, CredibleStays DEF Schedule
  <2>5. CASE j > n
    <3>1. needLoad'[r] = <<n, hit>>
      BY <1>1, <2>5 DEF AfterAlloc, AfterMatch, TypeOK
    <3>2. status'[r] = "scheduled" /\ phase'[Home[r]] = "schedule"
      BY <1>3 DEF Schedule, TypeOK
    <3>. QED
      BY <2>5, <3>1, <3>2 DEF Doubtful
  <2>. QED
    BY <2>4, <2>5
<1>7. \A q \in Req \ {r} : Untouched(q)
  BY <1>1, <1>3 DEF Schedule, Untouched, TypeOK
<1>. QED
  BY <1>2, <1>5, <1>6, <1>7, OneRequest DEF Containment, RequestIsContained, Schedule

LEMMA AllocFailsContained ==
    ASSUME TypeOK, Containment, NEW r \in Req, AllocFails(r)
    PROVE  Containment'
<1>1. IndexIsCredible'
  BY IndexFrame DEF Containment, AllocFails, storeVars, workerVars
<1>2. status[r] = "waiting"
  BY DEF AllocFails, Containment, RequestIsContained, InPlace
<1>3. RequestIsContained(r)'
  BY <1>2 DEF AllocFails, workerVars, Containment, RequestIsContained, InPlace,
              HeldIsCredible, ErrorsAreFailures, CacheIsCredible, Extent, Served,
              Loading, Saving, Saves, InMeta, Blocks
<1>4. \A q \in Req \ {r} : Untouched(q)
  BY DEF AllocFails, workerVars, Untouched, TypeOK
<1>. QED
  BY <1>1, <1>3, <1>4, OneRequest DEF Containment, AllocFails, workerVars

-----------------------------------------------------------------------------
(* The steps of an engine. *)

\* Requests of other engines, and those outside the batch of e, see nothing of
\* a step of e but its phase; outside the batch the phase does not matter.
LEMMA OutsideBatch ==
    ASSUME NEW q \in Req, NEW e \in Engine, RequestIsContained(q),
           q \notin Batch(e), refused' = refused,
           status'[q] = status[q], computed'[q] = computed[q],
           needLoad'[q] = needLoad[q], window'[q] = window[q],
           cursor'[q] = cursor[q], held'[q] = held[q],
           kvCache'[q] = kvCache[q], loadErrors'[q] = loadErrors[q],
           \A f \in Engine \ {e} : phase'[f] = phase[f]
    PROVE  RequestIsContained(q)'
<1>1. CASE Home[q] # e
  BY <1>1, RequestFrame, PromptAssumption DEF Untouched
<1>2. CASE Home[q] = e
  <2>1. status[q] \notin {"scheduled", "rewound", "preempted", "resumed"}
    BY <1>2 DEF Batch, RequestIsContained, InPlace
  <2>2. held[q] = Idle /\ loadErrors[q] = {}
    BY <2>1 DEF RequestIsContained, HeldIsCredible, ErrorsAreFailures, Loading,
                Saving, Saves, InMeta
  <2>3. Extent(q)' = Extent(q)
    BY <2>1 DEF Extent, Served, Blocks
  <2>4. \A j \in 1 .. Extent(q) : Credible(q, j, kvCache[q][j])
    BY <2>1, <2>2 DEF RequestIsContained, CacheIsCredible, Doubtful
  <2>5. CacheIsCredible(q)'
    BY <2>3, <2>4, CredibleStays DEF CacheIsCredible
  <2>. QED
    BY <2>1, <2>2, <2>5 DEF RequestIsContained, InPlace, HeldIsCredible,
                      ErrorsAreFailures, Blocks
<1>. QED
  BY <1>1, <1>2

\* The batch of an engine is made of new and of rewound requests.
LEMMA BatchStatus ==
    ASSUME Containment, NEW e \in Engine, NEW r \in Batch(e)
    PROVE  /\ r \in Req /\ Home[r] = e
           /\ status[r] \in {"scheduled", "rewound"}
           /\ InMeta(r) <=> status[r] = "scheduled"
           /\ RequestIsContained(r)
BY DEF Batch, Containment, RequestIsContained, InPlace, InMeta

LEMMA BuildMetaContained ==
    ASSUME TypeOK, Containment, NEW e \in Engine, BuildMeta(e)
    PROVE  Containment'
<1>1. IndexIsCredible'
  BY IndexFrame DEF Containment, BuildMeta, storeVars
<1>2. phase[e] = "schedule" /\ phase'[e] = "load"
  BY DEF BuildMeta, TypeOK
<1>3. ASSUME NEW r \in Batch(e) PROVE RequestIsContained(r)'
  <2>1. /\ r \in Req /\ Home[r] = e /\ status[r] \in {"scheduled", "rewound"}
        /\ RequestIsContained(r)
    BY BatchStatus
  <2>2. held[r] = Idle /\ loadErrors[r] = {}
    BY <1>2, <2>1 DEF RequestIsContained, HeldIsCredible, ErrorsAreFailures, Loading,
                      Saving
  <2>3. HeldIsCredible(r)' /\ ErrorsAreFailures(r)'
    BY <2>1, <2>2 DEF BuildMeta, HeldIsCredible, ErrorsAreFailures
  <2>4. InPlace(r)'
    <3>1. status[r] = "scheduled" => window'[r][1] = cursor'[r]
      BY <2>1 DEF BuildMeta, InMeta
    <3>2. cursor'[r] \in Nat
      BY <2>1, NextType DEF BuildMeta, TypeOK, Window
    <3>. QED
      BY <2>1, <3>1, <3>2 DEF BuildMeta, RequestIsContained, InPlace, Blocks
  <2>5. Extent(r)' = computed[r] /\ Extent(r) = computed[r]
    BY <1>2, <2>1 DEF BuildMeta, Extent, Served
  <2>6. ASSUME NEW j \in 1 .. computed[r]
        PROVE  (Doubtful(r, j) \/ Credible(r, j, kvCache[r][j]))'
    <3>1. Doubtful(r, j) \/ Credible(r, j, kvCache[r][j])
      BY <2>1, <2>5 DEF RequestIsContained, CacheIsCredible
    <3>2. CASE Credible(r, j, kvCache[r][j])
      BY <3>2, CredibleStays DEF BuildMeta
    <3>3. CASE Doubtful(r, j)
      <4>1. /\ status[r] = "scheduled"
            /\ needLoad[r][1] < j /\ j <= needLoad[r][2]
        BY <1>2, <2>1, <2>2, <3>3 DEF Doubtful
      <4>2. window'[r] = needLoad[r] /\ cursor'[r] = needLoad[r][1]
        BY <2>1, <4>1 DEF BuildMeta, InMeta
      <4>. QED
        BY <1>2, <2>1, <4>1, <4>2 DEF Doubtful, BuildMeta
    <3>. QED
      BY <3>1, <3>2, <3>3
  <2>. QED
    BY <2>3, <2>4, <2>5, <2>6 DEF RequestIsContained, CacheIsCredible
<1>4. ASSUME NEW q \in Req \ Batch(e) PROVE RequestIsContained(q)'
  <2>1. \A f \in Engine \ {e} : phase'[f] = phase[f]
    BY DEF BuildMeta, TypeOK
  <2>. QED
    BY <2>1, OutsideBatch DEF BuildMeta, Containment
<1>. QED
  BY <1>1, <1>3, <1>4 DEF Containment

LEMMA ForwardContained ==
    ASSUME TypeOK, Containment, NEW e \in Engine, Forward(e)
    PROVE  Containment'
<1>1. IndexIsCredible'
  BY IndexFrame DEF Containment, Forward, storeVars
<1>2. phase[e] = "load" /\ phase'[e] = "save"
  BY DEF Forward, TypeOK
<1>3. ASSUME NEW r \in Batch(e) PROVE RequestIsContained(r)'
  <2>1. /\ r \in Req /\ Home[r] = e /\ status[r] \in {"scheduled", "rewound"}
        /\ RequestIsContained(r)
    BY BatchStatus
  <2>2. InMeta(r) => cursor[r] = window[r][2]
    BY DEF Forward
  <2>3. held[r] = Idle
    BY <1>2, <2>1, <2>2 DEF RequestIsContained, HeldIsCredible, Loading, Saving, TypeOK,
                            Window
  <2>4. InPlace(r)' /\ HeldIsCredible(r)' /\ ErrorsAreFailures(r)'
    BY <1>2, <2>1, <2>3
       DEF Forward, schedulerVars, RequestIsContained, InPlace, HeldIsCredible,
           ErrorsAreFailures, Claimed, Failed, Blocks
  <2>5. Extent(r)' = Blocks(r) /\ Extent(r) = computed[r]
    BY <1>2, <2>1 DEF Forward, schedulerVars, Extent, Served, Blocks
  <2>6. \A i \in 1 .. computed[r] : i \in loadErrors[r] \/ Credible(r, i, kvCache[r][i])
    BY <1>2, <2>1, <2>2, <2>5
       DEF RequestIsContained, CacheIsCredible, Doubtful, InMeta, TypeOK, Window
  <2>7. ASSUME NEW j \in 1 .. Blocks(r)
        PROVE  (Doubtful(r, j) \/ Credible(r, j, kvCache[r][j]))'
    <3>1. j \in 1 .. MaxBlocks /\ computed[r] \in Nat
      BY <2>1, BlocksType, PromptAssumption DEF TypeOK
    <3>2. kvCache'[r][j] = Computed(r)[j]
      BY <2>1 DEF Forward
    <3>3. CASE j <= computed[r]
      <4>1. kvCache'[r][j] = kvCache[r][j]
        BY <3>1, <3>2, <3>3 DEF Computed
      <4>2. j \in loadErrors[r] => Doubtful(r, j)'
        BY DEF Doubtful, Forward
      <4>. QED
        BY <2>6, <3>1, <3>3, <4>1, <4>2, CredibleStays DEF Forward
    <3>4. CASE j > computed[r] /\ \A i \in 1 .. computed[r] : kvCache[r][i] = Right(r, i)
      <4>1. kvCache'[r][j] = Right(r, j)
        BY <3>1, <3>2, <3>4 DEF Computed
      <4>. QED
        BY <4>1 DEF Credible, Right
    <3>5. CASE j > computed[r] /\ \E i \in 1 .. computed[r] : kvCache[r][i] # Right(r, i)
      <4>1. PICK i \in 1 .. computed[r] : kvCache[r][i] # Right(r, i)
        BY <3>5
      <4>2. Failed(r, i) \/ Downstream(r, i)
        BY <2>1, <2>6, <4>1 DEF RequestIsContained, ErrorsAreFailures, Credible
      <4>3. Downstream(r, j)
        BY <2>1, <3>1, <3>5, <4>1, <4>2, AfterABadBlock
      <4>4. kvCache'[r][j] = <<Wrong, Prompt[r][j]>>
        BY <3>1, <3>2, <3>5 DEF Computed
      <4>5. kvCache'[r][j] \in Real
        BY <2>1, <4>4, RightIsReal
      <4>6. Downstream(r, j)'
        BY <4>3 DEF Downstream, Failed, Forward
      <4>. QED
        BY <4>5, <4>6 DEF Credible
    <3>. QED
      BY <3>1, <3>3, <3>4, <3>5
  <2>. QED
    BY <2>4, <2>5, <2>7 DEF RequestIsContained, CacheIsCredible
<1>4. ASSUME NEW q \in Req \ Batch(e) PROVE RequestIsContained(q)'
  <2>1. \A f \in Engine \ {e} : phase'[f] = phase[f]
    BY DEF Forward, TypeOK
  <2>. QED
    BY <2>1, OutsideBatch DEF Forward, schedulerVars, Containment
<1>. QED
  BY <1>1, <1>3, <1>4 DEF Containment

LEMMA EndStepContained ==
    ASSUME TypeOK, Containment, NEW e \in Engine, EndStep(e)
    PROVE  Containment'
<1>1. IndexIsCredible'
  BY IndexFrame DEF Containment, EndStep, storeVars
<1>2. phase[e] = "save" /\ phase'[e] = "schedule"
  BY DEF EndStep, TypeOK
<1>3. ASSUME NEW r \in Batch(e) PROVE RequestIsContained(r)'
  <2>1. /\ r \in Req /\ Home[r] = e /\ status[r] \in {"scheduled", "rewound"}
        /\ RequestIsContained(r)
    BY BatchStatus
  <2>2. held[r] = Idle
    BY <1>2, <2>1 DEF EndStep, RequestIsContained, HeldIsCredible, Loading, Saving, TypeOK
  <2>3. Extent(r) = Blocks(r)
    BY <1>2, <2>1 DEF Extent, Served
  <2>4. \A j \in 1 .. Blocks(r) : j \in loadErrors[r] \/ Credible(r, j, kvCache[r][j])
    BY <1>2, <2>1, <2>3 DEF RequestIsContained, CacheIsCredible, Doubtful
  <2>5. loadErrors'[r] = {} /\ kvCache' = kvCache /\ refused' = refused /\ held' = held
    BY <2>1 DEF EndStep
  <2>6. HeldIsCredible(r)' /\ ErrorsAreFailures(r)'
    BY <2>2, <2>5 DEF HeldIsCredible, ErrorsAreFailures
  <2>7. CASE loadErrors[r] = {}
    <3>1. status'[r] = "running" /\ computed'[r] = Blocks(r)
      BY <2>1, <2>7 DEF EndStep
    <3>2. Extent(r)' = Blocks(r)
      BY <3>1 DEF Extent, Served, Blocks
    <3>3. CacheIsCredible(r)'
      BY <2>4, <2>5, <2>7, <3>2, CredibleStays DEF CacheIsCredible
    <3>4. InPlace(r)'
      BY <2>1, <3>1, BlocksType DEF InPlace, Blocks
    <3>. QED
      BY <2>6, <3>3, <3>4 DEF RequestIsContained
  <2>8. CASE loadErrors[r] # {}
    <3>1. status'[r] = "rewound" /\ computed'[r] = ValidPrefix(r)
      BY <2>1, <2>8 DEF EndStep
    <3>2. loadErrors[r] \subseteq 1 .. MaxBlocks
      BY <2>1 DEF TypeOK
    <3>3. /\ ValidPrefix(r) \in Nat
          /\ \A i \in loadErrors[r] : ValidPrefix(r) < i
          /\ ValidPrefix(r) + 1 \in loadErrors[r]
      BY <2>1, <2>8, <3>2, ValidPrefixIsCut, PromptAssumption
    <3>4. ValidPrefix(r) + 1 <= window[r][2] /\ window[r][2] <= Blocks(r)
      BY <2>1, <3>3 DEF RequestIsContained, ErrorsAreFailures, Claimed, TypeOK
    <3>5. ValidPrefix(r) <= Blocks(r)
      BY <2>1, <3>3, <3>4, BlocksType DEF TypeOK, Window
    <3>6. InPlace(r)'
      BY <3>1, <3>5 DEF InPlace, Blocks
    <3>7. Extent(r)' = ValidPrefix(r)
      BY <1>2, <2>1, <3>1 DEF Extent, Served
    <3>8. \A j \in 1 .. ValidPrefix(r) : Credible(r, j, kvCache[r][j])
      BY <2>1, <2>4, <3>3, <3>5, BlocksType
    <3>9. CacheIsCredible(r)'
      BY <2>5, <3>7, <3>8, CredibleStays DEF CacheIsCredible
    <3>. QED
      BY <2>6, <3>6, <3>9 DEF RequestIsContained
  <2>. QED
    BY <2>7, <2>8
<1>4. ASSUME NEW q \in Req \ Batch(e) PROVE RequestIsContained(q)'
  <2>1. \A f \in Engine \ {e} : phase'[f] = phase[f]
    BY DEF EndStep, TypeOK
  <2>. QED
    BY <2>1, OutsideBatch DEF EndStep, Containment
<1>. QED
  BY <1>1, <1>3, <1>4 DEF Containment

-----------------------------------------------------------------------------
(* The loop of start_load_kv. *)

\* The block a load or save step visits is a keyed block of the prompt.
LEMMA LoadPosition ==
    ASSUME TypeOK, NEW r \in Req, Loading(r)
    PROVE  /\ cursor[r] + 1 \in 1 .. Blocks(r)
           /\ cursor[r] + 1 \in 1 .. MaxBlocks
           /\ Prompt[r][cursor[r] + 1] \in Key
<1>1. cursor[r] + 1 \in 1 .. Blocks(r)
  BY BlocksType DEF TypeOK, Loading, Window
<1>. QED
  BY <1>1, PromptType, BlocksType, PromptAssumption

LEMMA SavePosition ==
    ASSUME TypeOK, NEW r \in Req, Saving(r)
    PROVE  /\ cursor[r] + 1 \in 1 .. Blocks(r)
           /\ cursor[r] + 1 \in 1 .. MaxBlocks
           /\ Prompt[r][cursor[r] + 1] \in Key
<1>1. cursor[r] + 1 \in 1 .. Blocks(r)
  BY BlocksType DEF TypeOK, Saving
<1>. QED
  BY <1>1, PromptType, BlocksType, PromptAssumption

LEMMA LookupContained ==
    ASSUME TypeOK, Containment, NEW r \in Req, Lookup(r)
    PROVE  Containment'
<1>1. IndexIsCredible'
  BY IndexFrame DEF Containment, Lookup, storeVars
<1>2. held'[r] = index[Prompt[r][cursor[r] + 1]]
  BY DEF Lookup, TypeOK
<1>3. held'[r] # None => Credible(r, cursor[r] + 1, held'[r])
  BY <1>2, LoadPosition DEF Lookup, Containment, IndexIsCredible
<1>4. held'[r] # None => Credible(r, cursor[r] + 1, held[r])'
  BY <1>3 DEF Lookup, Credible, Downstream, Failed, Right
<1>5. HeldIsCredible(r)'
  BY <1>4 DEF Lookup, schedulerVars, HeldIsCredible, Loading, InMeta
<1>6. RequestIsContained(r)'
  BY <1>5 DEF Lookup, schedulerVars, Containment, RequestIsContained, InPlace,
              ErrorsAreFailures, CacheIsCredible, Extent, Served, Doubtful, Claimed,
              Failed, Credible, Downstream, Right, Blocks
<1>7. \A q \in Req \ {r} : Untouched(q)
  BY DEF Lookup, schedulerVars, Untouched, TypeOK
<1>. QED
  BY <1>1, <1>6, <1>7, OneRequest DEF Containment, Lookup

\* What the two ways to report a claimed block have in common.
LEMMA BlockReported ==
    ASSUME TypeOK, Containment, NEW r \in Req, Loading(r), held[r] # Idle,
           NEW n, n = cursor[r] + 1,
           <<Prompt[r][n], held[r]>> \in refused',
           refused \subseteq refused',
           loadErrors' = [loadErrors EXCEPT ![r] = @ \cup {cursor[r] + 1}],
           held' = [held EXCEPT ![r] = Idle],
           cursor' = [cursor EXCEPT ![r] = @ + 1],
           UNCHANGED <<schedulerVars, phase, window, kvCache>>
    PROVE  \A q \in Req : RequestIsContained(q)'
<1>1. loadErrors'[r] = loadErrors[r] \cup {n} /\ cursor'[r] = n /\ held'[r] = Idle
  BY DEF TypeOK
<1>2. InPlace(r)' /\ HeldIsCredible(r)'
  <2>1. window[r][1] <= cursor[r] /\ window[r][1] \in Nat /\ cursor[r] \in Nat
    BY DEF Containment, RequestIsContained, InPlace, Loading, InMeta, TypeOK, Window
  <2>. QED
    BY <1>1, <2>1 DEF schedulerVars, Containment, RequestIsContained, InPlace,
                      HeldIsCredible, Blocks
<1>3. Failed(r, n)'
  <2>1. held[r] \in Content \cup {None}
    BY DEF TypeOK
  <2>. QED
    BY <2>1 DEF Failed
<1>4. Claimed(r, n)'
  BY <1>1 DEF Claimed, Loading, InMeta, TypeOK, Window, Containment, RequestIsContained,
              InPlace
<1>5. ErrorsAreFailures(r)'
  <2>1. \A j \in loadErrors[r] : Claimed(r, j) /\ Failed(r, j)
    BY DEF Containment, RequestIsContained, ErrorsAreFailures
  <2>2. \A j : Claimed(r, j) => Claimed(r, j)'
    BY DEF schedulerVars, Claimed
  <2>3. \A j : Failed(r, j) => Failed(r, j)'
    BY DEF Failed
  <2>4. (status[r] = "scheduled" /\ phase[Home[r]] # "schedule")'
    BY DEF schedulerVars, Loading, InMeta
  <2>5. \A j \in loadErrors'[r] : Claimed(r, j)' /\ Failed(r, j)'
    BY <1>1, <1>3, <1>4, <2>1, <2>2, <2>3
  <2> QED BY <2>4, <2>5 DEF ErrorsAreFailures
<1>6. Extent(r)' = Extent(r)
  BY DEF schedulerVars, Extent, Served, Blocks
<1>7. ASSUME NEW j \in 1 .. Extent(r)
      PROVE  (Doubtful(r, j) \/ Credible(r, j, kvCache[r][j]))'
  <2>1. Doubtful(r, j) \/ Credible(r, j, kvCache[r][j])
    BY DEF Containment, RequestIsContained, CacheIsCredible
  <2>2. CASE j = n
    BY <1>1, <2>2 DEF Doubtful
  <2>3. CASE j # n
    <3>1. Extent(r) \in Nat /\ cursor[r] \in Nat
      BY BlocksType DEF Extent, TypeOK
    <3>2. Doubtful(r, j) => Doubtful(r, j)'
      BY <1>1, <2>3, <3>1 DEF schedulerVars, Doubtful, Loading, InMeta
    <3>. QED
      BY <2>1, <3>2, CredibleStays
  <2>. QED
    BY <2>2, <2>3
<1>8. RequestIsContained(r)'
  BY <1>2, <1>5, <1>6, <1>7 DEF RequestIsContained, CacheIsCredible
<1>9. \A q \in Req \ {r} : Untouched(q)
  BY DEF schedulerVars, Untouched, TypeOK
<1>. QED
  BY <1>8, <1>9, OneRequest DEF Containment

LEMMA InjectContained ==
    ASSUME TypeOK, Containment, NEW r \in Req, Inject(r)
    PROVE  Containment'
<1> DEFINE n == cursor[r] + 1
<1>1. IndexIsCredible'
  BY IndexFrame DEF Containment, Inject
<1>2. PICK payload \in Fetched(held[r]) \ {None} :
          kvCache' = [kvCache EXCEPT ![r][n] = payload]
  BY DEF Inject
<1>3. held[r] # None /\ payload = held[r]
  BY <1>2 DEF Fetched
<1>4. Credible(r, n, payload)
  BY <1>3 DEF Inject, Containment, RequestIsContained, HeldIsCredible
<1>5. kvCache[r] \in [1 .. MaxBlocks -> Content] /\ n \in 1 .. MaxBlocks
  BY LoadPosition DEF Inject, TypeOK
<1>6. kvCache'[r] = [kvCache[r] EXCEPT ![n] = payload]
  BY <1>2 DEF TypeOK
<1>7. kvCache'[r][n] = payload
  BY <1>5, <1>6
<1>8. \A j \in 1 .. Blocks(r) : j # n => kvCache'[r][j] = kvCache[r][j]
  BY <1>5, <1>6, BlocksType, PromptAssumption
<1>9. cursor'[r] = n /\ held'[r] = Idle
  BY DEF Inject, TypeOK
<1>10. ErrorsAreFailures(r)'
  BY DEF Inject, schedulerVars, Containment, RequestIsContained, ErrorsAreFailures,
         Claimed, Failed
<1>11. Credible(r, n, kvCache'[r][n])
  BY <1>4, <1>7
<1>12. ASSUME NEW j \in 1 .. computed[r]
       PROVE  (Doubtful(r, j) \/ Credible(r, j, kvCache[r][j]))'
  <2>1. /\ Extent(r) = computed[r] /\ computed[r] <= Blocks(r)
        /\ computed[r] \in Nat
    BY DEF Inject, Extent, Served, Loading, InMeta, Containment, RequestIsContained,
           InPlace, TypeOK
  <2>2. CASE j = n
    BY <1>11, <2>2, CredibleStays DEF Inject
  <2>3. CASE j # n
    <3>1. kvCache'[r][j] = kvCache[r][j]
      BY <1>8, <2>1, <2>3, BlocksType
    <3>2. Doubtful(r, j) \/ Credible(r, j, kvCache[r][j])
      BY <2>1 DEF Containment, RequestIsContained, CacheIsCredible
    <3>3. Doubtful(r, j) => Doubtful(r, j)'
      BY <1>9, <2>3 DEF Inject, schedulerVars, Doubtful, Loading, InMeta, TypeOK
    <3>. QED
      BY <3>1, <3>2, <3>3, CredibleStays DEF Inject
  <2>. QED
    BY <2>2, <2>3
<1>13. RequestIsContained(r)'
  <2>1. Extent(r)' = computed[r]
    BY DEF Inject, schedulerVars, Extent, Served, Loading, InMeta, Blocks
  <2>2. InPlace(r)' /\ HeldIsCredible(r)'
    <3>1. window[r][1] <= cursor[r] /\ window[r][1] \in Nat /\ cursor[r] \in Nat
      BY DEF Inject, Containment, RequestIsContained, InPlace, Loading, InMeta, TypeOK,
             Window
    <3>. QED
      BY <1>9, <3>1 DEF Inject, schedulerVars, Containment, RequestIsContained, InPlace,
                        HeldIsCredible, Blocks
  <2>. QED
    BY <1>10, <1>12, <2>1, <2>2 DEF RequestIsContained, CacheIsCredible
<1>14. \A q \in Req \ {r} : Untouched(q)
  BY <1>2 DEF Inject, schedulerVars, Untouched, TypeOK
<1>. QED
  BY <1>1, <1>13, <1>14, OneRequest DEF Containment, Inject

LEMMA RefuseContained ==
    ASSUME TypeOK, Containment, NEW r \in Req, Refuse(r)
    PROVE  Containment'
<1>1. refused \subseteq refused' /\ <<Prompt[r][cursor[r] + 1], held[r]>> \in refused'
  BY DEF Refuse, Reported
<1>2. \A k \in Key : index'[k] \in {index[k], None}
  BY DEF Refuse, Reported, TypeOK
<1>3. IndexIsCredible'
  <2>1. \A k \in Key : index'[k] \in Real \cup {None}
    BY <1>2 DEF Containment, IndexIsCredible
  <2>2. ASSUME NEW q \in Req, NEW j \in 1 .. Blocks(q), index'[Prompt[q][j]] # None
        PROVE  Credible(q, j, index[Prompt[q][j]])'
    <3>1. index'[Prompt[q][j]] = index[Prompt[q][j]]
      BY <1>2, <2>2, PromptType
    <3>2. Credible(q, j, index[Prompt[q][j]])
      BY <2>2, <3>1 DEF Containment, IndexIsCredible
    <3>. QED
      BY <1>1, <3>1, <3>2, CredibleStays
  <2>. QED
    BY <2>1, <2>2 DEF IndexIsCredible, Blocks
<1>4. \A q \in Req : RequestIsContained(q)'
  BY <1>1, BlockReported DEF Refuse, Reported
<1>. QED
  BY <1>3, <1>4 DEF Containment

LEMMA MismatchContained ==
    ASSUME TypeOK, Containment, NEW r \in Req, Mismatch(r)
    PROVE  Containment'
<1>1. refused \subseteq refused' /\ <<Prompt[r][cursor[r] + 1], held[r]>> \in refused'
  BY DEF Mismatch, Reported
<1>2. IndexIsCredible'
  BY <1>1, IndexFrame DEF Containment, Mismatch, Reported
<1>3. \A q \in Req : RequestIsContained(q)'
  BY <1>1, BlockReported DEF Mismatch, Reported
<1>. QED
  BY <1>2, <1>3 DEF Containment

-----------------------------------------------------------------------------
(* The loop of wait_for_save. *)

\* A save step moves r within its save pass; it touches no block.
LEMMA SavePass ==
    ASSUME TypeOK, Containment, NEW r \in Req, Saving(r),
           UNCHANGED <<schedulerVars, phase, window, kvCache, loadErrors, refused>>,
           \A q \in Req \ {r} : cursor'[q] = cursor[q] /\ held'[q] = held[q],
           HeldIsCredible(r)'
    PROVE  \A q \in Req : RequestIsContained(q)'
<1>1. InPlace(r)' /\ ErrorsAreFailures(r)'
  BY DEF schedulerVars, Containment, RequestIsContained, InPlace, Saving,
         ErrorsAreFailures, Claimed, Failed, Blocks
<1>2. CacheIsCredible(r)'
  <2>1. Extent(r)' = Extent(r)
    BY DEF schedulerVars, Extent, Served, Blocks
  <2>2. \A j : Doubtful(r, j) => Doubtful(r, j)'
    BY DEF schedulerVars, Doubtful, Saving
  <2>3. \A j : Credible(r, j, kvCache[r][j]) => Credible(r, j, kvCache[r][j])'
    BY CredibleStays
  <2>. QED
    BY <2>1, <2>2, <2>3 DEF Containment, RequestIsContained, CacheIsCredible
<1>3. \A q \in Req \ {r} : Untouched(q)
  BY DEF schedulerVars, Untouched
<1>. QED
  BY <1>1, <1>2, <1>3, OneRequest DEF Containment, RequestIsContained

LEMMA SkipBlockContained ==
    ASSUME TypeOK, Containment, NEW r \in Req, SkipBlock(r)
    PROVE  Containment'
<1>1. IndexIsCredible'
  BY IndexFrame DEF Containment, SkipBlock, storeVars
<1>2. HeldIsCredible(r)'
  BY DEF SkipBlock, HeldIsCredible
<1>3. \A q \in Req : RequestIsContained(q)'
  BY <1>2, SavePass DEF SkipBlock, TypeOK
<1>. QED
  BY <1>1, <1>3 DEF Containment

LEMMA PutPayloadContained ==
    ASSUME TypeOK, Containment, NEW r \in Req, PutPayload(r)
    PROVE  Containment'
<1> DEFINE n == cursor[r] + 1
<1>1. IndexIsCredible'
  BY IndexFrame DEF Containment, PutPayload
<1>2. n \in 1 .. Blocks(r) /\ Extent(r) = Blocks(r)
  BY SavePosition DEF PutPayload, Saving, Saves, InMeta, Extent, Served
<1>3. ~Doubtful(r, n)
  BY DEF PutPayload, Saving, Doubtful, Containment, RequestIsContained, ErrorsAreFailures
<1>4. Credible(r, n, kvCache[r][n])
  BY <1>2, <1>3 DEF Containment, RequestIsContained, CacheIsCredible
<1>5. held'[r] = kvCache[r][n] /\ held'[r] # None
  BY <1>2, <1>4, CredibleIsReal, RealValues DEF PutPayload, TypeOK
<1>6. Credible(r, n, held[r])'
  BY <1>4, <1>5, CredibleStays DEF PutPayload
<1>7. HeldIsCredible(r)'
  BY <1>5, <1>6 DEF PutPayload, schedulerVars, HeldIsCredible, Saving, Saves, InMeta, Blocks
<1>8. \A q \in Req : RequestIsContained(q)'
  BY <1>7, SavePass DEF PutPayload, TypeOK
<1>. QED
  BY <1>1, <1>8 DEF Containment

LEMMA PutIndexContained ==
    ASSUME TypeOK, Containment, OneContext, NEW r \in Req, PutIndex(r)
    PROVE  Containment'
<1> DEFINE n == cursor[r] + 1
<1>1. n \in 1 .. Blocks(r) /\ Prompt[r][n] \in Key
  BY SavePosition DEF PutIndex
<1>2. held[r] # None /\ Credible(r, n, held[r])
  BY DEF PutIndex, Containment, RequestIsContained, HeldIsCredible, Loading, Saving
<1>3. held[r] \in Real
  BY <1>1, <1>2, CredibleIsReal
<1>4. index' = [index EXCEPT ![Prompt[r][n]] = held[r]]
  BY DEF PutIndex
<1>5. IndexIsCredible'
  <2>1. \A k \in Key : index'[k] \in Real \cup {None}
    BY <1>3, <1>4 DEF Containment, IndexIsCredible, TypeOK
  <2>2. ASSUME NEW q \in Req, NEW j \in 1 .. Blocks(q), index'[Prompt[q][j]] # None
        PROVE  Credible(q, j, index[Prompt[q][j]])'
    <3>1. Prompt[q][j] \in Key
      BY PromptType
    <3>2. CASE Prompt[q][j] = Prompt[r][n]
      <4>1. index'[Prompt[q][j]] = held[r]
        BY <1>4, <3>1, <3>2 DEF TypeOK
      <4>2. Credible(q, j, held[r])
        BY <1>1, <1>2, <3>2, CredibleForKey
      <4>. QED
        BY <4>1, <4>2, CredibleStays DEF PutIndex
    <3>3. CASE Prompt[q][j] # Prompt[r][n]
      <4>1. index'[Prompt[q][j]] = index[Prompt[q][j]]
        BY <1>4, <3>1, <3>3 DEF TypeOK
      <4>2. Credible(q, j, index[Prompt[q][j]])
        BY <2>2, <4>1 DEF Containment, IndexIsCredible
      <4>. QED
        BY <4>1, <4>2, CredibleStays DEF PutIndex
    <3>. QED
      BY <3>2, <3>3
  <2>. QED
    BY <2>1, <2>2 DEF IndexIsCredible, Blocks
<1>6. HeldIsCredible(r)'
  BY DEF PutIndex, HeldIsCredible, TypeOK
<1>7. \A q \in Req : RequestIsContained(q)'
  BY <1>6, SavePass DEF PutIndex, TypeOK
<1>. QED
  BY <1>5, <1>7 DEF Containment

-----------------------------------------------------------------------------
(* The life of a request and the faults. *)

LEMMA FinishContained ==
    ASSUME TypeOK, Containment, NEW r \in Req, Finish(r)
    PROVE  Containment'
<1>1. IndexIsCredible'
  BY IndexFrame DEF Containment, Finish, storeVars, workerVars
<1>2. status'[r] = "finished"
  BY DEF Finish, TypeOK
<1>3. held[r] = Idle /\ loadErrors[r] = {} /\ Extent(r) = Blocks(r) /\ Extent(r)' = Blocks(r)
  BY <1>2 DEF Finish, Containment, RequestIsContained, HeldIsCredible, ErrorsAreFailures,
              Loading, Saving, Extent, Served, Blocks
<1>4. CacheIsCredible(r)'
  <2>1. \A j \in 1 .. Blocks(r) : Credible(r, j, kvCache[r][j])
    BY <1>3 DEF Finish, Containment, RequestIsContained, CacheIsCredible, Doubtful
  <2>. QED
    BY <1>3, <2>1, CredibleStays DEF CacheIsCredible, Finish, workerVars
<1>5. RequestIsContained(r)'
  BY <1>2, <1>3, <1>4
     DEF Finish, workerVars, Containment, RequestIsContained, InPlace,
         HeldIsCredible, ErrorsAreFailures, Blocks
<1>6. \A q \in Req \ {r} : Untouched(q)
  BY DEF Finish, workerVars, Untouched, TypeOK
<1>. QED
  BY <1>1, <1>5, <1>6, OneRequest DEF Containment, Finish, workerVars

LEMMA CrashContained ==
    ASSUME TypeOK, Containment, NEW e \in Engine, Crash(e)
    PROVE  Containment'
<1>1. IndexIsCredible'
  BY IndexFrame DEF Containment, Crash, storeVars
<1>2. ASSUME NEW q \in Req, Home[q] # e PROVE RequestIsContained(q)'
  <2>1. Untouched(q)
    BY <1>2, PromptAssumption DEF Crash, Untouched, TypeOK
  <2>. QED
    BY <2>1, RequestFrame DEF Crash, Containment
<1>3. ASSUME NEW q \in Req, Home[q] = e PROVE RequestIsContained(q)'
  <2>1. CASE status[q] = "waiting"
    <3>1. held[q] = Idle /\ loadErrors[q] = {}
      BY <2>1 DEF Containment, RequestIsContained, HeldIsCredible, ErrorsAreFailures,
                  Loading, Saving, Saves, InMeta
    <3>. QED
      BY <2>1, <3>1 DEF Crash, Containment, RequestIsContained, InPlace,
         HeldIsCredible, ErrorsAreFailures, CacheIsCredible, Extent, Served, Blocks
  <2>2. CASE status[q] # "waiting"
    BY <1>3, <2>2, BlocksType
       DEF Crash, RequestIsContained, InPlace, HeldIsCredible, ErrorsAreFailures,
           CacheIsCredible, Extent, Served, Blocks
  <2>. QED
    BY <2>1, <2>2
<1>. QED
  BY <1>1, <1>2, <1>3 DEF Containment

LEMMA DamageContained ==
    ASSUME TypeOK, Containment, NEW label \in Content, Corrupt(label) \/ Lose(label)
    PROVE  Containment'
<1>1. index' = index /\ UNCHANGED <<schedulerVars, workerVars, phase>>
  BY DEF Corrupt, Lose
<1>2. \A q \in Req : Untouched(q)
  BY <1>1 DEF schedulerVars, workerVars, Untouched
<1>. QED
  BY <1>1, <1>2, IndexFrame, RequestFrame DEF Containment, workerVars

LEMMA NextContained ==
    ASSUME OneContext, NoPreemption
    PROVE  TypeOK /\ Containment /\ [Next]_vars => Containment'
<1> SUFFICES ASSUME TypeOK, Containment, [Next]_vars PROVE Containment'
  OBVIOUS
<1>1. ASSUME NEW e \in Engine, EngineStep(e) \/ Crash(e) PROVE Containment'
  BY <1>1, BuildMetaContained, ForwardContained, EndStepContained, CrashContained
     DEF EngineStep
<1>2. ASSUME NEW r \in Req, RequestStep(r) \/ Preempt(r) PROVE Containment'
  <2>1. ~Preempt(r)
    BY DEF Preempt, Fault, NoPreemption
  <2>. QED
    BY <1>2, <2>1, ScheduleContained, AllocFailsContained, LookupContained,
       InjectContained, RefuseContained, MismatchContained, SkipBlockContained,
       PutPayloadContained, PutIndexContained, FinishContained
       DEF RequestStep, LoadStep, SaveStep
<1>3. ASSUME NEW label \in Content, Corrupt(label) \/ Lose(label) PROVE Containment'
  BY <1>3, DamageContained
<1>4. CASE UNCHANGED vars
  <2>1. index' = index /\ refused' = refused /\ \A q \in Req : Untouched(q)
    BY <1>4 DEF vars, storeVars, schedulerVars, workerVars, Untouched
  <2>. QED
    BY <2>1, IndexFrame, RequestFrame DEF Containment
<1>. QED
  BY <1>1, <1>2, <1>3, <1>4 DEF Next, Quiet

-----------------------------------------------------------------------------
(* The theorems. *)

LEMMA ContainmentInvariant ==
    ASSUME OneContext, NoPreemption
    PROVE  Spec => []Containment
<1>1. Init => Containment
  BY InitContained
<1>2. TypeOK /\ Containment /\ [Next]_vars => Containment'
  BY NextContained
<1>. QED
  BY <1>1, <1>2, TypeCorrect, PTL DEF Spec

\* What a served request decodes over is credible, block by block.
LEMMA ServedIsCredible ==
    ASSUME Containment, NEW r \in Req, Served(r), NEW j \in 1 .. Blocks(r)
    PROVE  Credible(r, j, kvCache[r][j])
<1>1. Extent(r) = Blocks(r) /\ ~Doubtful(r, j)
  BY DEF Extent, Doubtful, Served, Containment, RequestIsContained, ErrorsAreFailures
<1>. QED
  BY <1>1 DEF Containment, RequestIsContained, CacheIsCredible

\* Corruption, loss, crashes and races never spread past the chains they hit:
\* a wrong block, indexed or served, has a failed block before it.
THEOREM DamageIsContained ==
    ASSUME OneContext, NoPreemption
    PROVE  Spec => []PoisonIsDownstream
<1>1. Containment => PoisonIsDownstream
  BY ServedIsCredible
     DEF Containment, IndexIsCredible, Credible, PoisonIsDownstream
<1>. QED
  BY <1>1, ContainmentInvariant, PTL

\* Every block a request decodes over was computed by some forward pass: no
\* claimed block is left unloaded, unreported or half written.
THEOREM NoGapIsServed ==
    ASSUME OneContext, NoPreemption
    PROVE  Spec => []NoSilentGap
<1>1. Containment => NoSilentGap
  BY ServedIsCredible, CredibleIsReal, RealValues DEF NoSilentGap
<1>. QED
  BY <1>1, ContainmentInvariant, PTL

\* The defect behind gate G3b cannot come back: the content of an uncomputed
\* block is never published under a key.
THEOREM GarbageStaysOut ==
    ASSUME OneContext, NoPreemption
    PROVE  Spec => []GarbageIsNeverIndexed
<1>1. Containment => GarbageIsNeverIndexed
  BY RealValues, ValueAssumption
     DEF Containment, IndexIsCredible, GarbageIsNeverIndexed, Content
<1>. QED
  BY <1>1, ContainmentInvariant, PTL
=============================================================================
