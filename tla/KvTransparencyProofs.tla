----------------------- MODULE KvTransparencyProofs -----------------------
(***************************************************************************)
(* The connector is a transparent cache: while files stay whole, whatever  *)
(* crashes and races, a request decodes over the blocks of a cold prefill, *)
(* and index and requests behave as PrefixCache says.  As long as no file  *)
(* is lost, no mapping names a missing payload.                            *)
(***************************************************************************)
EXTENDS KvConnectorProofs

-----------------------------------------------------------------------------
(* No mapping dangles.                                                      *)

\* Storing a payload leaves a file under its label and removes none.
LEMMA StoredIsThere ==
    ASSUME TypeOK, NEW c \in Content
    PROVE  /\ Stored(c)[c] # "absent"
           /\ \A d \in Content : objects[d] # "absent" => Stored(c)[d] = objects[d]
           /\ \A d \in Content : Stored(c)[d] \in {objects[d], "good"}
BY DEF Stored, TypeOK

\* The steps that change the directory of payloads.
LEMMA ObjectsFrame ==
    ASSUME TypeOK, [Next]_vars
    PROVE  \/ objects' = objects
           \/ \E r \in Req : Inject(r) \/ Mismatch(r) \/ PutPayload(r)
           \/ \E label \in Content : Corrupt(label) \/ Lose(label)
BY DEF Next, vars, storeVars, EngineStep, BuildMeta, Forward, EndStep, Crash, RequestStep,
   Schedule, AllocFails, LoadStep, Lookup, Refuse, SaveStep, SkipBlock, PutIndex,
   Finish, Preempt, Quiet

\* The steps that change the index.
LEMMA IndexSteps ==
    ASSUME TypeOK, [Next]_vars
    PROVE  index' = index \/ \E r \in Req : Refuse(r) \/ PutIndex(r)
BY DEF Next, vars, storeVars, EngineStep, BuildMeta, Forward, EndStep, Crash, RequestStep,
   Schedule, AllocFails, LoadStep, Lookup, Inject, Mismatch, SaveStep, SkipBlock, PutPayload,
   Finish, Preempt, Corrupt, Lose, Quiet

\* What a save puts is content.
LEMMA PayloadType ==
    ASSUME TypeOK, NEW r \in Req, PutPayload(r)
    PROVE  kvCache[r][cursor[r] + 1] \in Content
<1>1. cursor[r] + 1 \in 1 .. MaxBlocks
  BY SavePosition DEF PutPayload
<1>2. kvCache[r] \in [1 .. MaxBlocks -> Content]
  BY DEF TypeOK
<1>. QED
  BY <1>1, <1>2

\* A file that is there stays there.
LEMMA FilesStay ==
    ASSUME TypeOK, [Next]_vars, "lose" \notin Faults
    PROVE  \A c \in Content : objects[c] # "absent" => objects'[c] # "absent"
<1> USE DEF TypeOK
<1>1. ASSUME NEW r \in Req, Inject(r) \/ Mismatch(r)
      PROVE  \A c \in Content : objects[c] # "absent" => objects'[c] # "absent"
  <2>1. held[r] \in Content /\ objects' = Stored(held[r])
    BY <1>1 DEF Inject, Mismatch, Fetched
  <2>. QED
    BY <2>1, StoredIsThere
<1>2. ASSUME NEW r \in Req, PutPayload(r)
      PROVE  \A c \in Content : objects[c] # "absent" => objects'[c] # "absent"
  <2>1. kvCache[r][cursor[r] + 1] \in Content
    BY <1>2, PayloadType
  <2>2. objects' = Stored(kvCache[r][cursor[r] + 1])
    BY <1>2 DEF PutPayload
  <2>. QED
    BY <2>1, <2>2, StoredIsThere
<1>3. ASSUME NEW label \in Content, Corrupt(label) \/ Lose(label)
      PROVE  \A c \in Content : objects[c] # "absent" => objects'[c] # "absent"
  BY <1>3 DEF Corrupt, Lose, Fault
<1>. QED
  BY <1>1, <1>2, <1>3, ObjectsFrame

\* Between the steps of an engine no worker has anything in hand.
LEMMA NothingInHand ==
    ASSUME TypeOK, NEW r \in Req, HeldIsOnDisk(r), ~Loading(r), ~Saving(r)
    PROVE  held[r] = Idle
BY DEF HeldIsOnDisk

\* A step that leaves what r has in hand, and its place in the step, alone.
LEMMA HandFrame ==
    ASSUME TypeOK, [Next]_vars, "lose" \notin Faults, NEW r \in Req, HeldIsOnDisk(r),
           held'[r] = held[r],
           held[r] # Idle =>
              /\ status'[r] = status[r] /\ phase'[Home[r]] = phase[Home[r]]
              /\ cursor'[r] = cursor[r] /\ window'[r] = window[r]
    PROVE  HeldIsOnDisk(r)'
BY FilesStay DEF HeldIsOnDisk, Loading, Saving, Saves, InMeta, Blocks

LEMMA HandsOfRequestSteps ==
    ASSUME TypeOK, OnDisk, [Next]_vars, "lose" \notin Faults,
           NEW r \in Req, RequestStep(r) \/ Preempt(r)
    PROVE  \A q \in Req : HeldIsOnDisk(q)'
<1>1. ASSUME NEW q \in Req \ {r} PROVE HeldIsOnDisk(q)'
  <2>1. /\ held'[q] = held[q] /\ status'[q] = status[q] /\ phase' = phase
        /\ cursor'[q] = cursor[q] /\ window' = window
    BY DEF TypeOK, RequestStep, Schedule, AllocFails, LoadStep, Lookup, Inject, Refuse,
       Mismatch, SaveStep, SkipBlock, PutPayload, PutIndex, Finish, Preempt,
       schedulerVars, workerVars, storeVars
  <2>. QED
    BY <2>1, HandFrame DEF OnDisk
<1>2. CASE Schedule(r) \/ Finish(r) \/ Preempt(r)
  <2>1. ~Loading(r) /\ ~Saving(r) /\ held' = held
    BY <1>2 DEF Schedule, Finish, Preempt, Loading, Saving, Saves, InMeta, workerVars
  <2>2. held'[r] = Idle
    BY <2>1, NothingInHand DEF OnDisk
  <2>. QED
    BY <2>2, <1>1 DEF HeldIsOnDisk
<1>3. CASE AllocFails(r)
  <2>1. /\ held'[r] = held[r] /\ status' = status /\ phase' = phase
        /\ cursor' = cursor /\ window' = window
    BY <1>3 DEF AllocFails, workerVars
  <2>. QED
    BY <2>1, <1>1, HandFrame DEF OnDisk
<1>4. CASE Lookup(r)
  <2>1. Loading(r)'
    BY <1>4 DEF Lookup, Loading, InMeta, schedulerVars
  <2>. QED
    BY <2>1, <1>1 DEF HeldIsOnDisk
<1>5. CASE Inject(r) \/ Refuse(r) \/ Mismatch(r) \/ PutIndex(r)
  <2>1. held'[r] = Idle
    BY <1>5 DEF Inject, Refuse, Mismatch, PutIndex, TypeOK
  <2>. QED
    BY <2>1, <1>1 DEF HeldIsOnDisk
<1>6. CASE SkipBlock(r)
  <2>1. held'[r] = Idle
    BY <1>6 DEF SkipBlock
  <2>. QED
    BY <2>1, <1>1 DEF HeldIsOnDisk
<1>7. CASE PutPayload(r)
  <2>1. kvCache[r][cursor[r] + 1] \in Content
    BY <1>7, PayloadType
  <2>2. held'[r] = kvCache[r][cursor[r] + 1]
    BY <1>7 DEF PutPayload, TypeOK
  <2>3. objects'[held'[r]] # "absent"
    BY <1>7, <2>1, <2>2, StoredIsThere DEF PutPayload
  <2>4. Saving(r)'
    BY <1>7 DEF PutPayload, Saving, Saves, InMeta, schedulerVars, Blocks
  <2>. QED
    BY <2>1, <2>2, <2>3, <2>4, <1>1 DEF HeldIsOnDisk
<1>. QED
  BY <1>2, <1>3, <1>4, <1>5, <1>6, <1>7 DEF RequestStep, LoadStep, SaveStep

LEMMA HandsOfEngineSteps ==
    ASSUME TypeOK, OnDisk, [Next]_vars, "lose" \notin Faults,
           NEW e \in Engine, EngineStep(e) \/ Crash(e)
    PROVE  \A q \in Req : HeldIsOnDisk(q)'
<1> SUFFICES ASSUME NEW q \in Req PROVE HeldIsOnDisk(q)'
  OBVIOUS
<1>0. HeldIsOnDisk(q)
  BY DEF OnDisk
<1>1. CASE Home[q] # e
  <2>1. phase'[Home[q]] = phase[Home[q]]
    BY <1>1, PromptAssumption
       DEF TypeOK, EngineStep, BuildMeta, Forward, EndStep, Crash
  <2>2. /\ held'[q] = held[q] /\ status'[q] = status[q]
        /\ cursor'[q] = cursor[q] /\ window'[q] = window[q]
    BY <1>1 DEF TypeOK, EngineStep, BuildMeta, Forward, EndStep, Crash, Batch, schedulerVars
  <2>. QED
    BY <1>0, <2>1, <2>2, HandFrame
<1>2. CASE Home[q] = e /\ Crash(e)
  <2>1. CASE status[q] = "waiting"
    <3>1. held[q] = Idle
      BY <1>0, <2>1, NothingInHand DEF Loading, Saving, Saves, InMeta
    <3>. QED
      BY <1>2, <2>1, <3>1 DEF Crash, HeldIsOnDisk
  <2>2. CASE status[q] # "waiting"
    BY <1>2, <2>2 DEF Crash, HeldIsOnDisk
  <2>. QED
    BY <2>1, <2>2
<1>3. CASE Home[q] = e /\ EngineStep(e)
  <2>1. ~Loading(q) /\ ~Saving(q)
    <3>1. CASE phase[e] = "schedule"
      BY <1>3, <3>1 DEF Loading, Saving
    <3>2. CASE Forward(e)
      <4>1. ~(cursor[q] < window[q][2]) \/ ~InMeta(q)
        BY <1>3, <3>2 DEF Forward, Batch, TypeOK, Window, InMeta
      <4> QED BY <1>3, <3>2, <4>1 DEF Forward, Loading, Saving
    <3>3. CASE EndStep(e)
      <4>1. ~(cursor[q] < Blocks(q)) \/ ~Saves(q)
        BY <1>3, <3>3, BlocksType DEF EndStep, Batch, TypeOK, Saves, InMeta
      <4> QED BY <1>3, <3>3, <4>1 DEF EndStep, Loading, Saving
    <3> QED
      BY <1>3, <3>1, <3>2, <3>3 DEF EngineStep, BuildMeta
  <2>2. held' = held
    BY <1>3 DEF EngineStep, BuildMeta, Forward, EndStep
  <2>. QED
    BY <1>0, <2>1, <2>2, NothingInHand DEF HeldIsOnDisk
<1>. QED
  BY <1>1, <1>2, <1>3

LEMMA OnDiskStep ==
    ASSUME TypeOK, OnDisk, [Next]_vars, "lose" \notin Faults
    PROVE  OnDisk'
<1>1. IndexedIsOnDisk'
  <2> SUFFICES ASSUME NEW k \in Key, index'[k] # None
               PROVE  objects'[index'[k]] # "absent"
    BY DEF IndexedIsOnDisk
  <2>1. CASE index'[k] = index[k]
    <3>1. index[k] \in Content /\ objects[index[k]] # "absent"
      BY <2>1 DEF OnDisk, IndexedIsOnDisk, TypeOK
    <3>. QED
      BY <2>1, <3>1, FilesStay
  <2>2. CASE index'[k] # index[k]
    <3>1. PICK r \in Req : PutIndex(r) /\ index'[k] = held[r]
      BY <2>2, IndexSteps DEF Refuse, PutIndex, TypeOK
    <3>2. held[r] \in Content /\ objects[held[r]] # "absent"
      BY <3>1 DEF PutIndex, OnDisk, HeldIsOnDisk, Loading, Saving
    <3>. QED
      BY <3>1, <3>2, FilesStay
  <2>. QED
    BY <2>1, <2>2
<1>2. ASSUME NEW q \in Req PROVE HeldIsOnDisk(q)'
  <2>1. ASSUME NEW label \in Content, Corrupt(label) \/ Lose(label)
        PROVE  HeldIsOnDisk(q)'
    BY <2>1, HandFrame DEF Corrupt, Lose, schedulerVars, workerVars, OnDisk
  <2>2. CASE UNCHANGED vars
    BY <2>2, HandFrame DEF vars, schedulerVars, workerVars, OnDisk
  <2>. QED
    BY <2>1, <2>2, HandsOfRequestSteps, HandsOfEngineSteps DEF Next, Quiet
<1>. QED
  BY <1>1, <1>2 DEF OnDisk

\* As long as no payload is lost, a published mapping never dangles, through any
\* races, crashes, corruption, preemption and unusable layers: every payload is
\* put before its index entry, and a file once there stays (wait_for_save).
THEOREM NoMappingDangles ==
    ASSUME "lose" \notin Faults
    PROVE  Spec => []IndexedIsOnDisk
<1>1. Init => OnDisk
  BY DEF Init, OnDisk, IndexedIsOnDisk, HeldIsOnDisk
<1>2. TypeOK /\ OnDisk /\ [Next]_vars => OnDisk'
  BY OnDiskStep
<1>3. OnDisk => IndexedIsOnDisk
  BY DEF OnDisk
<1>. QED
  BY <1>1, <1>2, <1>3, TypeCorrect, PTL DEF Spec

-----------------------------------------------------------------------------
(* The blocks a step loads or reports are the ones it does not hold.        *)

LEMMA CredibleIsNotJunk ==
    ASSUME NEW r \in Req, NEW j \in 1 .. Blocks(r), NEW c, Credible(r, j, c)
    PROVE  c # Junk
BY CredibleIsReal, RealValues

\* A step that leaves r and the phase of its engine alone.
LEMMA ClaimFrame ==
    ASSUME NEW q \in Req, ClaimIsExact(q), Untouched(q)
    PROVE  ClaimIsExact(q)'
BY DEF ClaimIsExact, Untouched, Doubtful

\* A reported block is one of the claimed ones, and only while its step runs.
LEMMA NoErrorsBefore ==
    ASSUME Containment, NEW r \in Req,
           status[r] # "scheduled" \/ phase[Home[r]] = "schedule"
    PROVE  loadErrors[r] = {}
BY DEF Containment, RequestIsContained, ErrorsAreFailures

LEMMA ScheduleIsExact ==
    ASSUME TypeOK, Containment, NEW r \in Req, Schedule(r)
    PROVE  ClaimIsExact(r)'
<1>1. PICK n \in 0 .. Blocks(r), hit \in 0 .. Blocks(r), s \in Req :
          /\ LocalHit(r, n, s)
          /\ ContiguousHit(r, n, hit)
          /\ needLoad' = [needLoad EXCEPT ![r] = AfterAlloc(r, n, hit)]
          /\ computed' = [computed EXCEPT ![r] = hit]
          /\ kvCache' = [kvCache EXCEPT ![r] =
                [j \in 1 .. MaxBlocks |-> IF j <= n THEN kvCache[s][j] ELSE Junk]]
  BY DEF Schedule
<1>2. n \in Nat /\ hit \in Nat /\ n <= hit /\ hit <= Blocks(r) /\ Blocks(r) <= MaxBlocks
  BY <1>1, BlocksType DEF ContiguousHit
<1>3. computed'[r] = hit /\ needLoad'[r] = IF hit = n THEN <<0, 0>> ELSE <<n, hit>>
  BY <1>1, <1>2 DEF TypeOK, AfterAlloc, AfterMatch, NoWindow
<1>4. loadErrors'[r] = {} /\ phase'[Home[r]] = "schedule"
  BY NoErrorsBefore DEF Schedule
<1>5. \A j \in 1 .. hit : kvCache'[r][j] = IF j <= n THEN kvCache[s][j] ELSE Junk
  <2>1. kvCache'[r] = [j \in 1 .. MaxBlocks |-> IF j <= n THEN kvCache[s][j] ELSE Junk]
    BY <1>1 DEF TypeOK
  <2>2. 1 .. hit \subseteq 1 .. MaxBlocks
    <3>. Blocks(r) \in Nat /\ MaxBlocks \in Nat
      BY BlocksType, PromptAssumption
    <3>. QED
      BY <1>2
  <2>. QED
    BY <2>1, <2>2
<1>6. ASSUME NEW j \in 1 .. n PROVE kvCache[s][j] # Junk
  <2>1. Served(s) /\ j \in 1 .. Blocks(s)
    BY <1>1, <1>2, BlocksType DEF LocalHit, Served
  <2> QED
    BY <2>1, ServedIsCredible, CredibleIsNotJunk
<1>7. ASSUME NEW j \in 1 .. hit PROVE kvCache'[r][j] = Junk <=> n < j
  BY <1>2, <1>5, <1>6
<1>8. ASSUME NEW j \in 1 .. hit
      PROVE  n < j <=> needLoad'[r][1] < j /\ j <= needLoad'[r][2]
  BY <1>2, <1>3
<1>9. needLoad'[r][2] <= hit
  BY <1>2, <1>3
<1>. QED
  BY <1>3, <1>4, <1>7, <1>8, <1>9 DEF ClaimIsExact, Doubtful, Schedule

LEMMA BuildMetaIsExact ==
    ASSUME TypeOK, Containment, NEW e \in Engine, BuildMeta(e),
           NEW q \in Req, ClaimIsExact(q)
    PROVE  ClaimIsExact(q)'
<1>1. CASE Home[q] # e
  <2>1. Untouched(q)
    BY <1>1, PromptAssumption DEF BuildMeta, Batch, Untouched, TypeOK
  <2>. QED
    BY <2>1, ClaimFrame
<1>2. CASE Home[q] = e /\ status[q] = "scheduled"
  <2>1. /\ phase[e] = "schedule" /\ phase'[e] = "load" /\ loadErrors[q] = {}
        /\ window'[q] = needLoad[q] /\ cursor'[q] = needLoad[q][1]
        /\ UNCHANGED <<status, computed, kvCache, loadErrors>>
    BY <1>2, NoErrorsBefore DEF BuildMeta, Batch, InMeta, TypeOK
  <2>2. \A j : Doubtful(q, j)' <=> Doubtful(q, j)
    BY <1>2, <2>1 DEF Doubtful
  <2>. QED
    BY <1>2, <2>1, <2>2 DEF ClaimIsExact
<1>3. CASE status[q] # "scheduled"
  BY <1>3 DEF BuildMeta, ClaimIsExact
<1>. QED
  BY <1>1, <1>2, <1>3

\* Loading a block fills it; refusing it reports it.
LEMMA LoadIsExact ==
    ASSUME TypeOK, Containment, NEW r \in Req, ClaimIsExact(r), LoadStep(r)
    PROVE  ClaimIsExact(r)'
<1> DEFINE n == cursor[r] + 1
<1>1. /\ status[r] = "scheduled" /\ phase[Home[r]] = "load" /\ cursor[r] < window[r][2]
      /\ UNCHANGED <<status, computed, needLoad, phase, window>>
      /\ cursor[r] \in Nat /\ window[r][2] \in Nat /\ computed[r] \in Nat
  BY DEF LoadStep, Lookup, Inject, Refuse, Mismatch, Loading, InMeta, schedulerVars,
     TypeOK, Window
<1>2. /\ window[r][2] <= computed[r]
      /\ \A j \in 1 .. computed[r] : kvCache[r][j] = Junk <=> Doubtful(r, j)
      /\ \A j \in loadErrors[r] : j \in Nat /\ j <= cursor[r]
  BY <1>1, PromptAssumption DEF ClaimIsExact, TypeOK
<1>3. n \in 1 .. Blocks(r) /\ n \in 1 .. computed[r]
  BY <1>1, <1>2, LoadPosition DEF LoadStep, Lookup, Inject, Refuse, Mismatch
<1>4. CASE Lookup(r)
  BY <1>1, <1>2, <1>4 DEF Lookup, ClaimIsExact, Doubtful
<1>5. CASE Inject(r)
  <2>1. PICK payload \in Fetched(held[r]) \ {None} :
            kvCache' = [kvCache EXCEPT ![r][n] = payload]
    BY <1>5 DEF Inject
  <2>2. payload # Junk
    <3>1. held[r] # None /\ payload = held[r]
      BY <2>1 DEF Fetched
    <3>2. Credible(r, n, payload)
      BY <1>5, <3>1 DEF Inject, Containment, RequestIsContained, HeldIsCredible
    <3>. QED
      BY <1>3, <3>2, CredibleIsNotJunk
  <2>4. \A j \in 1 .. computed[r] :
           kvCache'[r][j] = IF j = n THEN payload ELSE kvCache[r][j]
    <3>1. kvCache[r] \in [1 .. MaxBlocks -> Content]
      BY DEF TypeOK
    <3>2. kvCache'[r] = [kvCache[r] EXCEPT ![n] = payload]
      BY <2>1 DEF TypeOK
    <3>3. \A j \in 1 .. computed[r] : j \in 1 .. MaxBlocks
      BY <1>1, PromptAssumption DEF TypeOK
    <3>. QED
      BY <3>1, <3>2, <3>3
  <2>5. cursor'[r] = n /\ loadErrors' = loadErrors
    BY <1>5 DEF Inject, TypeOK
  <2>6. ASSUME NEW j \in 1 .. computed[r]
        PROVE  Doubtful(r, j)' <=> Doubtful(r, j) /\ j # n
    BY <1>1, <1>2, <2>5 DEF Doubtful
  <2>7. \A j \in 1 .. computed[r] : kvCache'[r][j] = Junk <=> Doubtful(r, j)'
    BY <1>2, <2>2, <2>4, <2>6
  <2>8. \A j \in loadErrors'[r] : j <= cursor'[r]
    BY <1>1, <1>2, <2>5
  <2>. QED
    BY <1>1, <1>2, <2>7, <2>8 DEF ClaimIsExact
<1>6. CASE Refuse(r) \/ Mismatch(r)
  <2>1. /\ cursor'[r] = n /\ loadErrors'[r] = loadErrors[r] \cup {n}
        /\ kvCache' = kvCache
    BY <1>6 DEF Refuse, Mismatch, Reported, TypeOK
  <2>2. ASSUME NEW j \in 1 .. computed[r] PROVE Doubtful(r, j)' <=> Doubtful(r, j)
    BY <1>1, <2>1 DEF Doubtful
  <2>3. \A j \in 1 .. computed[r] : kvCache'[r][j] = Junk <=> Doubtful(r, j)'
    BY <1>2, <2>1, <2>2
  <2>4. \A j \in loadErrors'[r] : j <= cursor'[r]
    BY <1>1, <1>2, <2>1
  <2>. QED
    BY <1>1, <1>2, <2>3, <2>4 DEF ClaimIsExact
<1>. QED
  BY <1>4, <1>5, <1>6 DEF LoadStep

LEMMA RequestStepIsExact ==
    ASSUME TypeOK, Containment, NoPreemption, NEW r \in Req, RequestStep(r) \/ Preempt(r),
           \A q \in Req : ClaimIsExact(q)
    PROVE  \A q \in Req : ClaimIsExact(q)'
<1>0. ~Preempt(r)
  BY DEF NoPreemption, Preempt, Fault
<1>1. ASSUME NEW q \in Req \ {r} PROVE ClaimIsExact(q)'
  <2>1. Untouched(q)
    BY <1>0 DEF RequestStep, Schedule, AllocFails, LoadStep, Lookup, Inject, Refuse,
       Mismatch, SaveStep, SkipBlock, PutPayload, PutIndex, Finish,
       schedulerVars, workerVars, storeVars, Untouched, TypeOK
  <2>. QED
    BY <2>1, ClaimFrame
<1>2. CASE AllocFails(r) \/ Finish(r)
  <2>1. status'[r] # "scheduled"
    BY <1>2 DEF AllocFails, Finish, TypeOK
  <2>. QED
    BY <2>1, <1>1 DEF ClaimIsExact
<1>3. CASE SaveStep(r)
  <2>1. phase'[Home[r]] = "save"
    BY <1>3 DEF SaveStep, SkipBlock, PutPayload, PutIndex, Saving
  <2>. QED
    BY <2>1, <1>1 DEF ClaimIsExact
<1>. QED
  BY <1>0, <1>1, <1>2, <1>3, ScheduleIsExact, LoadIsExact DEF RequestStep

LEMMA EngineStepIsExact ==
    ASSUME TypeOK, Containment, NEW e \in Engine, EngineStep(e) \/ Crash(e),
           \A q \in Req : ClaimIsExact(q)
    PROVE  \A q \in Req : ClaimIsExact(q)'
<1> SUFFICES ASSUME NEW q \in Req PROVE ClaimIsExact(q)'
  OBVIOUS
<1>1. CASE BuildMeta(e)
  BY <1>1, BuildMetaIsExact
<1>2. CASE Home[q] # e /\ ~BuildMeta(e)
  <2>1. Untouched(q)
    BY <1>2, PromptAssumption
       DEF EngineStep, Forward, EndStep, Crash, Batch, schedulerVars, Untouched, TypeOK
  <2>. QED
    BY <2>1, ClaimFrame
<1>3. CASE Home[q] = e /\ Forward(e)
  BY <1>3 DEF Forward, ClaimIsExact, TypeOK
<1>4. CASE Home[q] = e /\ (EndStep(e) \/ Crash(e))
  <2>1. status'[q] # "scheduled"
    BY <1>4 DEF EndStep, Crash, Batch
  <2>. QED
    BY <2>1 DEF ClaimIsExact
<1>. QED
  BY <1>1, <1>2, <1>3, <1>4 DEF EngineStep

\* A claim left over from an admission that failed neither hides a block nor
\* overwrites one the host already has (update_state_after_alloc), for every
\* instance without preemption and with one adapter.
THEOREM ClaimsStayExact ==
    ASSUME OneContext, NoPreemption
    PROVE  Spec => []ClaimsAreExact
<1> DEFINE Exact == \A q \in Req : ClaimIsExact(q)
<1>1. Init => Exact
  BY DEF Init, ClaimIsExact
<1>2. TypeOK /\ Containment /\ Exact /\ [Next]_vars => Exact'
  <2> SUFFICES ASSUME TypeOK, Containment, Exact, [Next]_vars PROVE Exact'
    OBVIOUS
  <2>1. ASSUME NEW label \in Content, Corrupt(label) \/ Lose(label), NEW q \in Req
        PROVE  ClaimIsExact(q)'
    BY <2>1, ClaimFrame DEF Corrupt, Lose, schedulerVars, workerVars, Untouched
  <2>2. ASSUME UNCHANGED vars, NEW q \in Req PROVE ClaimIsExact(q)'
    BY <2>2, ClaimFrame DEF vars, schedulerVars, workerVars, Untouched
  <2>. QED
    BY <2>1, <2>2, RequestStepIsExact, EngineStepIsExact DEF Next, Quiet
<1>3. TypeOK /\ Exact => ClaimsAreExact
  BY DEF ClaimsAreExact, ClaimIsExact, Doubtful, InMeta
<1>. QED
  BY <1>1, <1>2, <1>3, TypeCorrect, ContainmentInvariant, PTL DEF Spec

-----------------------------------------------------------------------------
(* While files stay whole, nothing that is claimed is refused.              *)

LEMMA OnlyCrashes ==
    ASSUME FilesStayWhole, NEW kind, Fault(kind)
    PROVE  kind = "crash"
BY DEF FilesStayWhole, Fault

\* Files that are good stay good.
LEMMA FilesStayGood ==
    ASSUME TypeOK, [Next]_vars, FilesStayWhole, \A c \in Content : objects[c] # "bad"
    PROVE  \A c \in Content : /\ objects'[c] # "bad"
                              /\ objects[c] = "good" => objects'[c] = "good"
<1> USE DEF TypeOK
<1>1. ASSUME NEW c \in Content, objects' = Stored(c)
      PROVE  \A d \in Content : /\ objects'[d] # "bad"
                                /\ objects[d] = "good" => objects'[d] = "good"
  BY <1>1, StoredIsThere
<1>2. ASSUME NEW r \in Req, Inject(r) \/ Mismatch(r)
      PROVE  held[r] \in Content /\ objects' = Stored(held[r])
  BY <1>2 DEF Inject, Mismatch, Fetched
<1>3. ASSUME NEW r \in Req, PutPayload(r)
      PROVE  \E c \in Content : objects' = Stored(c)
  BY <1>3, PayloadType DEF PutPayload
<1>4. ~\E label \in Content : Corrupt(label) \/ Lose(label)
  BY OnlyCrashes DEF Corrupt, Lose
<1>. QED
  BY <1>1, <1>2, <1>3, <1>4, ObjectsFrame

\* A label in hand can be read, so no block is refused.
LEMMA NoneIsRefused ==
    ASSUME TypeOK, NothingFails, FilesStayWhole, NEW r \in Req
    PROVE  ~Refuse(r) /\ ~Mismatch(r)
<1>1. ASSUME Refuse(r) PROVE FALSE
  <2>1. held[r] \in Content /\ objects[held[r]] = "good"
    BY <1>1 DEF Refuse, NothingFails, ClaimsAreMet
  <2>. QED
    BY <1>1, <2>1, ValueAssumption DEF Refuse, Fetched
<1>2. ~Mismatch(r)
  BY DEF Mismatch, FilesStayWhole
<1>. QED
  BY <1>1, <1>2

\* What is indexed stays indexed.
LEMMA MappingsStay ==
    ASSUME TypeOK, NothingFails, FilesStayWhole, [Next]_vars
    PROVE  \A k \in Key : index[k] # None => index'[k] # None
<1>1. ASSUME NEW r \in Req, PutIndex(r), NEW k \in Key, index[k] # None
      PROVE  index'[k] # None
  <2>1. held[r] \in Content
    BY <1>1 DEF PutIndex, NothingFails, ClaimsAreMet
  <2>. QED
    BY <1>1, <2>1, ValueAssumption DEF PutIndex, TypeOK
<1>. QED
  BY <1>1, IndexSteps, NoneIsRefused

\* A step that adds nothing to what q waits for or has in hand.
LEMMA ClaimsFrame ==
    ASSUME TypeOK, NothingFails, FilesStayWhole, [Next]_vars, NEW q \in Req,
           loadErrors'[q] \in {loadErrors[q], {}},
           \A j \in 1 .. Blocks(q) : Doubtful(q, j)' => Doubtful(q, j),
           held'[q] \in {held[q], Idle}
    PROVE  ClaimsAreMet(q)'
<1>1. ClaimsAreMet(q)
  BY DEF NothingFails
<1>2. loadErrors'[q] = {}
  BY <1>1 DEF ClaimsAreMet
<1>3. \A j \in 1 .. Blocks(q) : Doubtful(q, j)' => index'[Prompt[q][j]] # None
  BY <1>1, MappingsStay, PromptType DEF ClaimsAreMet
<1>4. held'[q] # Idle => held'[q] \in Content /\ objects'[held'[q]] = "good"
  BY <1>1, FilesStayGood DEF ClaimsAreMet, NothingFails
<1>. QED
  BY <1>2, <1>3, <1>4 DEF ClaimsAreMet, Blocks

\* Only a block of a new request can be waited for.
LEMMA OnlyNewWait ==
    ASSUME NothingFails, NEW q \in Req, NEW j, Doubtful(q, j)
    PROVE  /\ status[q] = "scheduled"
           /\ \/ /\ phase[Home[q]] = "schedule"
                 /\ needLoad[q][1] < j /\ j <= needLoad[q][2]
              \/ /\ phase[Home[q]] = "load"
                 /\ cursor[q] < j /\ j <= window[q][2]
BY DEF Doubtful, NothingFails, ClaimsAreMet

LEMMA ScheduleMeetsClaims ==
    ASSUME TypeOK, NothingFails, FilesStayWhole, [Next]_vars, NEW r \in Req, Schedule(r)
    PROVE  ClaimsAreMet(r)'
<1>1. PICK n \in 0 .. Blocks(r), hit \in 0 .. Blocks(r), s \in Req :
          /\ ContiguousHit(r, n, hit)
          /\ needLoad' = [needLoad EXCEPT ![r] = AfterAlloc(r, n, hit)]
  BY DEF Schedule
<1>2. ClaimsAreMet(r)
  BY DEF NothingFails
<1>3. n \in Nat /\ hit \in Nat /\ n <= hit
  BY <1>1, BlocksType DEF ContiguousHit
<1>4. ASSUME NEW j \in 1 .. Blocks(r), Doubtful(r, j)'
      PROVE  index'[Prompt[r][j]] # None
  <2>1. needLoad'[r] = IF hit = n THEN <<0, 0>> ELSE <<n, hit>>
    BY <1>1, <1>3 DEF TypeOK, AfterAlloc, AfterMatch, NoWindow
  <2>2. needLoad'[r][1] < j /\ j <= needLoad'[r][2]
    BY <1>2, <1>4 DEF Doubtful, Schedule, ClaimsAreMet
  <2>3. j \in n + 1 .. hit
    BY <1>3, <2>1, <2>2
  <2>. QED
    BY <1>1, <2>3 DEF ContiguousHit, Schedule, storeVars
<1>. QED
  BY <1>2, <1>4 DEF Schedule, ClaimsAreMet, storeVars, Blocks

LEMMA LookupMeetsClaims ==
    ASSUME TypeOK, NothingFails, FilesStayWhole, [Next]_vars, NEW r \in Req, Lookup(r)
    PROVE  ClaimsAreMet(r)'
<1> DEFINE n == cursor[r] + 1
<1>1. ClaimsAreMet(r)
  BY DEF NothingFails
<1>2. n \in 1 .. Blocks(r) /\ Prompt[r][n] \in Key
  BY LoadPosition DEF Lookup
<1>3. Doubtful(r, n)
  BY <1>2 DEF Doubtful, Lookup, Loading, InMeta, TypeOK, Window
<1>4. held'[r] = index[Prompt[r][n]] /\ index[Prompt[r][n]] # None
  BY <1>1, <1>2, <1>3 DEF Lookup, TypeOK, ClaimsAreMet
<1>5. held'[r] \in Content /\ objects[held'[r]] = "good"
  BY <1>2, <1>4 DEF TypeOK, NothingFails
<1>. QED
  BY <1>1, <1>5 DEF ClaimsAreMet, Lookup, storeVars, schedulerVars, Doubtful, Blocks

LEMMA RequestStepsMeetClaims ==
    ASSUME TypeOK, NothingFails, FilesStayWhole, [Next]_vars,
           NEW r \in Req, RequestStep(r) \/ Preempt(r)
    PROVE  \A q \in Req : ClaimsAreMet(q)'
<1>0. ~Refuse(r) /\ ~Mismatch(r) /\ ~Preempt(r)
  BY NoneIsRefused, OnlyCrashes DEF Preempt
<1>1. ASSUME NEW q \in Req \ {r} PROVE ClaimsAreMet(q)'
  <2>1. /\ held'[q] = held[q] /\ status'[q] = status[q] /\ phase' = phase
        /\ cursor'[q] = cursor[q] /\ window' = window /\ needLoad'[q] = needLoad[q]
        /\ loadErrors'[q] = loadErrors[q]
    BY <1>0 DEF TypeOK, RequestStep, Schedule, AllocFails, LoadStep, Lookup, Inject,
       SaveStep, SkipBlock, PutPayload, PutIndex, Finish,
       schedulerVars, workerVars, storeVars
  <2>. QED
    BY <2>1, ClaimsFrame DEF Doubtful
<1>2. CASE AllocFails(r) \/ Finish(r)
  <2>1. /\ held' = held /\ loadErrors' = loadErrors /\ phase' = phase
        /\ status'[r] # "scheduled"
    BY <1>2 DEF AllocFails, Finish, TypeOK, workerVars
  <2>. QED
    BY <2>1, <1>1, ClaimsFrame DEF Doubtful
<1>3. CASE Inject(r)
  <2>1. /\ held'[r] = Idle /\ cursor'[r] = cursor[r] + 1 /\ cursor[r] \in Nat
        /\ loadErrors' = loadErrors /\ phase' = phase /\ window' = window
        /\ status' = status /\ needLoad' = needLoad
    BY <1>3 DEF Inject, TypeOK, schedulerVars
  <2>2. \A j \in 1 .. Blocks(r) : Doubtful(r, j)' => Doubtful(r, j)
    BY <2>1, BlocksType DEF Doubtful
  <2>. QED
    BY <2>1, <2>2, <1>1, ClaimsFrame
<1>4. CASE SkipBlock(r) \/ PutIndex(r)
  <2>1. /\ held'[r] = Idle /\ loadErrors' = loadErrors /\ phase' = phase
        /\ status' = status /\ phase[Home[r]] = "save"
    BY <1>4 DEF SkipBlock, PutIndex, Saving, TypeOK, schedulerVars
  <2>. QED
    BY <2>1, <1>1, ClaimsFrame DEF Doubtful
<1>5. CASE PutPayload(r)
  <2>1. kvCache[r][cursor[r] + 1] \in Content
    BY <1>5, PayloadType
  <2>2. held'[r] = kvCache[r][cursor[r] + 1]
    BY <1>5 DEF PutPayload, TypeOK
  <2>3. objects'[held'[r]] = "good"
    BY <1>5, <2>1, <2>2 DEF PutPayload, Stored, TypeOK, NothingFails
  <2>4. ClaimsAreMet(r)'
    BY <2>1, <2>2, <2>3, <1>5
       DEF PutPayload, NothingFails, ClaimsAreMet, Doubtful, schedulerVars, Blocks
  <2>. QED
    BY <2>4, <1>1
<1>. QED
  BY <1>0, <1>1, <1>2, <1>3, <1>4, <1>5, ScheduleMeetsClaims, LookupMeetsClaims
     DEF RequestStep, LoadStep, SaveStep

LEMMA EngineStepsMeetClaims ==
    ASSUME TypeOK, NothingFails, FilesStayWhole, [Next]_vars,
           NEW e \in Engine, EngineStep(e) \/ Crash(e)
    PROVE  \A q \in Req : ClaimsAreMet(q)'
<1> SUFFICES ASSUME NEW q \in Req PROVE ClaimsAreMet(q)'
  OBVIOUS
<1>1. CASE Home[q] # e
  <2>1. phase'[Home[q]] = phase[Home[q]]
    BY <1>1, PromptAssumption
       DEF TypeOK, EngineStep, BuildMeta, Forward, EndStep, Crash
  <2>2. /\ held'[q] = held[q] /\ status'[q] = status[q]
        /\ cursor'[q] = cursor[q] /\ window'[q] = window[q]
        /\ needLoad'[q] = needLoad[q] /\ loadErrors'[q] = loadErrors[q]
    BY <1>1 DEF TypeOK, EngineStep, BuildMeta, Forward, EndStep, Crash, Batch, schedulerVars
  <2>. QED
    BY <2>1, <2>2, ClaimsFrame DEF Doubtful
<1>2. CASE Home[q] = e /\ BuildMeta(e)
  <2>1. /\ held' = held /\ loadErrors' = loadErrors /\ status' = status
        /\ phase[e] = "schedule" /\ phase'[e] = "load"
    BY <1>2 DEF BuildMeta, TypeOK
  <2>2. status[q] = "scheduled" =>
           window'[q] = needLoad[q] /\ cursor'[q] = needLoad[q][1]
    BY <1>2 DEF BuildMeta, Batch, InMeta
  <2>3. \A j \in 1 .. Blocks(q) : Doubtful(q, j)' => Doubtful(q, j)
    BY <1>2, <2>1, <2>2 DEF Doubtful
  <2>. QED
    BY <2>1, <2>3, ClaimsFrame
<1>3. CASE Home[q] = e /\ Forward(e)
  <2>1. held' = held /\ loadErrors' = loadErrors /\ phase'[e] = "save"
    BY <1>3 DEF Forward, TypeOK
  <2>. QED
    BY <1>3, <2>1, ClaimsFrame DEF Doubtful
<1>4. CASE Home[q] = e /\ EndStep(e)
  <2>1. held' = held /\ loadErrors'[q] \in {loadErrors[q], {}} /\ status'[q] # "scheduled"
    BY <1>4 DEF EndStep, Batch
  <2>2. loadErrors'[q] = {}
    BY <2>1 DEF NothingFails, ClaimsAreMet
  <2>. QED
    BY <2>1, <2>2, ClaimsFrame DEF Doubtful
<1>5. CASE Home[q] = e /\ Crash(e)
  <2>1. /\ held'[q] \in {held[q], Idle} /\ loadErrors'[q] \in {loadErrors[q], {}}
        /\ status'[q] # "scheduled"
    BY <1>5 DEF Crash
  <2>2. loadErrors'[q] = {}
    BY <2>1 DEF NothingFails, ClaimsAreMet
  <2>. QED
    BY <2>1, <2>2, ClaimsFrame DEF Doubtful
<1>. QED
  BY <1>1, <1>2, <1>3, <1>4, <1>5 DEF EngineStep

LEMMA NothingFailsStep ==
    ASSUME TypeOK, NothingFails, FilesStayWhole, [Next]_vars
    PROVE  NothingFails'
<1>1. refused' = {}
  BY NoneIsRefused
     DEF NothingFails, Next, vars, storeVars, workerVars, EngineStep, BuildMeta, Forward,
         EndStep, Crash, RequestStep, Schedule, AllocFails, LoadStep, Lookup, Inject,
         SaveStep, SkipBlock, PutPayload, PutIndex, Finish, Preempt, Corrupt, Lose, Quiet
<1>2. ASSUME NEW k \in Key, index'[k] # None PROVE objects'[index'[k]] = "good"
  <2>1. CASE index'[k] = index[k]
    <3>1. index[k] \in Content /\ objects[index[k]] = "good"
      BY <1>2, <2>1 DEF NothingFails, TypeOK
    <3>. QED
      BY <2>1, <3>1, FilesStayGood DEF NothingFails
  <2>2. CASE index'[k] # index[k]
    <3>1. PICK r \in Req : PutIndex(r) /\ index'[k] = held[r]
      BY <1>2, <2>2, IndexSteps DEF Refuse, PutIndex, TypeOK
    <3>2. held[r] \in Content /\ objects[held[r]] = "good"
      BY <3>1 DEF PutIndex, NothingFails, ClaimsAreMet
    <3>. QED
      BY <3>1, <3>2, FilesStayGood DEF NothingFails
  <2>. QED
    BY <2>1, <2>2
<1>3. \A c \in Content : objects'[c] # "bad"
  BY FilesStayGood DEF NothingFails
<1>4. ASSUME NEW q \in Req PROVE ClaimsAreMet(q)'
  <2>1. ~\E label \in Content : Corrupt(label) \/ Lose(label)
    BY OnlyCrashes DEF Corrupt, Lose
  <2>2. CASE UNCHANGED vars
    BY <2>2, ClaimsFrame DEF vars, schedulerVars, workerVars, Doubtful
  <2>. QED
    BY <2>1, <2>2, RequestStepsMeetClaims, EngineStepsMeetClaims DEF Next, Quiet
<1>. QED
  BY <1>1, <1>2, <1>3, <1>4 DEF NothingFails

LEMMA NothingFailsInvariant ==
    ASSUME FilesStayWhole
    PROVE  Spec => []NothingFails
<1>1. Init => NothingFails
  BY DEF Init, NothingFails, ClaimsAreMet, Doubtful, NoWindow
<1>2. TypeOK /\ NothingFails /\ [Next]_vars => NothingFails'
  BY NothingFailsStep
<1>. QED
  BY <1>1, <1>2, TypeCorrect, PTL DEF Spec

-----------------------------------------------------------------------------
(* Without a refusal, credible content is right: the cache is transparent.  *)

LEMMA CredibleIsRight ==
    ASSUME refused = {}, NEW r, NEW j, NEW c, Credible(r, j, c)
    PROVE  c = Right(r, j)
BY DEF Credible, Downstream, Failed

LEMMA WholeFilesKeepHits ==
    ASSUME Containment, NothingFails
    PROVE  ServedIsCold /\ IndexIsSound
<1>1. ServedIsCold
  BY ServedIsCredible, CredibleIsRight DEF ServedIsCold, NothingFails
<1>2. IndexIsSound
  BY CredibleIsRight DEF IndexIsSound, Containment, IndexIsCredible, NothingFails
<1>. QED
  BY <1>1, <1>2

LEMMA WholeInvariant ==
    ASSUME OneContext, FilesStayWhole
    PROVE  Spec => [](TypeOK /\ Containment /\ NothingFails)
<1>1. NoPreemption
  BY DEF NoPreemption, FilesStayWhole
<1>. QED
  BY <1>1, TypeCorrect, ContainmentInvariant, NothingFailsInvariant, PTL

\* Gate G3c for every instance: over files that stay whole, a request decodes
\* over exactly the KV a cold prefill computes, whatever crashes and races.
THEOREM HitsAreColdPrefills ==
    ASSUME OneContext, FilesStayWhole
    PROVE  Spec => []ServedIsCold
<1>1. Containment /\ NothingFails => ServedIsCold
  BY WholeFilesKeepHits
<1>. QED
  BY <1>1, WholeInvariant, PTL

\* ... and what is indexed under a key is the block its tokens produce.
THEOREM IndexStaysSound ==
    ASSUME OneContext, FilesStayWhole
    PROVE  Spec => []IndexIsSound
<1>1. Containment /\ NothingFails => IndexIsSound
  BY WholeFilesKeepHits
<1>. QED
  BY <1>1, WholeInvariant, PTL

-----------------------------------------------------------------------------
(* The connector implements PrefixCache.                                    *)

\* The blocks each request decodes over, and what a prefill would give it.
Answers ==
    [r \in Req |-> IF Served(r) THEN [j \in 1 .. Blocks(r) |-> kvCache[r][j]] ELSE None]
Prefills == [r \in Req |-> [j \in 1 .. Blocks(r) |-> Right(r, j)]]

\* Before the end of a step, and without a crash, no answer comes or goes.
LEMMA AnswersStay ==
    ASSUME TypeOK, [Next]_vars, FilesStayWhole,
           ~\E e \in Engine : EndStep(e) \/ Crash(e)
    PROVE  Answers' = Answers
<1>1. ~\E r \in Req : Preempt(r)
  BY OnlyCrashes DEF Preempt
<1>2. ~\E label \in Content : Corrupt(label) \/ Lose(label)
  BY OnlyCrashes DEF Corrupt, Lose
<1>3. ASSUME NEW q \in Req
      PROVE  /\ Served(q)' <=> Served(q)
             /\ Served(q) => kvCache'[q] = kvCache[q]
  <2>1. ASSUME NEW r \in Req, Schedule(r)
        PROVE  /\ Served(q)' <=> Served(q)
               /\ Served(q) => kvCache'[q] = kvCache[q]
    <3>1. CASE q = r
      BY <2>1, <3>1 DEF Schedule, Served, TypeOK
    <3>2. CASE q # r
      BY <2>1, <3>2 DEF Schedule, Served, TypeOK
    <3>. QED
      BY <3>1, <3>2
  <2>2. ASSUME NEW r \in Req, Inject(r)
        PROVE  /\ Served(q)' <=> Served(q)
               /\ Served(q) => kvCache'[q] = kvCache[q]
    BY <2>2 DEF Inject, Served, TypeOK, schedulerVars, Loading, InMeta
  <2>3. ASSUME NEW r \in Req, Finish(r)
        PROVE  /\ Served(q)' <=> Served(q)
               /\ Served(q) => kvCache'[q] = kvCache[q]
    BY <2>3 DEF Finish, Served, TypeOK, workerVars
  <2>4. ASSUME NEW e \in Engine, Forward(e)
        PROVE  /\ Served(q)' <=> Served(q)
               /\ Served(q) => kvCache'[q] = kvCache[q]
    BY <2>4 DEF Forward, Served, schedulerVars, Batch
  <2>5. ASSUME NEW r \in Req,
               AllocFails(r) \/ Lookup(r) \/ Refuse(r) \/ Mismatch(r) \/ SaveStep(r)
        PROVE  status' = status /\ kvCache' = kvCache
    BY <2>5 DEF AllocFails, Lookup, Refuse, Mismatch, SaveStep, SkipBlock, PutPayload,
       PutIndex, schedulerVars, workerVars
  <2>6. ASSUME NEW e \in Engine, BuildMeta(e)
        PROVE  status' = status /\ kvCache' = kvCache
    BY <2>6 DEF BuildMeta
  <2>7. CASE UNCHANGED vars
    BY <2>7 DEF vars, schedulerVars, workerVars, Served
  <2>. QED
    BY <1>1, <1>2, <2>1, <2>2, <2>3, <2>4, <2>5, <2>6, <2>7
       DEF Next, EngineStep, RequestStep, LoadStep, Quiet, Served
<1>. QED
  BY <1>3 DEF Answers, Blocks

\* The end of a step answers its whole batch, with the blocks of a prefill.
LEMMA EndStepAnswers ==
    ASSUME TypeOK, NothingFails, ServedIsCold', NEW e \in Engine, EndStep(e)
    PROVE  Cache!Answer(Batch(e))
<1>1. Batch(e) \subseteq Req
  BY DEF Batch
<1>2. ASSUME NEW r \in Batch(e) PROVE Answers[r] = None
  BY <1>1, <1>2 DEF Answers, Batch, Served
<1>3. ASSUME NEW r \in Batch(e) PROVE Served(r)'
  BY <1>1, <1>3 DEF EndStep, Served, NothingFails, ClaimsAreMet
<1>4. ASSUME NEW r \in Req \ Batch(e) PROVE Served(r)' <=> Served(r)
  BY <1>4 DEF EndStep, Served
<1>5. index' = index /\ kvCache' = kvCache
  BY DEF EndStep, storeVars
<1>6. ASSUME NEW r \in Req
      PROVE  Answers'[r] = IF r \in Batch(e) THEN Prefills[r] ELSE Answers[r]
  <2>1. CASE r \in Batch(e)
    <3>1. \A j \in 1 .. Blocks(r) : kvCache'[r][j] = Right(r, j)
      BY <1>3, <2>1 DEF ServedIsCold, Blocks, Right
    <3>2. Answers'[r] = [j \in 1 .. Blocks(r) |-> kvCache'[r][j]]
      BY <1>3, <2>1 DEF Answers, Blocks
    <3>. QED
      BY <2>1, <3>1, <3>2 DEF Prefills
  <2>2. CASE r \notin Batch(e)
    BY <1>4, <1>5, <2>2 DEF Answers, Blocks
  <2>. QED
    BY <2>1, <2>2
<1>7. Answers' = [r \in Req |-> IF r \in Batch(e) THEN Prefills[r] ELSE Answers[r]]
  BY <1>6 DEF Answers
<1>. QED
  BY <1>2, <1>5, <1>7 DEF Cache!Answer, Answers, Prefills

\* A crash withdraws the answers of the requests it loses.
LEMMA CrashWithdraws ==
    ASSUME TypeOK, NEW e \in Engine, Crash(e)
    PROVE  \E R \in SUBSET Req : Cache!Withdraw(R)
<1> DEFINE Lost == {r \in Req : Home[r] = e /\ status[r] # "waiting"}
<1>1. index' = index
  BY DEF Crash, storeVars
<1>2. ASSUME NEW r \in Req
      PROVE  Answers'[r] = IF r \in Lost THEN None ELSE Answers[r]
  <2>1. CASE r \in Lost
    BY <2>1 DEF Crash, Answers, Served
  <2>2. CASE r \notin Lost
    <3>1. status'[r] = status[r] /\ kvCache'[r] = kvCache[r]
      BY <2>2 DEF Crash
    <3>. QED
      BY <2>2, <3>1 DEF Answers, Served, Blocks
  <2>. QED
    BY <2>1, <2>2
<1>3. Answers' = [r \in Req |-> IF r \in Lost THEN None ELSE Answers[r]]
  BY <1>2 DEF Answers
<1>4. Cache!Withdraw(Lost)
  BY <1>1, <1>3 DEF Cache!Withdraw, Answers
<1>5. Lost \in SUBSET Req
  OBVIOUS
<1> HIDE DEF Lost
<1>. QED
  BY <1>4, <1>5 DEF Cache!Withdraw

\* The index entry a save writes is a publication, or was there already.
LEMMA PutIndexPublishes ==
    ASSUME TypeOK, Containment, NothingFails, IndexIsSound, NEW r \in Req, PutIndex(r),
           Answers' = Answers
    PROVE  Cache!Next \/ UNCHANGED Cache!vars
<1> DEFINE n == cursor[r] + 1
<1>1. n \in 1 .. Blocks(r) /\ Prompt[r][n] \in Key
  BY SavePosition DEF PutIndex
<1>2. held[r] # None /\ Credible(r, n, held[r])
  BY DEF PutIndex, Containment, RequestIsContained, HeldIsCredible, Loading, Saving
<1>3. held[r] = Right(r, n)
  BY <1>2, CredibleIsRight DEF NothingFails
<1>4. index' = [index EXCEPT ![Prompt[r][n]] = Right(r, n)]
  BY <1>3 DEF PutIndex
<1>5. CASE index[Prompt[r][n]] = None
  <2>1. n \in DOMAIN Prompt[r]
    BY <1>1, PromptAssumption DEF Blocks
  <2>2. Right(r, n) = Prefills[r][n]
    BY <1>1 DEF Prefills
  <2>3. Cache!Publish(Prompt[r][n])
    BY <1>4, <1>5, <2>1, <2>2 DEF Cache!Publish, Answers, Prefills
  <2>. QED
    BY <1>1, <2>3 DEF Cache!Next
<1>6. CASE index[Prompt[r][n]] # None
  <2>1. index[Prompt[r][n]] = Right(r, n)
    BY <1>1, <1>6 DEF IndexIsSound
  <2>2. index' = index
    BY <1>1, <1>4, <2>1 DEF TypeOK
  <2>. QED
    BY <2>2 DEF Cache!vars, Answers
<1>. QED
  BY <1>5, <1>6

\* Over files that stay whole the connector implements the abstract cache:
\* requests cannot tell the blocks they pulled from those of a prefill.
THEOREM ConnectorIsTransparent ==
    ASSUME OneContext, FilesStayWhole
    PROVE  Spec => ImplementsPrefixCache
<1>1. Init => Cache!Init
  BY DEF Init, Cache!Init, Served
<1>2. ASSUME TypeOK, Containment, NothingFails, (Containment /\ NothingFails)', [Next]_vars
      PROVE  [Cache!Next]_(Cache!vars)
  <2>1. IndexIsSound /\ ServedIsCold'
    BY <1>2, WholeFilesKeepHits, PTL
  <2>2. ASSUME NEW e \in Engine, EndStep(e) PROVE Cache!Next
    <3>1. Cache!Answer(Batch(e))
      BY <1>2, <2>1, <2>2, EndStepAnswers
    <3>2. Batch(e) \in SUBSET Req
      BY DEF Batch
    <3>. QED
      BY <3>1, <3>2 DEF Cache!Next, Cache!Answer
  <2>3. ASSUME NEW e \in Engine, Crash(e) PROVE Cache!Next
    BY <1>2, <2>3, CrashWithdraws DEF Cache!Next
  <2>4. CASE ~\E e \in Engine : EndStep(e) \/ Crash(e)
    <3>1. Answers' = Answers
      BY <1>2, <2>4, AnswersStay
    <3>2. CASE index' = index
      BY <3>1, <3>2 DEF Cache!vars, Answers
    <3>3. CASE index' # index
      <4>1. PICK r \in Req : PutIndex(r)
        BY <1>2, <3>3, IndexSteps, NoneIsRefused
      <4>. QED
        BY <1>2, <2>1, <3>1, <4>1, PutIndexPublishes
    <3>. QED
      BY <3>2, <3>3
  <2>. QED
    BY <2>2, <2>3, <2>4
<1>. QED
  BY <1>1, <1>2, WholeInvariant, PTL DEF Spec, ImplementsPrefixCache, Cache!Spec
=============================================================================
