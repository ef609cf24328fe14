--------------------------- MODULE WitnessProofs ---------------------------
(***************************************************************************)
(* Theorems about WitnessWriter, for any jobs, chains and queue bounds and *)
(* any number of crashes.                                                  *)
(***************************************************************************)
EXTENDS WitnessCorrectness, FiniteSetTheorems, SequenceTheorems, TLAPS

\* What the store owes is a number.
LEMMA OwedType ==
  ASSUME StoreTypeOK, WriterTypeOK
  PROVE  Owed \in Nat
<1> DEFINE Positions == {i \in 1 .. Len(syncQ) : syncQ[i] # None}
<1>1. Len(syncQ) \in Nat
  BY DEF StoreTypeOK
<1>2. IsFiniteSet(1 .. Len(syncQ))
  BY <1>1, FS_Interval
<1>3. IsFiniteSet(Positions)
  <2>1. Positions \subseteq 1 .. Len(syncQ)
    OBVIOUS
  <2> QED
    BY <1>2, <2>1, FS_Subset
<1>4. Cardinality(Positions) \in Nat
  BY <1>3, FS_CardinalityType
<1> QED
  BY <1>4, StoreAssumption DEF Owed, StoreTypeOK, WriterTypeOK

\* The store's part of a step, by the operation of KappaStore it performs.
LEMMA StoreStepType ==
  ASSUME StoreTypeOK,
         \/ \E o \in Object : WriteLocal(o) \/ Enqueue(o)
         \/ WriteFails \/ SyncStep \/ CloseStore \/ StoreDies \/ UNCHANGED storeVars
  PROVE  StoreTypeOK'
<1> USE StoreAssumption DEF StoreTypeOK
<1>1. ASSUME NEW o \in Object, WriteLocal(o) PROVE StoreTypeOK'
  BY <1>1 DEF WriteLocal
<1>2. ASSUME NEW o \in Object, Enqueue(o) PROVE StoreTypeOK'
  BY <1>2 DEF Enqueue
<1>3. CASE WriteFails
  BY <1>3 DEF WriteFails
<1>4. CASE TakeObject \/ SyncStops
  <2>1. syncQ # <<>> /\ syncQ' = Tail(syncQ)
    BY <1>4 DEF TakeObject, SyncStops
  <2>2. syncQ' \in Seq(Object \cup {None}) /\ Len(syncQ') <= SyncBound
    BY <2>1
  <2>3. Head(syncQ) \in Object \cup {None}
    BY <2>1
  <2> QED
    BY <1>4, <2>2, <2>3 DEF TakeObject, SyncStops
<1>5. CASE UploadOk
  BY <1>5 DEF UploadOk
<1>6. CASE UploadFails
  BY <1>6 DEF UploadFails
<1>7. CASE CloseStore
  BY <1>7 DEF CloseStore
<1>8. CASE StoreDies
  BY <1>8 DEF StoreDies
<1>9. CASE UNCHANGED storeVars
  BY <1>9 DEF storeVars
<1> QED
  BY <1>1, <1>2, <1>3, <1>4, <1>5, <1>6, <1>7, <1>8, <1>9 DEF SyncStep

\* Every step of the system is such an operation for the store.
LEMMA StepsUseTheStore ==
  ASSUME TypeOK, [Next]_vars
  PROVE  \/ \E o \in Object : WriteLocal(o) \/ Enqueue(o)
         \/ WriteFails \/ SyncStep \/ CloseStore \/ StoreDies \/ UNCHANGED storeVars
<1>1. ASSUME inHand # None PROVE Puts(inHand)[done + 1] \in Object
  BY <1>1, ChainAssumption DEF TypeOK, WriterTypeOK, Puts
<1>2. CASE WriteNext
  BY <1>1, <1>2 DEF WriteNext
<1>3. CASE QueueNext
  BY <1>1, <1>3 DEF QueueNext, AllPut
<1> QED
  BY <1>2, <1>3 DEF Next, WriterStep, TakeJob, WriterStops, JobFails,
    Sync, Submit, Shutdown, MainStep, StopWriter, JoinWriter, StopStore, JoinSync,
    Die, vars

\* Queues stay within their bounds, counters count, and the writer's progress
\* stays inside the chain of the job in its hands (_drain, put, close).
THEOREM TypeCorrect == Spec => []TypeOK
<1>1. Init => TypeOK
  <2> SUFFICES ASSUME Init PROVE TypeOK
    OBVIOUS
  <2>1. StoreTypeOK
    BY StoreAssumption DEF Init, StoreInit, StoreTypeOK
  <2>2. WriterTypeOK /\ BooksTypeOK
    <3>a. ~written /\ written \in BOOLEAN /\ timedOut \in BOOLEAN
      BY Zenon DEF Init
    <3>1. WriterTypeOK
      BY <3>a, WriterAssumption DEF Init, WriterTypeOK
    <3>2. BooksTypeOK
      BY <3>a, WriterAssumption DEF Init, BooksTypeOK, Main
    <3> QED
      BY <3>1, <3>2
  <2> QED
    BY <2>1, <2>2 DEF TypeOK
<1>2. TypeOK /\ [Next]_vars => TypeOK'
  <2> SUFFICES ASSUME TypeOK, [Next]_vars PROVE TypeOK'
    OBVIOUS
  <2>1. StoreTypeOK'
    BY StepsUseTheStore, StoreStepType DEF TypeOK
  <2>2. WriterTypeOK' /\ BooksTypeOK'
    <3>0. WriterTypeOK /\ BooksTypeOK
      BY DEF TypeOK
    <3>c. ASSUME NEW j \in Job PROVE Len(Chain[j]) \in Nat
      BY ChainAssumption
    <3>1. ASSUME NEW j \in Job, Submit(j) PROVE WriterTypeOK' /\ BooksTypeOK'
      <4>1. CASE Len(jobQ) < JobBound
        <5>1. jobQ' = Append(jobQ, j)
          BY <3>1, <4>1 DEF Submit, Counted
        <5>2. jobQ' \in Seq(Job \cup {None}) /\ Len(jobQ') <= JobBound
          BY <3>0, <4>1, <5>1, WriterAssumption DEF WriterTypeOK
        <5>3. WriterTypeOK'
          BY <3>0, <3>1, <5>2 DEF Submit, Counted, WriterTypeOK
        <5>4. BooksTypeOK'
          BY <3>0, <3>1, <4>1 DEF Submit, Counted, BooksTypeOK, historyVars
        <5> QED
          BY <5>3, <5>4
      <4>2. CASE ~(Len(jobQ) < JobBound)
        <5>1. WriterTypeOK'
          BY <3>0, <3>1, <4>2 DEF Submit, Counted, WriterTypeOK
        <5>2. BooksTypeOK'
          BY <3>0, <3>1, <4>2 DEF Submit, Counted, BooksTypeOK, historyVars
        <5> QED
          BY <5>1, <5>2
      <4> QED
        BY <4>1, <4>2
    <3>2. CASE TakeJob \/ WriterStops
      <4>1. jobQ # <<>> /\ jobQ' = Tail(jobQ)
        BY <3>2 DEF TakeJob, WriterStops
      <4>2. jobQ' \in Seq(Job \cup {None}) /\ Len(jobQ') <= JobBound
        BY <3>0, <4>1, WriterAssumption DEF WriterTypeOK
      <4>3. Head(jobQ) \in Job \cup {None}
        BY <3>0, <4>1 DEF WriterTypeOK
      <4> QED
        BY <3>0, <3>2, <3>c, <4>2, <4>3
        DEF TakeJob, WriterStops, WriterTypeOK, BooksTypeOK, mainVars, historyVars
    <3>3. CASE WriteNext
      BY <3>0, <3>3, <3>c DEF WriteNext, WriterTypeOK, BooksTypeOK, mainVars
    <3>4. CASE QueueNext
      <4>a. ~written' /\ written' \in BOOLEAN
        BY <3>4, Zenon DEF QueueNext, AllPut
      <4>1. WriterTypeOK'
        BY <3>0, <3>4, <3>c, <4>a DEF QueueNext, AllPut, WriterTypeOK
      <4>2. BooksTypeOK'
        BY <3>0, <3>4 DEF QueueNext, AllPut, WriterTypeOK, BooksTypeOK, mainVars, historyVars
      <4> QED
        BY <4>1, <4>2
    <3>5. CASE JobFails
      BY <3>0, <3>5 DEF JobFails, Counted, WriterTypeOK, BooksTypeOK, mainVars
    <3>6. CASE Sync
      BY <3>0, <3>6
      DEF Sync, WriterTypeOK, BooksTypeOK, writerVars, mainVars, historyVars
    <3>7. CASE Shutdown \/ JoinWriter \/ StopStore \/ JoinSync
      <4>1. WriterTypeOK'
        BY <3>0, <3>7
        DEF Shutdown, JoinWriter, StopStore, JoinSync, WriterTypeOK, writerVars
      <4>2. BooksTypeOK'
        BY <3>0, <3>7
        DEF Shutdown, JoinWriter, StopStore, JoinSync, BooksTypeOK, Main,
          writerVars, historyVars
      <4> QED
        BY <4>1, <4>2
    <3>8. CASE StopWriter
      <4>1. jobQ' \in Seq(Job \cup {None}) /\ Len(jobQ') <= JobBound
        BY <3>0, <3>8, WriterAssumption DEF StopWriter, WriterTypeOK
      <4>2. WriterTypeOK'
        BY <3>0, <3>8, <4>1 DEF StopWriter, WriterTypeOK
      <4>3. BooksTypeOK'
        BY <3>0, <3>8 DEF StopWriter, BooksTypeOK, Main, historyVars
      <4> QED
        BY <4>2, <4>3
    <3>9. CASE Die
      <4>a. ~written' /\ written' \in BOOLEAN /\ timedOut' \in BOOLEAN
        BY <3>9, Zenon DEF Die
      <4>1. WriterTypeOK'
        BY <3>9, <4>a, WriterAssumption DEF Die, WriterTypeOK
      <4>2. Owed \in Nat
        BY OwedType DEF TypeOK
      <4>3. BooksTypeOK'
        BY <3>0, <3>9, <4>2, <4>a, WriterAssumption DEF Die, BooksTypeOK, Main
      <4> QED
        BY <4>1, <4>3
    <3>10. CASE UNCHANGED vars
      BY <3>0, <3>10
      DEF WriterTypeOK, BooksTypeOK, vars, writerVars, mainVars, historyVars
    <3> QED
      BY <3>1, <3>2, <3>3, <3>4, <3>5, <3>6, <3>7, <3>8, <3>9, <3>10
      DEF Next, WriterStep, MainStep
  <2> QED
    BY <2>1, <2>2 DEF TypeOK
<1> QED
  BY <1>1, <1>2, PTL DEF Spec

-----------------------------------------------------------------------------
(* The seal is the last object put for a job, and equal seals bind equal    *)
(* records: when it is written, the records before it are on disk.          *)

\* The objects put for j: its records, then its seal.
LEMMA PutsAreRecordsThenSeal ==
  ASSUME NEW j \in Job
  PROVE  /\ Len(Chain[j]) \in Nat
         /\ \A i \in 1 .. Len(Chain[j]) : Puts(j)[i] = Chain[j][i]
         /\ Puts(j)[Len(Chain[j]) + 1] = SealOf[j]
BY ChainAssumption DEF Puts

\* Files are only ever added.
LEMMA LocalGrows ==
  ASSUME TypeOK, [Next]_vars
  PROVE  /\ local \subseteq local'
         /\ ~WriteNext => local' = local
BY DEF Next, vars, storeVars, WriterStep, TakeJob, WriterStops, WriteNext, WriteLocal,
  QueueNext, Enqueue, JobFails, WriteFails, Sync, SyncStep, TakeObject,
  SyncStops, UploadOk, UploadFails, Submit, Shutdown, MainStep, StopWriter, JoinWriter,
  StopStore, CloseStore, JoinSync, Die, StoreDies

\* The writer's progress is real: what it counted as put is on disk.
LEMMA ProgressIsOnDisk ==
  ASSUME TypeOK, PutIsOnDisk, [Next]_vars
  PROVE  PutIsOnDisk'
<1> USE DEF PutIsOnDisk
<1>0. done \in Nat /\ local \subseteq local'
  BY LocalGrows DEF TypeOK, WriterTypeOK
<1>1. CASE TakeJob
  BY <1>1, <1>0 DEF TakeJob, TypeOK, WriterTypeOK
<1>2. CASE WriteNext
  BY <1>2, <1>0 DEF WriteNext, WriteLocal, Puts
<1>3. CASE QueueNext
  <2>1. ~written'
    BY <1>3, Zenon DEF QueueNext
  <2>2. inHand' = None \/ (inHand' = inHand /\ done' = done + 1)
    BY <1>3 DEF QueueNext
  <2>3. written /\ inHand # None
    BY <1>3 DEF QueueNext
  <2>4. CASE inHand' = None
    BY <2>4
  <2>5. ASSUME inHand' = inHand, done' = done + 1, NEW i \in 1 .. done'
        PROVE  Puts(inHand')[i] \in local'
    <3>1. i \in 1 .. done \/ i = done + 1
      BY <1>0, <2>5
    <3>2. Puts(inHand)[i] \in local
      BY <2>3, <3>1
    <3> QED
      BY <1>0, <2>5, <3>2
  <2> QED
    BY <2>1, <2>2, <2>4, <2>5 DEF Puts
<1>4. CASE JobFails \/ Die
  BY <1>4 DEF JobFails, Die
<1>5. CASE ~(WriterStep \/ Die)
  <2>1. UNCHANGED <<inHand, done, written>>
    BY <1>5 DEF Next, vars, writerVars, Sync, Submit, Shutdown, MainStep, StopWriter,
      JoinWriter, StopStore, JoinSync
  <2> QED
    BY <2>1, <1>0 DEF Puts
<1>6. CASE WriterStops
  BY <1>6, <1>0 DEF WriterStops, Puts
<1> QED
  BY <1>1, <1>2, <1>3, <1>4, <1>5, <1>6 DEF WriterStep

\* A seal is never on disk without the records it binds, whatever crash, failed
\* write or restart came in between (build_chain's records before the seal in
\* _drain).
THEOREM SealsAreBacked == Spec => []SealIsBacked
<1>1. Init => PutIsOnDisk /\ SealIsBacked
  BY DEF Init, StoreInit, PutIsOnDisk, SealIsBacked
<1>2. TypeOK /\ PutIsOnDisk /\ SealIsBacked /\ [Next]_vars => SealIsBacked'
  <2> SUFFICES ASSUME TypeOK, PutIsOnDisk, SealIsBacked, [Next]_vars,
                      NEW j \in Job, SealOf[j] \in local'
               PROVE  Records(j) \subseteq local'
    BY DEF SealIsBacked, Records
  <2>1. CASE SealOf[j] \in local
    BY <2>1, LocalGrows DEF SealIsBacked
  <2>2. CASE SealOf[j] \notin local
    <3>1. WriteNext
      BY <2>2, LocalGrows
    <3>2. PICK k \in Job : inHand = k
      BY <3>1 DEF WriteNext, TypeOK, WriterTypeOK
    <3>3. SealOf[j] = Puts(k)[done + 1]
      BY <2>2, <3>1, <3>2 DEF WriteNext, WriteLocal
    <3>4. done \in 0 .. Len(Chain[k]) /\ Len(Chain[k]) \in Nat
      BY <3>1, <3>2, PutsAreRecordsThenSeal DEF WriteNext, TypeOK, WriterTypeOK
    <3>5. done = Len(Chain[k])
      <4> SUFFICES ASSUME done < Len(Chain[k]) PROVE FALSE
        BY <3>4
      <4>1. Puts(k)[done + 1] \in Records(k)
        BY <3>4, PutsAreRecordsThenSeal DEF Records
      <4> QED
        BY <4>1, <3>3, ChainAssumption
    <3>6. SealOf[j] = SealOf[k]
      BY <3>3, <3>5, PutsAreRecordsThenSeal
    <3>7. Chain[j] = Chain[k]
      BY <3>6, ChainAssumption
    <3>8. Records(k) \subseteq local
      BY <3>1, <3>2, <3>4, <3>5, PutsAreRecordsThenSeal
      DEF WriteNext, PutIsOnDisk, Records
    <3> QED
      BY <3>7, <3>8, LocalGrows DEF Records
  <2> QED
    BY <2>1, <2>2
<1> QED
  BY <1>1, <1>2, ProgressIsOnDisk, TypeCorrect, PTL DEF Spec

-----------------------------------------------------------------------------
(* What a queue holds besides sentinels, by position and by value.          *)

Entries(q) == {i \in 1 .. Len(q) : q[i] # None}
Members(q) == {q[i] : i \in 1 .. Len(q)} \ {None}

LEMMA EntriesAreFinite ==
  ASSUME NEW T, NEW q \in Seq(T)
  PROVE  IsFiniteSet(Entries(q)) /\ Cardinality(Entries(q)) \in Nat
<1>1. IsFiniteSet(1 .. Len(q))
  BY FS_Interval
<1>2. Entries(q) \in SUBSET (1 .. Len(q))
  BY DEF Entries
<1> QED
  BY <1>1, <1>2, FS_Subset, FS_CardinalityType

LEMMA EmptyQueue == Entries(<<>>) = {} /\ Members(<<>>) = {}
BY DEF Entries, Members

LEMMA AppendedQueue ==
  ASSUME NEW T, NEW q \in Seq(T), NEW x \in T
  PROVE  /\ Cardinality(Entries(Append(q, x))) =
              Cardinality(Entries(q)) + (IF x = None THEN 0 ELSE 1)
         /\ Members(Append(q, x)) = Members(q) \cup ({x} \ {None})
<1> DEFINE n == Len(q)
<1>1. /\ n \in Nat /\ Len(Append(q, x)) = n + 1
      /\ Append(q, x)[n + 1] = x
      /\ \A i \in 1 .. n : Append(q, x)[i] = q[i]
  OBVIOUS
<1>2. 1 .. n + 1 = (1 .. n) \cup {n + 1}
  BY <1>1
<1>3. Entries(Append(q, x)) = IF x = None THEN Entries(q) ELSE Entries(q) \cup {n + 1}
  BY <1>1, <1>2 DEF Entries
<1>4. n + 1 \notin Entries(q)
  BY <1>1 DEF Entries
<1>5. Cardinality(Entries(q) \cup {n + 1}) = Cardinality(Entries(q)) + 1
  BY <1>4, EntriesAreFinite, FS_AddElement
<1>6. Cardinality(Entries(q)) \in Nat
  BY EntriesAreFinite
<1>7. Members(Append(q, x)) = Members(q) \cup ({x} \ {None})
  BY <1>1, <1>2 DEF Members
<1> QED
  BY <1>3, <1>5, <1>6, <1>7

LEMMA ShortenedQueue ==
  ASSUME NEW T, NEW q \in Seq(T), q # <<>>
  PROVE  /\ Cardinality(Entries(q)) =
              Cardinality(Entries(Tail(q))) + (IF Head(q) = None THEN 0 ELSE 1)
         /\ Members(q) = Members(Tail(q)) \cup ({Head(q)} \ {None})
<1> DEFINE n == Len(q)
           Rest == {i \in 2 .. n : q[i] # None}
           shift == [i \in Entries(Tail(q)) |-> i + 1]
<1>1. /\ n \in Nat \ {0} /\ Tail(q) \in Seq(T) /\ Len(Tail(q)) = n - 1
      /\ Head(q) = q[1]
      /\ \A i \in 1 .. n - 1 : Tail(q)[i] = q[i + 1]
  OBVIOUS
<1>2. shift \in Bijection(Entries(Tail(q)), Rest)
  <2>1. \A i \in Entries(Tail(q)) : i \in 1 .. n - 1 /\ shift[i] = i + 1 /\ shift[i] \in Rest
    BY <1>1 DEF Entries
  <2>2. shift \in Injection(Entries(Tail(q)), Rest)
    <3>1. shift \in [Entries(Tail(q)) -> Rest]
      BY <2>1
    <3>2. \A a, b \in Entries(Tail(q)) : shift[a] = shift[b] => a = b
      BY <2>1
    <3> QED
      BY <3>1, <3>2, Zenon DEF Injection, IsInjective
  <2>3. ASSUME NEW k \in Rest PROVE \E i \in Entries(Tail(q)) : shift[i] = k
    <3>1. k - 1 \in Entries(Tail(q)) /\ (k - 1) + 1 = k
      BY <1>1 DEF Entries
    <3> QED
      BY <3>1
  <2> QED
    BY <2>1, <2>2, <2>3, Zenon DEF Bijection, Surjection, Injection
<1>3. IsFiniteSet(Rest) /\ Cardinality(Rest) = Cardinality(Entries(Tail(q)))
  BY <1>1, <1>2, EntriesAreFinite, FS_Bijection DEF ExistsBijection
<1>4. 1 .. n = {1} \cup (2 .. n)
  BY <1>1
<1>5. Entries(q) = IF Head(q) = None THEN Rest ELSE Rest \cup {1}
  BY <1>1, <1>4 DEF Entries
<1>6. Cardinality(Rest \cup {1}) = Cardinality(Rest) + 1
  BY <1>3, FS_AddElement
<1>7. Cardinality(Rest) \in Nat
  BY <1>3, FS_CardinalityType
<1>8. Members(q) = Members(Tail(q)) \cup ({Head(q)} \ {None})
  <2>1. {q[i] : i \in 2 .. n} = {Tail(q)[i] : i \in 1 .. n - 1}
    <3>1. ASSUME NEW i \in 2 .. n PROVE q[i] = Tail(q)[i - 1] /\ i - 1 \in 1 .. n - 1
      BY <1>1
    <3>2. ASSUME NEW i \in 1 .. n - 1 PROVE Tail(q)[i] = q[i + 1] /\ i + 1 \in 2 .. n
      BY <1>1
    <3> QED
      BY <3>1, <3>2
  <2> QED
    BY <1>1, <1>4, <2>1 DEF Members
<1> QED
  BY <1>3, <1>5, <1>6, <1>7, <1>8

-----------------------------------------------------------------------------
(* The books of the store.                                                  *)

\* What the store owes, with the queue's part by its positions.
LEMMA OwedBySum ==
  Owed = (IF uploading = None THEN 0 ELSE 1) + Cardinality(Entries(syncQ))
         + (IF written /\ WithFabric THEN 1 ELSE 0)
BY DEF Owed, Entries

LEMMA PutsStayAccounted ==
  ASSUME TypeOK, EveryPutAccounted, [Next]_vars
  PROVE  EveryPutAccounted'
<1> DEFINE uploads == IF uploading = None THEN 0 ELSE 1
           queued == Cardinality(Entries(syncQ))
           half == IF written /\ WithFabric THEN 1 ELSE 0
<1>0. /\ puts = synced + failed + unsent + (uploads + queued + half)
      /\ syncQ \in Seq(Object \cup {None}) /\ queued \in Nat
      /\ puts \in Nat /\ synced \in Nat /\ failed \in Nat /\ unsent \in Nat
      /\ written \in BOOLEAN /\ WithFabric \in BOOLEAN
  BY OwedBySum, EntriesAreFinite, StoreAssumption
  DEF EveryPutAccounted, TypeOK, StoreTypeOK, BooksTypeOK, WriterTypeOK
<1>1. SUFFICES puts' = synced' + failed' + unsent' + (uploads' + queued' + half')
  BY DEF EveryPutAccounted, Owed, Entries
<1>2. CASE WriteNext
  <2>1. /\ puts' = puts + 1 /\ syncQ' = syncQ /\ uploading' = uploading
        /\ synced' = synced /\ failed' = failed
        /\ unsent' = (IF WithFabric THEN unsent ELSE unsent + 1)
    BY <1>2 DEF WriteNext, WriteLocal
  <2>2. half = 0 /\ half' = IF WithFabric THEN 1 ELSE 0
    BY <1>2 DEF WriteNext
  <2> QED
    BY <1>0, <2>1, <2>2
<1>3. CASE QueueNext
  <2> DEFINE o == Puts(inHand)[done + 1]
  <2>1. o \in Object /\ o # None
    BY <1>3, ChainAssumption, StoreAssumption DEF QueueNext, TypeOK, WriterTypeOK, Puts
  <2>2. Enqueue(o) /\ written /\ ~written' /\ unsent' = unsent
    BY <1>3 DEF QueueNext, historyVars
  <2>3. half = (IF WithFabric THEN 1 ELSE 0) /\ half' = 0
    BY <2>2
  <2>4. /\ puts' = puts /\ uploading' = uploading /\ synced' = synced
        /\ \/ WithFabric /\ syncQ' = Append(syncQ, o) /\ failed' = failed
           \/ WithFabric /\ syncQ' = syncQ /\ failed' = failed + 1
           \/ ~WithFabric /\ syncQ' = syncQ /\ failed' = failed
    BY <1>0, <2>2 DEF Enqueue
  <2>5. Cardinality(Entries(Append(syncQ, o))) = queued + 1
    BY <1>0, <2>1, AppendedQueue
  <2>6. \/ WithFabric /\ queued' = queued + 1 /\ failed' = failed
        \/ WithFabric /\ queued' = queued /\ failed' = failed + 1
        \/ ~WithFabric /\ queued' = queued /\ failed' = failed
    BY <2>4, <2>5 DEF Entries
  <2>7. puts' = puts /\ uploads' = uploads /\ synced' = synced /\ unsent' = unsent
    BY <2>2, <2>4
  <2> QED
    BY <1>0, <2>3, <2>6, <2>7
<1>4. CASE JobFails
  <2>1. /\ syncQ' = syncQ /\ uploading' = uploading /\ written' = written
        /\ synced' = synced /\ failed' = failed
        /\ \/ puts' = puts /\ unsent' = unsent
           \/ puts' = puts + 1 /\ unsent' = unsent + 1
    BY <1>4 DEF JobFails, WriteFails, storeVars
  <2> QED
    BY <1>0, <2>1
<1>5. CASE Sync
  <2>1. unsent' = unsent /\ written' = written /\ puts' = puts
    BY <1>5 DEF Sync, SyncStep, TakeObject, SyncStops, UploadOk, UploadFails, writerVars,
      historyVars
  <2>2. CASE TakeObject \/ SyncStops
    <3>1. syncQ # <<>> /\ syncQ' = Tail(syncQ) /\ synced' = synced /\ failed' = failed
      BY <2>2 DEF TakeObject, SyncStops
    <3>a. Tail(syncQ) \in Seq(Object \cup {None})
      BY <1>0, <3>1
    <3>b. queued' = Cardinality(Entries(Tail(syncQ)))
      BY <3>1 DEF Entries
    <3>c. /\ queued = Cardinality(Entries(Tail(syncQ)))
                        + (IF Head(syncQ) = None THEN 0 ELSE 1)
          /\ Cardinality(Entries(Tail(syncQ))) \in Nat
      BY <1>0, <3>a, <3>1, ShortenedQueue, EntriesAreFinite
    <3>2. queued = queued' + (IF Head(syncQ) = None THEN 0 ELSE 1) /\ queued' \in Nat
      BY <3>b, <3>c
    <3>3. uploads = 0 /\ uploads' = IF Head(syncQ) = None THEN 0 ELSE 1
      BY <2>2 DEF TakeObject, SyncStops, Syncing
    <3> QED
      BY <1>0, <2>1, <3>1, <3>2, <3>3
  <2>3. CASE UploadOk \/ UploadFails
    <3>1. uploads = 1 /\ uploads' = 0 /\ syncQ' = syncQ
      BY <2>3 DEF UploadOk, UploadFails
    <3>2. \/ synced' = synced + 1 /\ failed' = failed
          \/ synced' = synced /\ failed' = failed + 1
      BY <2>3 DEF UploadOk, UploadFails
    <3>3. queued' = queued /\ half' = half /\ half \in Nat
      BY <1>5, <3>1 DEF Sync, writerVars
    <3> HIDE DEF uploads, queued, half
    <3> QED BY <1>0, <2>1, <3>1, <3>2, <3>3
  <2> QED
    BY <1>5, <2>2, <2>3 DEF Sync, SyncStep
<1>6. CASE StopStore
  <2>1. /\ syncQ' = Append(syncQ, None) /\ uploading' = uploading /\ puts' = puts
        /\ synced' = synced /\ failed' = failed /\ unsent' = unsent /\ written' = written
    BY <1>6 DEF StopStore, CloseStore, writerVars, historyVars
  <2>2. queued' = queued
    BY <1>0, <2>1, AppendedQueue
  <2> QED
    BY <1>0, <2>1, <2>2
<1>7. CASE Die
  <2>1. /\ syncQ' = <<>> /\ uploading' = None /\ ~written' /\ puts' = puts
        /\ synced' = synced /\ failed' = failed /\ unsent' = unsent + Owed
    BY <1>7 DEF Die, StoreDies
  <2>2. queued' = 0 /\ uploads' = 0 /\ half' = 0
    BY <2>1, EmptyQueue, FS_EmptySet
  <2> QED
    BY <1>0, <2>1, <2>2, OwedBySum
<1>8. CASE ~(WriteNext \/ QueueNext \/ JobFails \/ Sync \/ StopStore \/ Die)
  <2>1. UNCHANGED <<puts, synced, failed, unsent, uploading, syncQ, written>>
    BY <1>8 DEF Next, vars, WriterStep, MainStep, TakeJob, WriterStops, Submit, Shutdown,
      StopWriter, JoinWriter, JoinSync, storeVars, writerVars, historyVars
  <2> QED
    BY <1>0, <2>1
<1> QED
  BY <1>2, <1>3, <1>4, <1>5, <1>6, <1>7, <1>8

\* Through full queues, outages, lost answers, failed writes and crashes, no put
\* gets out of the counters of KappaStore (put, _drain, close).
THEOREM PutsAreAccounted == Spec => []EveryPutAccounted
<1>1. Init => EveryPutAccounted
  <2> SUFFICES ASSUME Init PROVE EveryPutAccounted
    OBVIOUS
  <2>1. Cardinality(Entries(syncQ)) = 0
    BY EmptyQueue, FS_EmptySet DEF Init, StoreInit
  <2>2. /\ puts = 0 /\ synced = 0 /\ failed = 0 /\ unsent = 0
        /\ uploading = None /\ ~written
    BY DEF Init, StoreInit
  <2> QED
    BY <2>1, <2>2, OwedBySum DEF EveryPutAccounted
<1> QED
  BY <1>1, PutsStayAccounted, TypeCorrect, PTL DEF Spec

-----------------------------------------------------------------------------
(* The books of the writer.                                                 *)

LEMMA WaitingIsQueued == Waiting = Members(jobQ)
BY DEF Waiting, Members

\* Positions of a queue without repetitions keep theirs when it grows or shrinks.
Distinct(q) == \A i, k \in 1 .. Len(q) : q[i] # None /\ q[i] = q[k] => i = k

LEMMA DistinctAppended ==
  ASSUME NEW T, NEW q \in Seq(T), NEW x \in T, Distinct(q), x \notin Members(q)
  PROVE  Distinct(Append(q, x))
<1>1. /\ Len(q) \in Nat /\ Len(Append(q, x)) = Len(q) + 1
      /\ Append(q, x)[Len(q) + 1] = x
      /\ \A i \in 1 .. Len(q) : Append(q, x)[i] = q[i]
  OBVIOUS
<1>2. \A i \in 1 .. Len(q) + 1 : i \in 1 .. Len(q) \/ i = Len(q) + 1
  BY <1>1
<1>3. \A i \in 1 .. Len(q) : q[i] # None => q[i] # x
  BY DEF Members
<1> QED
  BY <1>1, <1>2, <1>3 DEF Distinct

LEMMA DistinctShortened ==
  ASSUME NEW T, NEW q \in Seq(T), q # <<>>, Distinct(q)
  PROVE  Distinct(Tail(q)) /\ (Head(q) # None => Head(q) \notin Members(Tail(q)))
<1>1. /\ Len(q) \in Nat \ {0} /\ Len(Tail(q)) = Len(q) - 1
      /\ Head(q) = q[1] /\ 1 \in 1 .. Len(q)
      /\ \A i \in 1 .. Len(q) - 1 : Tail(q)[i] = q[i + 1] /\ i + 1 \in 1 .. Len(q)
  OBVIOUS
<1>2. Distinct(Tail(q))
  BY <1>1 DEF Distinct
<1>3. ASSUME Head(q) # None, NEW i \in 1 .. Len(q) - 1 PROVE Tail(q)[i] # Head(q)
  BY <1>1, <1>3 DEF Distinct
<1> QED
  BY <1>1, <1>2, <1>3 DEF Members

\* In a queue without repetitions there are as many positions as values.
LEMMA DistinctCount ==
  ASSUME NEW T, NEW q \in Seq(T), Distinct(q)
  PROVE  IsFiniteSet(Members(q)) /\ Cardinality(Members(q)) = Cardinality(Entries(q))
<1> DEFINE at == [i \in Entries(q) |-> q[i]]
<1>1. at \in Bijection(Entries(q), Members(q))
  <2>1. at \in Injection(Entries(q), Members(q))
    <3>1. at \in [Entries(q) -> Members(q)]
      BY DEF Entries, Members
    <3>2. \A a, b \in Entries(q) : at[a] = at[b] => a = b
      BY DEF Entries, Distinct
    <3> QED
      BY <3>1, <3>2, Zenon DEF Injection, IsInjective
  <2>2. \A x \in Members(q) : \E i \in Entries(q) : at[i] = x
    BY DEF Entries, Members
  <2> QED
    BY <2>1, <2>2, Zenon DEF Bijection, Surjection, Injection
<1> QED
  BY <1>1, EntriesAreFinite, FS_Bijection DEF ExistsBijection

LEMMA JobsApartType ==
  ASSUME TypeOK, JobsApart
  PROVE  /\ jobQ \in Seq(Job \cup {None}) /\ Distinct(jobQ)
         /\ InWork = {inHand} \ {None} /\ Waiting = Members(jobQ)
BY WaitingIsQueued DEF TypeOK, WriterTypeOK, JobsApart, Distinct, InWork

\* What each step does to the places of the jobs.
Places == <<submitted, sealed, dropped, lost, jobQ, inHand>>

LEMMA JobsStayApart ==
  ASSUME TypeOK, JobsApart, [Next]_vars
  PROVE  JobsApart'
<1> DEFINE J == Job \cup {None}
<1>0. /\ jobQ \in Seq(J) /\ Distinct(jobQ) /\ inHand \in J
      /\ Waiting = Members(jobQ) /\ InWork = {inHand} \ {None}
  BY JobsApartType DEF TypeOK, WriterTypeOK
<1>1. SUFFICES
        /\ IsFiniteSet(submitted')
        /\ submitted' = sealed' \cup dropped' \cup lost' \cup Members(jobQ')
                        \cup ({inHand'} \ {None})
        /\ sealed' \cap dropped' = {} /\ lost' \cap (sealed' \cup dropped') = {}
        /\ (Members(jobQ') \cup ({inHand'} \ {None}))
             \cap (sealed' \cup dropped' \cup lost') = {}
        /\ inHand' \notin Members(jobQ')
        /\ Distinct(jobQ')
  BY DEF JobsApart, Waiting, InWork, Members, Distinct
<1>2. /\ IsFiniteSet(submitted)
      /\ submitted = sealed \cup dropped \cup lost \cup Members(jobQ) \cup ({inHand} \ {None})
      /\ sealed \cap dropped = {} /\ lost \cap (sealed \cup dropped) = {}
      /\ (Members(jobQ) \cup ({inHand} \ {None})) \cap (sealed \cup dropped \cup lost) = {}
      /\ inHand \notin Members(jobQ)
  BY <1>0 DEF JobsApart
<1>3. ASSUME NEW j \in Job, Submit(j)
      PROVE  /\ IsFiniteSet(submitted') /\ j \notin submitted
             /\ submitted' = submitted \cup {j} /\ j # None
             /\ UNCHANGED <<sealed, lost, inHand>>
             /\ \/ jobQ' = Append(jobQ, j) /\ dropped' = dropped
                \/ jobQ' = jobQ /\ dropped' = dropped \cup {j}
  BY <1>2, <1>3, FS_AddElement, WriterAssumption DEF Submit, Counted, historyVars
<1>4. CASE \E j \in Job : Submit(j)
  <2>1. PICK j \in Job : Submit(j)
    BY <1>4
  <2>2. CASE jobQ' = Append(jobQ, j) /\ dropped' = dropped
    <3>1. j \in J /\ j \notin Members(jobQ)
      BY <1>2, <1>3, <2>1
    <3>2. Distinct(jobQ') /\ Members(jobQ') = Members(jobQ) \cup {j}
      BY <1>0, <1>3, <2>1, <2>2, <3>1, AppendedQueue, DistinctAppended
    <3> QED
      BY <1>2, <1>3, <2>1, <2>2, <3>2
  <2>3. CASE jobQ' = jobQ /\ dropped' = dropped \cup {j}
    BY <1>0, <1>2, <1>3, <2>1, <2>3
  <2> QED
    BY <1>3, <2>1, <2>2, <2>3
<1>5. CASE TakeJob \/ WriterStops
  <2>1. /\ jobQ # <<>> /\ jobQ' = Tail(jobQ) /\ inHand = None /\ inHand' = Head(jobQ)
        /\ UNCHANGED <<submitted, sealed, dropped, lost>>
    BY <1>5 DEF TakeJob, WriterStops, mainVars, historyVars
  <2>2. Members(jobQ) = Members(jobQ') \cup ({Head(jobQ)} \ {None})
    BY <1>0, <2>1, ShortenedQueue
  <2>3. Distinct(jobQ') /\ (Head(jobQ) # None => Head(jobQ) \notin Members(jobQ'))
    BY <1>0, <2>1, DistinctShortened
  <2>4. None \notin Members(jobQ')
    BY DEF Members
  <2> QED
    BY <1>2, <2>1, <2>2, <2>3, <2>4
<1>6. CASE StopWriter
  <2>1. jobQ' = Append(jobQ, None) /\ UNCHANGED <<submitted, sealed, dropped, lost, inHand>>
    BY <1>6 DEF StopWriter, historyVars
  <2>2. None \notin Members(jobQ)
    BY DEF Members
  <2>a. None \in J
    OBVIOUS
  <2>b. Distinct(Append(jobQ, None))
    BY <1>0, <2>2, <2>a, DistinctAppended
  <2>c. Members(Append(jobQ, None)) = Members(jobQ) \cup ({None} \ {None})
    BY <1>0, <2>a, AppendedQueue
  <2>3. Distinct(jobQ') /\ Members(jobQ') = Members(jobQ)
    BY <2>1, <2>b, <2>c
  <2> QED
    BY <1>2, <2>1, <2>3
<1>7. CASE QueueNext \/ JobFails
  <2>1. /\ jobQ' = jobQ /\ inHand # None
        /\ UNCHANGED <<submitted, lost>>
        /\ \/ UNCHANGED <<inHand, sealed, dropped>>
           \/ inHand' = None /\ sealed' = sealed \cup {inHand} /\ dropped' = dropped
           \/ inHand' = None /\ dropped' = dropped \cup {inHand} /\ sealed' = sealed
    BY <1>7 DEF QueueNext, JobFails, Counted, mainVars, historyVars
  <2>2. None \notin Members(jobQ)
    BY DEF Members
  <2> QED
    BY <1>0, <1>2, <2>1, <2>2
<1>8. CASE Die
  <2>1. /\ jobQ' = <<>> /\ inHand' = None /\ UNCHANGED <<submitted, sealed, dropped>>
        /\ lost' = lost \cup (submitted \ (sealed \cup dropped))
    BY <1>8 DEF Die
  <2>2. Members(jobQ') = {} /\ Distinct(jobQ')
    BY <2>1, EmptyQueue DEF Distinct
  <2> QED
    BY <1>2, <2>1, <2>2
<1>9. CASE UNCHANGED Places
  BY <1>0, <1>2, <1>9 DEF Places
<1>10. \/ \E j \in Job : Submit(j)
       \/ TakeJob \/ WriterStops \/ StopWriter \/ QueueNext \/ JobFails \/ Die
       \/ UNCHANGED Places
  BY DEF Next, vars, WriterStep, WriteNext, Sync, Shutdown, MainStep, JoinWriter, StopStore,
    JoinSync, writerVars, mainVars, historyVars, Places
<1> QED
  BY <1>4, <1>5, <1>6, <1>7, <1>8, <1>9, <1>10

LEMMA JobsApartInvariant == Spec => []JobsApart
<1>1. Init => JobsApart
  BY EmptyQueue, FS_EmptySet DEF Init, JobsApart, Waiting, InWork, Members
<1> QED
  BY <1>1, JobsStayApart, TypeCorrect, PTL DEF Spec

\* The counters of _WitnessWriter balance: each finished request is in exactly
\* one place, and the numbers in each add up to the number of requests (submit,
\* _drain).
THEOREM JobsAreAccounted == Spec => []EveryJobAccounted
<1>1. ASSUME TypeOK, JobsApart PROVE EveryJobAccounted
  <2> DEFINE M == Members(jobQ)
  <2>1. /\ IsFiniteSet(submitted)
        /\ submitted = sealed \cup dropped \cup lost \cup M \cup InWork
        /\ sealed \cap dropped = {} /\ (sealed \cup dropped) \cap lost = {}
        /\ (sealed \cup dropped \cup lost) \cap M = {}
        /\ (sealed \cup dropped \cup lost \cup M) \cap InWork = {}
    BY <1>1, JobsApartType DEF JobsApart
  <2>2. /\ IsFiniteSet(sealed) /\ IsFiniteSet(dropped) /\ IsFiniteSet(lost)
        /\ IsFiniteSet(M) /\ IsFiniteSet(InWork)
    BY <2>1, FS_Subset
  <2>3. ASSUME NEW A, NEW B, IsFiniteSet(A), IsFiniteSet(B), A \cap B = {}
        PROVE  /\ IsFiniteSet(A \cup B)
               /\ Cardinality(A \cup B) = Cardinality(A) + Cardinality(B)
    <3>1. Cardinality(A \cap B) = 0
      BY <2>3, FS_EmptySet
    <3>2. Cardinality(A) \in Nat /\ Cardinality(B) \in Nat
      BY <2>3, FS_CardinalityType
    <3>3. /\ IsFiniteSet(A \cup B)
          /\ Cardinality(A \cup B) = Cardinality(A) + Cardinality(B) - Cardinality(A \cap B)
      BY <2>3, FS_Union, Zenon
    <3> QED
      BY <3>1, <3>2, <3>3
  <2>4. Cardinality(M) = Cardinality({i \in 1 .. Len(jobQ) : jobQ[i] # None})
    BY <1>1, JobsApartType, DistinctCount DEF Entries
  <2> HIDE DEF M
  <2>5. /\ IsFiniteSet(sealed \cup dropped)
        /\ Cardinality(sealed \cup dropped) = Cardinality(sealed) + Cardinality(dropped)
    BY <2>1, <2>2, <2>3
  <2>6. /\ IsFiniteSet(sealed \cup dropped \cup lost)
        /\ Cardinality(sealed \cup dropped \cup lost)
             = Cardinality(sealed \cup dropped) + Cardinality(lost)
    BY <2>1, <2>2, <2>3, <2>5
  <2>7. /\ IsFiniteSet(sealed \cup dropped \cup lost \cup M)
        /\ Cardinality(sealed \cup dropped \cup lost \cup M)
             = Cardinality(sealed \cup dropped \cup lost) + Cardinality(M)
    BY <2>1, <2>2, <2>3, <2>6
  <2>8. Cardinality(submitted)
          = Cardinality(sealed \cup dropped \cup lost \cup M) + Cardinality(InWork)
    BY <2>1, <2>2, <2>3, <2>7
  <2>9. submitted = sealed \cup dropped \cup lost \cup Waiting \cup InWork
    BY <1>1 DEF JobsApart
  <2>10. Cardinality(submitted) = Cardinality(sealed) + Cardinality(dropped)
           + Cardinality(lost) + Cardinality(M) + Cardinality(InWork)
    BY <2>5, <2>6, <2>7, <2>8
  <2> QED
    BY <2>4, <2>9, <2>10 DEF EveryJobAccounted
<1> QED
  BY <1>1, JobsApartInvariant, TypeCorrect, PTL

-----------------------------------------------------------------------------
(* The writer implements AuditTrail.                                        *)

Pending == Waiting \cup InWork
Fates == [j \in Job |-> Fate(j)]

\* The place of a job decides its fate.
FatesFit ==
  \A j \in Job :
    /\ j \in sealed => Fate(j) = "sealed"
    /\ j \in dropped => Fate(j) = "dropped"
    /\ j \in lost => Fate(j) = "lost"
    /\ j \in Pending => Fate(j) = "pending"
    /\ j \notin submitted => Fate(j) = "none"

LEMMA PlacesGiveFates == JobsApart => FatesFit
BY DEF JobsApart, FatesFit, Fate, Pending

\* Each job was submitted to one of the places.
LEMMA EachHasAPlace ==
  ASSUME JobsApart, NEW j
  PROVE  j \in sealed \/ j \in dropped \/ j \in lost \/ j \in Pending \/ j \notin submitted
BY DEF JobsApart, Pending

\* Jobs whose place does not change keep their fate.
LEMMA SamePlaceSameFate ==
  ASSUME JobsApart, FatesFit, FatesFit', NEW j \in Job,
         j \in sealed => j \in sealed',
         j \in dropped => j \in dropped',
         j \in lost => j \in lost',
         j \in Pending => j \in Pending',
         j \notin submitted => j \notin submitted'
  PROVE  Fate(j)' = Fate(j)
BY EachHasAPlace DEF FatesFit

\* What a step adds to the jobs on their way, and takes from them.
LEMMA PendingSteps ==
  ASSUME TypeOK, JobsApart, [Next]_vars
  PROVE  /\ \A j \in Job : Submit(j) => Pending' = Pending \/ Pending' = Pending \cup {j}
         /\ QueueNext \/ JobFails =>
              /\ Pending' = Pending \/ Pending' = Pending \ {inHand}
              /\ inHand \in Pending
         /\ TakeJob \/ WriterStops \/ StopWriter => Pending' = Pending
         /\ Die => Pending' = {}
<1>0. /\ jobQ \in Seq(Job \cup {None}) /\ inHand \in Job \cup {None}
      /\ Pending = Members(jobQ) \cup ({inHand} \ {None})
      /\ inHand \notin Members(jobQ) /\ None \notin Members(jobQ)
  BY JobsApartType DEF TypeOK, WriterTypeOK, Pending, JobsApart, Members
<1>1. Pending' = Members(jobQ') \cup ({inHand'} \ {None})
  BY DEF Pending, Waiting, InWork, Members
<1>2. ASSUME NEW j \in Job, Submit(j)
      PROVE  Pending' = Pending \/ Pending' = Pending \cup {j}
  <2>1. inHand' = inHand /\ (jobQ' = jobQ \/ jobQ' = Append(jobQ, j)) /\ j # None
    BY <1>2, WriterAssumption DEF Submit
  <2>2. Members(Append(jobQ, j)) = Members(jobQ) \cup {j}
    BY <1>0, <2>1, AppendedQueue
  <2> QED
    BY <1>0, <1>1, <2>1, <2>2
<1>3. ASSUME QueueNext \/ JobFails
      PROVE  /\ Pending' = Pending \/ Pending' = Pending \ {inHand}
             /\ inHand \in Pending
  <2>1. jobQ' = jobQ /\ inHand # None /\ (inHand' = inHand \/ inHand' = None)
    BY <1>3 DEF QueueNext, JobFails
  <2> QED
    BY <1>0, <1>1, <2>1
<1>4. ASSUME TakeJob \/ WriterStops PROVE Pending' = Pending
  <2>1. jobQ # <<>> /\ jobQ' = Tail(jobQ) /\ inHand = None /\ inHand' = Head(jobQ)
    BY <1>4 DEF TakeJob, WriterStops
  <2>2. Members(jobQ) = Members(Tail(jobQ)) \cup ({Head(jobQ)} \ {None})
    BY <1>0, <2>1, ShortenedQueue
  <2> QED
    BY <1>0, <1>1, <2>1, <2>2
<1>5. ASSUME StopWriter PROVE Pending' = Pending
  <2>1. jobQ' = Append(jobQ, None) /\ inHand' = inHand
    BY <1>5 DEF StopWriter
  <2>2. None \in Job \cup {None}
    OBVIOUS
  <2>3. Members(Append(jobQ, None)) = Members(jobQ) \cup ({None} \ {None})
    BY <1>0, <2>2, AppendedQueue
  <2> QED
    BY <1>0, <1>1, <2>1, <2>3
<1>6. ASSUME Die PROVE Pending' = {}
  BY <1>1, <1>6, EmptyQueue DEF Die
<1> QED
  BY <1>2, <1>3, <1>4, <1>5, <1>6

LEMMA SubmitAccepts ==
  ASSUME TypeOK, JobsApart, JobsApart', FatesFit, FatesFit', [Next]_vars,
         NEW j \in Job, Submit(j)
  PROVE  Trail!Accept(j)
<1>1. /\ j \notin submitted /\ submitted' = submitted \cup {j}
      /\ sealed' = sealed /\ lost' = lost /\ local' = local
      /\ dropped' = dropped \/ dropped' = dropped \cup {j}
  BY DEF Submit, Counted, storeVars, historyVars
<1>2. Pending' = Pending \/ Pending' = Pending \cup {j}
  BY PendingSteps
<1>3. Fate(j) = "none"
  BY <1>1 DEF FatesFit
<1>4. Fate(j)' \in {"pending", "dropped"}
  <2>1. j \notin sealed' /\ j \notin lost' /\ j \in submitted'
    BY <1>1 DEF JobsApart
  <2>2. j \in dropped' \/ j \in Pending'
    BY <2>1 DEF JobsApart, Pending
  <2> QED
    BY <2>2 DEF FatesFit
<1>5. \A k \in Job \ {j} : Fate(k)' = Fate(k)
  BY <1>1, <1>2, SamePlaceSameFate
<1>6. Fates' = [Fates EXCEPT ![j] = Fate(j)']
  BY <1>5 DEF Fates
<1> QED
  BY <1>1, <1>3, <1>4, <1>6 DEF Trail!Accept, Fates

\* A write puts a record of the job in hand, or its seal after them.
LEMMA WritePuts ==
  ASSUME TypeOK, JobsApart, FatesFit, PutIsOnDisk, WriteNext, Fates' = Fates
  PROVE  \E j \in Job : Trail!Put(j)
<1>1. PICK j \in Job : inHand = j
  BY DEF WriteNext, TypeOK, WriterTypeOK
<1>2. Fates[j] = "pending"
  BY <1>1, WriterAssumption DEF FatesFit, Pending, InWork, Fates
<1>3. local' = local \cup {Puts(j)[done + 1]}
  BY <1>1 DEF WriteNext, WriteLocal
<1>4. done \in 0 .. Len(Chain[j]) /\ Len(Chain[j]) \in Nat
  BY <1>1, PutsAreRecordsThenSeal DEF WriteNext, TypeOK, WriterTypeOK
<1>5. CASE done < Len(Chain[j])
  <2>1. Puts(j)[done + 1] \in Records(j)
    BY <1>4, <1>5, PutsAreRecordsThenSeal DEF Records
  <2> QED
    BY <1>2, <1>3, <2>1 DEF Trail!Put, Fates
<1>6. CASE done = Len(Chain[j])
  <2>1. Puts(j)[done + 1] = SealOf[j]
    BY <1>6, PutsAreRecordsThenSeal
  <2>2. Records(j) \subseteq local
    BY <1>1, <1>4, <1>6, PutsAreRecordsThenSeal DEF WriteNext, PutIsOnDisk, Records
  <2> QED
    BY <1>2, <1>3, <2>1, <2>2 DEF Trail!Put, Fates
<1> QED
  BY <1>4, <1>5, <1>6

\* The end of a job settles its fate; between its puts nothing changes.
LEMMA JobEnds ==
  ASSUME TypeOK, JobsApart, JobsApart', FatesFit, FatesFit', PutIsOnDisk, [Next]_vars,
         QueueNext \/ JobFails
  PROVE  (\E j \in Job : Trail!Certify(j) \/ Trail!Drop(j)) \/ UNCHANGED Trail!vars
<1>1. PICK j \in Job : inHand = j
  BY DEF QueueNext, JobFails, TypeOK, WriterTypeOK
<1>2. /\ submitted' = submitted /\ lost' = lost /\ local' = local
  BY DEF QueueNext, Enqueue, JobFails, WriteFails, storeVars, mainVars, historyVars
<1>3. /\ j \in Pending /\ (Pending' = Pending \/ Pending' = Pending \ {j})
  BY <1>1, PendingSteps
<1>4. Fate(j) = "pending"
  BY <1>3 DEF FatesFit
<1>5. CASE QueueNext /\ AllPut
  <2>1. sealed' = sealed \cup {j} /\ dropped' = dropped
    BY <1>1, <1>5 DEF QueueNext
  <2>2. Fate(j)' = "sealed"
    BY <2>1 DEF FatesFit
  <2>3. \A k \in Job \ {j} : Fate(k)' = Fate(k)
    BY <1>2, <1>3, <2>1, SamePlaceSameFate
  <2>4. Fates' = [Fates EXCEPT ![j] = "sealed"]
    BY <2>2, <2>3 DEF Fates
  <2>5. SealOf[j] \in local
    BY <1>1, <1>5, PutsAreRecordsThenSeal DEF QueueNext, AllPut, PutIsOnDisk
  <2> QED
    BY <1>2, <1>4, <2>4, <2>5 DEF Trail!Certify, Fates
<1>6. CASE QueueNext /\ ~AllPut
  <2>1. sealed' = sealed /\ dropped' = dropped /\ inHand' = inHand /\ jobQ' = jobQ
    BY <1>6 DEF QueueNext
  <2>2. Fates' = Fates
    BY <1>2, <2>1 DEF Fates, Fate, Waiting, InWork
  <2> QED
    BY <1>2, <2>2 DEF Trail!vars, Fates
<1>7. CASE JobFails
  <2>1. dropped' = dropped \cup {j} /\ sealed' = sealed
    BY <1>1, <1>7 DEF JobFails, Counted
  <2>2. Fate(j)' = "dropped"
    BY <2>1 DEF FatesFit
  <2>3. \A k \in Job \ {j} : Fate(k)' = Fate(k)
    BY <1>2, <1>3, <2>1, SamePlaceSameFate
  <2>4. Fates' = [Fates EXCEPT ![j] = "dropped"]
    BY <2>2, <2>3 DEF Fates
  <2> QED
    BY <1>2, <1>4, <2>4 DEF Trail!Drop, Fates
<1> QED
  BY <1>5, <1>6, <1>7

LEMMA DieLoses ==
  ASSUME TypeOK, JobsApart, JobsApart', FatesFit, FatesFit', [Next]_vars, Die
  PROVE  Trail!Lose
<1>1. /\ submitted' = submitted /\ sealed' = sealed /\ dropped' = dropped
      /\ lost' = lost \cup (submitted \ (sealed \cup dropped)) /\ local' = local
  BY DEF Die, StoreDies
<1>2. ASSUME NEW j \in Job
      PROVE  Fate(j)' = IF Fate(j) = "pending" THEN "lost" ELSE Fate(j)
  <2>1. CASE j \in Pending
    <3>1. j \in lost'
      BY <1>1, <2>1 DEF JobsApart, Pending
    <3> QED
      BY <2>1, <3>1 DEF FatesFit
  <2>2. CASE j \notin Pending
    <3>1. Fate(j)' = Fate(j)
      BY <1>1, <2>2, SamePlaceSameFate
    <3>2. Fate(j) # "pending"
      BY <2>2, EachHasAPlace DEF FatesFit
    <3> QED
      BY <3>1, <3>2
  <2> QED
    BY <2>1, <2>2
<1>3. Fates' = [j \in Job |-> IF Fates[j] = "pending" THEN "lost" ELSE Fates[j]]
  BY <1>2 DEF Fates
<1> QED
  BY <1>1, <1>3 DEF Trail!Lose, Fates

\* The queue, its thread, the shutdown and the crashes implement the trail an
\* auditor relies on: one fate per request, a request counted as sealed only with
\* its seal on disk, and no seal there before its records (gate G1c).
THEOREM WriterKeepsTheTrail == Spec => ImplementsAuditTrail
<1>1. Init => Trail!Init
  BY EmptyQueue
  DEF Init, StoreInit, Trail!Init, Fate, Waiting, Members, InWork
<1>2. ASSUME TypeOK, JobsApart, PutIsOnDisk, JobsApart', FatesFit, FatesFit', [Next]_vars
      PROVE  [Trail!Next]_(Trail!vars)
  <2>1. ASSUME NEW j \in Job, Submit(j) PROVE Trail!Next
    BY <1>2, <2>1, SubmitAccepts DEF Trail!Next
  <2>2. CASE QueueNext \/ JobFails
    BY <1>2, <2>2, JobEnds DEF Trail!Next
  <2>3. CASE Die
    BY <1>2, <2>3, DieLoses DEF Trail!Next
  <2>4. CASE ~(Die \/ QueueNext \/ JobFails \/ \E j \in Job : Submit(j))
    <3>1. UNCHANGED <<submitted, sealed, dropped, lost>>
      BY <1>2, <2>4 DEF Next, vars, WriterStep, TakeJob, WriterStops, WriteNext, Sync, Shutdown,
        MainStep, StopWriter, JoinWriter, StopStore, JoinSync, writerVars, mainVars,
        historyVars
    <3>2. Pending' = Pending
      <4>1. CASE TakeJob \/ WriterStops \/ StopWriter
        BY <1>2, <4>1, PendingSteps
      <4>2. CASE ~(TakeJob \/ WriterStops \/ StopWriter)
        <5>1. jobQ' = jobQ /\ inHand' = inHand
          BY <1>2, <2>4, <4>2 DEF Next, vars, WriterStep, WriteNext, Sync, Shutdown, MainStep,
            JoinWriter, StopStore, JoinSync, writerVars
        <5> QED
          BY <5>1 DEF Pending, Waiting, InWork
      <4> QED
        BY <4>1, <4>2
    <3>3. Fates' = Fates
      BY <1>2, <3>1, <3>2, SamePlaceSameFate DEF Fates
    <3>4. CASE WriteNext
      BY <1>2, <3>3, <3>4, WritePuts DEF Trail!Next
    <3>5. CASE ~WriteNext
      BY <1>2, <3>3, <3>5, LocalGrows DEF Trail!vars, Fates
    <3> QED
      BY <3>4, <3>5
  <2> QED
    BY <2>1, <2>2, <2>3, <2>4
<1>3. Init => PutIsOnDisk
  BY DEF Init, PutIsOnDisk
<1> QED
  BY <1>1, <1>2, <1>3, ProgressIsOnDisk, JobsApartInvariant, PlacesGiveFates, TypeCorrect, PTL
  DEF Spec, ImplementsAuditTrail, Trail!Spec

-----------------------------------------------------------------------------
(* A shutdown that was waited for leaves nothing behind.                    *)

LEMMA QueueGrows ==
  ASSUME NEW T, NEW q \in Seq(T), NEW x \in T, NoSentinel(q)
  PROVE  /\ x # None => NoSentinel(Append(q, x))
         /\ x = None => EndsWithSentinel(Append(q, x))
<1>1. /\ Len(q) \in Nat /\ Len(Append(q, x)) = Len(q) + 1
      /\ Append(q, x)[Len(q) + 1] = x
      /\ \A i \in 1 .. Len(q) : Append(q, x)[i] = q[i]
  OBVIOUS
<1>2. \A i \in 1 .. Len(q) + 1 : i \in 1 .. Len(q) \/ i = Len(q) + 1
  BY <1>1
<1> QED
  BY <1>1, <1>2 DEF NoSentinel, EndsWithSentinel

LEMMA QueueShrinks ==
  ASSUME NEW T, NEW q \in Seq(T), q # <<>>
  PROVE  /\ NoSentinel(q) => NoSentinel(Tail(q)) /\ Head(q) # None
         /\ EndsWithSentinel(q) /\ Head(q) # None => EndsWithSentinel(Tail(q))
         /\ EndsWithSentinel(q) /\ Head(q) = None => Tail(q) = <<>>
<1>1. /\ Len(q) \in Nat \ {0} /\ Len(Tail(q)) = Len(q) - 1 /\ Tail(q) \in Seq(T)
      /\ Head(q) = q[1] /\ 1 \in 1 .. Len(q)
      /\ \A i \in 1 .. Len(q) - 1 : Tail(q)[i] = q[i + 1] /\ i + 1 \in 1 .. Len(q)
  OBVIOUS
<1>2. NoSentinel(q) => NoSentinel(Tail(q)) /\ Head(q) # None
  BY <1>1 DEF NoSentinel
<1>3. ASSUME EndsWithSentinel(q), Head(q) # None PROVE EndsWithSentinel(Tail(q))
  <2>1. /\ Len(q) # 1
        /\ \A i \in 1 .. Len(q) : q[i] = None <=> i = Len(q)
    BY <1>1, <1>3 DEF EndsWithSentinel
  <2>2. \A i \in 1 .. Len(q) - 1 : Tail(q)[i] = None <=> i + 1 = Len(q)
    BY <1>1, <2>1
  <2>3. Len(Tail(q)) > 0
    <3>1. Len(q) \in Nat \ {0, 1}
      BY <1>1, <2>1
    <3>2. Len(Tail(q)) = Len(q) - 1
      BY <1>1
    <3> QED
      BY <3>1, <3>2
  <2>4. ASSUME NEW i \in 1 .. Len(Tail(q)) PROVE Tail(q)[i] = None <=> i = Len(Tail(q))
    <3>1. i \in 1 .. Len(q) - 1 /\ i \in Nat /\ (i + 1 = Len(q) <=> i = Len(Tail(q)))
      BY <1>1
    <3> QED
      BY <2>2, <3>1
  <2> QED
    BY <2>3, <2>4 DEF EndsWithSentinel
<1>4. ASSUME EndsWithSentinel(q), Head(q) = None PROVE Tail(q) = <<>>
  <2>1. Len(q) = 1
    BY <1>1, <1>4 DEF EndsWithSentinel
  <2>2. Len(Tail(q)) = 0
    BY <1>1, <2>1
  <2> QED
    BY <1>1, <2>2, EmptySeq
<1> QED
  BY <1>2, <1>3, <1>4

LEMMA WriterHalfStep ==
  ASSUME TypeOK, WriterStopsLast, [Next]_vars
  PROVE  WriterStopsLast'
<1> DEFINE J == Job \cup {None}
<1>0. /\ jobQ \in Seq(J) /\ main \in Main /\ writer \in {"running", "stopped"}
      /\ timedOut \in BOOLEAN
  BY DEF TypeOK, WriterTypeOK, BooksTypeOK
<1>1. ASSUME NEW j \in Job, Submit(j) PROVE WriterStopsLast'
  <2>1. /\ main = "serving" /\ main' = "serving" /\ writer' = writer
        /\ jobQ' = jobQ \/ jobQ' = Append(jobQ, j)
    BY <1>1 DEF Submit
  <2>2. NoSentinel(jobQ) /\ writer = "running"
    BY <2>1 DEF WriterStopsLast
  <2>3. j \in J /\ j # None
    BY WriterAssumption
  <2>4. NoSentinel(Append(jobQ, j))
    BY <1>0, <2>2, <2>3, QueueGrows
  <2> QED
    BY <2>1, <2>2, <2>4 DEF WriterStopsLast
<1>2. CASE TakeJob
  <2>1. /\ jobQ # <<>> /\ jobQ' = Tail(jobQ) /\ Head(jobQ) # None
        /\ writer = "running" /\ writer' = writer /\ main' = main /\ timedOut' = timedOut
    BY <1>2 DEF TakeJob, mainVars
  <2>2. /\ NoSentinel(jobQ) => NoSentinel(Tail(jobQ))
        /\ EndsWithSentinel(jobQ) => EndsWithSentinel(Tail(jobQ))
    BY <1>0, <2>1, QueueShrinks
  <2> QED
    BY <2>1, <2>2 DEF WriterStopsLast
<1>3. CASE WriterStops
  <2>1. /\ jobQ # <<>> /\ jobQ' = Tail(jobQ) /\ Head(jobQ) = None /\ inHand' = None
        /\ writer = "running" /\ writer' = "stopped" /\ main' = main /\ timedOut' = timedOut
    BY <1>3 DEF WriterStops, mainVars
  <2>2. ~NoSentinel(jobQ) /\ (EndsWithSentinel(jobQ) => Tail(jobQ) = <<>>)
    BY <1>0, <2>1, QueueShrinks
  <2> QED
    BY <2>1, <2>2 DEF WriterStopsLast
<1>4. CASE WriteNext \/ QueueNext \/ JobFails
  <2>1. UNCHANGED <<main, timedOut, writer, jobQ>> /\ inHand # None
    BY <1>4 DEF WriteNext, QueueNext, JobFails, mainVars
  <2> QED
    BY <2>1 DEF WriterStopsLast, NoSentinel
<1>5. CASE Sync \/ StopStore \/ JoinSync
  <2>1. /\ UNCHANGED <<writer, jobQ, inHand>>
        /\ timedOut' = timedOut \/ (main = "joinSync" /\ timedOut' = (timedOut \/ syncer = "running"))
        /\ \/ main' = main
           \/ main \in {"stopStore", "joinSync"} /\ main' \in {"joinSync", "closed"}
    BY <1>5 DEF Sync, StopStore, JoinSync, writerVars, mainVars
  <2> QED
    BY <1>0, <2>1 DEF WriterStopsLast, NoSentinel
<1>6. CASE Shutdown
  BY <1>6 DEF Shutdown, WriterStopsLast, writerVars, NoSentinel
<1>7. CASE StopWriter
  <2>1. /\ main = "stopWriter" /\ main' = "joinWriter" /\ jobQ' = Append(jobQ, None)
        /\ writer' = writer
    BY <1>7 DEF StopWriter
  <2>2. NoSentinel(jobQ) /\ writer = "running" /\ None \in J
    BY <2>1 DEF WriterStopsLast
  <2>3. EndsWithSentinel(Append(jobQ, None))
    BY <1>0, <2>2, QueueGrows
  <2> QED
    BY <2>1, <2>2, <2>3 DEF WriterStopsLast
<1>8. CASE JoinWriter
  <2>1. /\ main = "joinWriter" /\ main' \in {"stopStore", "closed"}
        /\ timedOut' = (timedOut \/ writer = "running") /\ UNCHANGED <<writer, jobQ, inHand>>
    BY <1>8 DEF JoinWriter, writerVars
  <2>2. IF writer = "stopped" THEN jobQ = <<>> /\ inHand = None ELSE EndsWithSentinel(jobQ)
    BY <2>1 DEF WriterStopsLast
  <2>3. ~timedOut' => writer' = "stopped"
    BY <1>0, <2>1
  <2>4. main' \notin {"serving", "stopWriter"}
    BY <2>1
  <2>5. IF writer' = "stopped" THEN jobQ' = <<>> /\ inHand' = None ELSE EndsWithSentinel(jobQ')
    BY <2>1, <2>2
  <2> QED
    BY <2>3, <2>4, <2>5 DEF WriterStopsLast, NoSentinel
<1>9. CASE Die
  <2>1. main' = "serving" /\ writer' = "running" /\ jobQ' = <<>>
    BY <1>9 DEF Die
  <2> QED
    BY <2>1 DEF WriterStopsLast, NoSentinel
<1>10. CASE UNCHANGED vars
  BY <1>10 DEF vars, writerVars, mainVars, WriterStopsLast, NoSentinel
<1> QED
  BY <1>1, <1>2, <1>3, <1>4, <1>5, <1>6, <1>7, <1>8, <1>9, <1>10 DEF Next, WriterStep, MainStep

LEMMA StoreHalfStep ==
  ASSUME TypeOK, WriterStopsLast, StoreStopsLast, [Next]_vars
  PROVE  StoreStopsLast'
<1> DEFINE O == Object \cup {None}
<1>0. /\ syncQ \in Seq(O) /\ main \in Main /\ syncer \in {"running", "stopped"}
      /\ timedOut \in BOOLEAN /\ WithFabric \in BOOLEAN
  BY StoreAssumption DEF TypeOK, StoreTypeOK, BooksTypeOK
<1>1. CASE QueueNext
  <2> DEFINE o == Puts(inHand)[done + 1]
  <2>1. o \in O /\ o # None /\ inHand # None
    BY <1>1, ChainAssumption, StoreAssumption DEF QueueNext, TypeOK, WriterTypeOK, Puts
  <2>2. /\ UNCHANGED <<main, timedOut, syncer, uploading>>
        /\ syncQ' = syncQ \/ (WithFabric /\ syncQ' = Append(syncQ, o))
    BY <1>1 DEF QueueNext, Enqueue, mainVars
  <2>3. main \in {"joinSync", "closed"} => timedOut
    BY <1>0, <2>1 DEF WriterStopsLast
  <2>4. NoSentinel(syncQ) => NoSentinel(syncQ')
    <3>1. NoSentinel(syncQ) => NoSentinel(Append(syncQ, o))
      BY <1>0, <2>1, QueueGrows
    <3> QED
      BY <2>2, <3>1
  <2> QED
    BY <1>0, <2>2, <2>3, <2>4 DEF StoreStopsLast, NoSentinel
<1>2. CASE Sync /\ TakeObject
  <2>1. /\ syncQ # <<>> /\ syncQ' = Tail(syncQ) /\ Head(syncQ) # None /\ WithFabric
        /\ syncer = "running" /\ syncer' = syncer /\ main' = main /\ timedOut' = timedOut
    BY <1>2 DEF Sync, TakeObject, Syncing, mainVars
  <2>2. /\ NoSentinel(syncQ) => NoSentinel(Tail(syncQ))
        /\ EndsWithSentinel(syncQ) => EndsWithSentinel(Tail(syncQ))
    BY <1>0, <2>1, QueueShrinks
  <2> QED
    BY <2>1, <2>2 DEF StoreStopsLast
<1>3. CASE Sync /\ SyncStops
  <2>1. /\ syncQ # <<>> /\ syncQ' = Tail(syncQ) /\ Head(syncQ) = None /\ WithFabric
        /\ syncer = "running" /\ syncer' = "stopped" /\ main' = main /\ timedOut' = timedOut
        /\ uploading' = None
    BY <1>3 DEF Sync, SyncStops, Syncing, mainVars
  <2>2. ~NoSentinel(syncQ) /\ (EndsWithSentinel(syncQ) => Tail(syncQ) = <<>>)
    BY <1>0, <2>1, QueueShrinks
  <2> QED
    BY <2>1, <2>2 DEF StoreStopsLast
<1>4. CASE Sync /\ (UploadOk \/ UploadFails)
  <2>1. UNCHANGED <<main, timedOut, syncer, syncQ>> /\ uploading # None /\ uploading' = None
    BY <1>4 DEF Sync, UploadOk, UploadFails, mainVars
  <2> QED
    BY <2>1 DEF StoreStopsLast, NoSentinel
<1>5. CASE TakeJob \/ WriterStops \/ WriteNext \/ JobFails \/ Shutdown \/ StopWriter
           \/ \E j \in Job : Submit(j)
  <2>1. /\ UNCHANGED <<timedOut, syncer, syncQ, uploading>>
        /\ main' = main \/ (main \in {"serving", "stopWriter"} /\ main' \in {"stopWriter", "joinWriter"})
    BY <1>5 DEF TakeJob, WriterStops, WriteNext, WriteLocal, JobFails, WriteFails, Shutdown,
      StopWriter, Submit, storeVars, mainVars
  <2> QED
    BY <2>1 DEF StoreStopsLast, NoSentinel
<1>6. CASE JoinWriter
  <2>1. /\ main = "joinWriter" /\ main' = (IF WithFabric THEN "stopStore" ELSE "closed")
        /\ UNCHANGED <<syncer, syncQ, uploading>>
    BY <1>6 DEF JoinWriter, storeVars
  <2>2. syncer = "running" /\ NoSentinel(syncQ) /\ (~WithFabric => syncQ = <<>> /\ uploading = None)
    BY <2>1 DEF StoreStopsLast
  <2> QED
    BY <2>1, <2>2 DEF StoreStopsLast
<1>7. CASE StopStore
  <2>1. /\ main = "stopStore" /\ main' = "joinSync" /\ syncQ' = Append(syncQ, None)
        /\ UNCHANGED <<syncer, uploading>>
    BY <1>7 DEF StopStore, CloseStore
  <2>2. NoSentinel(syncQ) /\ syncer = "running" /\ WithFabric /\ None \in O
    BY <2>1 DEF StoreStopsLast
  <2>3. EndsWithSentinel(Append(syncQ, None))
    BY <1>0, <2>2, QueueGrows
  <2> QED
    BY <2>1, <2>2, <2>3 DEF StoreStopsLast
<1>8. CASE JoinSync
  <2>1. /\ main = "joinSync" /\ main' = "closed" /\ UNCHANGED <<syncer, syncQ, uploading>>
        /\ timedOut' = (timedOut \/ syncer = "running")
    BY <1>8 DEF JoinSync, storeVars
  <2>2. ~timedOut' => ~timedOut /\ syncer = "stopped"
    BY <1>0, <2>1
  <2>3. WithFabric
    BY <2>1 DEF StoreStopsLast
  <2>4. ~timedOut' => syncer' = "stopped" /\ syncQ' = <<>> /\ uploading' = None
    BY <2>1, <2>2, <2>3 DEF StoreStopsLast
  <2> QED
    BY <2>1, <2>3, <2>4 DEF StoreStopsLast
<1>9. CASE Die
  <2>1. /\ main' = "serving" /\ syncer' = "running" /\ syncQ' = <<>> /\ uploading' = None
    BY <1>9 DEF Die, StoreDies
  <2> QED
    BY <2>1 DEF StoreStopsLast, NoSentinel
<1>10. CASE UNCHANGED vars
  BY <1>10 DEF vars, storeVars, mainVars, StoreStopsLast, NoSentinel
<1> QED
  BY <1>1, <1>2, <1>3, <1>4, <1>5, <1>6, <1>7, <1>8, <1>9, <1>10
  DEF Next, WriterStep, MainStep, Sync, SyncStep

\* The sentinels and joins of shutdown do what they are for: if no join timed
\* out, every job met its fate and every object was uploaded or counted.
THEOREM ShutdownIsComplete == Spec => []GracefulShutdown
<1>1. Init => WriterStopsLast /\ StoreStopsLast
  BY DEF Init, StoreInit, WriterStopsLast, StoreStopsLast, NoSentinel
<1>2. ASSUME TypeOK, JobsApart, WriterStopsLast, StoreStopsLast PROVE GracefulShutdown
  <2> SUFFICES ASSUME main = "closed", ~timedOut
               PROVE  submitted = sealed \cup dropped \cup lost /\ Owed = 0
    BY DEF GracefulShutdown
  <2>1. jobQ = <<>> /\ inHand = None
    BY <1>2 DEF WriterStopsLast
  <2>2. Waiting = {} /\ InWork = {}
    BY <2>1, WaitingIsQueued, EmptyQueue DEF InWork
  <2>3. syncQ = <<>> /\ uploading = None /\ ~written
    BY <1>2, <2>1, StoreAssumption DEF StoreStopsLast, TypeOK, WriterTypeOK
  <2>4. Owed = 0
    BY <2>3, OwedBySum, EmptyQueue, FS_EmptySet
  <2> QED
    BY <1>2, <2>2, <2>4 DEF JobsApart
<1> QED
  BY <1>1, <1>2, WriterHalfStep, StoreHalfStep, JobsApartInvariant, TypeCorrect, PTL DEF Spec

-----------------------------------------------------------------------------
(* No seal overtakes its records on the way to the fabric.                  *)

\* Records are objects, so never the mark of an empty hand.
LEMMA RecordsAreObjects ==
  ASSUME NEW j \in Job
  PROVE  Records(j) \subseteq Object /\ None \notin Records(j)
BY ChainAssumption, StoreAssumption DEF Records

\* The next object is a record, or the seal when all records were put.
LEMMA NextIsSealLast ==
  ASSUME TypeOK, inHand # None, NEW j \in Job, Puts(inHand)[done + 1] = SealOf[j]
  PROVE  done = Len(Chain[inHand]) /\ Records(j) = Records(inHand)
<1>1. inHand \in Job /\ done \in 0 .. Len(Chain[inHand]) /\ Len(Chain[inHand]) \in Nat
  BY PutsAreRecordsThenSeal DEF TypeOK, WriterTypeOK
<1>2. done = Len(Chain[inHand])
  <2> SUFFICES ASSUME done < Len(Chain[inHand]) PROVE FALSE
    BY <1>1
  <2>1. Puts(inHand)[done + 1] \in Records(inHand)
    BY <1>1, PutsAreRecordsThenSeal DEF Records
  <2> QED
    BY <1>1, <2>1, ChainAssumption
<1>3. SealOf[j] = SealOf[inHand]
  BY <1>1, <1>2, PutsAreRecordsThenSeal
<1>4. Chain[j] = Chain[inHand]
  BY <1>1, <1>3, ChainAssumption
<1> QED
  BY <1>2, <1>4 DEF Records

LEMMA FailuresCount ==
  ASSUME TypeOK, [Next]_vars
  PROVE  failed' = 0 => failed = 0 /\ ~(Sync /\ UploadFails)
BY DEF TypeOK, StoreTypeOK, Next, vars, storeVars, WriterStep, TakeJob, WriterStops,
  WriteNext, WriteLocal, QueueNext, Enqueue, JobFails, WriteFails, Sync, SyncStep,
  TakeObject, SyncStops, UploadOk, UploadFails, Submit, Shutdown, MainStep, StopWriter,
  JoinWriter, StopStore, CloseStore, JoinSync, Die, StoreDies

\* A step that takes nothing off the way, and puts nothing on it.
LEMMA WayFrame ==
  ASSUME TypeOK, UploadsInOrder, failed = 0, failed' = 0, syncQ' = syncQ,
         uploading' \in {uploading, None}, remote \subseteq remote',
         uploading' = uploading \/ uploading \in remote',
         inHand' # None /\ WithFabric =>
            done' = 0 \/ (inHand # None /\ inHand' = inHand /\ done' = done)
  PROVE  UploadsInOrder'
<1>1. \A n : Ahead(n) \subseteq Ahead(n)' \cup {None}
  BY DEF Ahead
<1>2. ASSUME NEW j \in Job, uploading' = SealOf[j] PROVE Records(j) \subseteq remote'
  BY <1>2, ChainAssumption, StoreAssumption DEF UploadsInOrder
<1>3. ASSUME NEW j \in Job, NEW n \in 1 .. Len(syncQ'), syncQ'[n] = SealOf[j]
      PROVE  Records(j) \subseteq Ahead(n - 1)'
  <2>1. Records(j) \subseteq Ahead(n - 1)
    BY <1>3 DEF UploadsInOrder
  <2> QED
    BY <1>1, <2>1, RecordsAreObjects
<1>4. ASSUME inHand' # None, WithFabric, NEW i \in 1 .. done'
      PROVE  Puts(inHand')[i] \in Ahead(Len(syncQ))'
  <2>1. inHand # None /\ inHand' = inHand /\ done' = done
    BY <1>4
  <2>2. inHand \in Job /\ done \in 0 .. Len(Chain[inHand])
    BY <2>1, PutsAreRecordsThenSeal DEF TypeOK, WriterTypeOK
  <2>3. Puts(inHand)[i] \in Ahead(Len(syncQ))
    BY <1>4, <2>1 DEF UploadsInOrder
  <2>4. Puts(inHand)[i] # None
    BY <1>4, <2>1, <2>2, PutsAreRecordsThenSeal, RecordsAreObjects DEF Records
  <2> QED
    BY <1>1, <2>1, <2>3, <2>4
<1> QED
  BY <1>2, <1>3, <1>4 DEF UploadsInOrder, Puts, Records

\* An object joins the end of the way.
LEMMA WayGrows ==
  ASSUME TypeOK, UploadsInOrder, failed = 0, NEW x \in Object \cup {None},
         syncQ' = Append(syncQ, x), uploading' = uploading, remote' = remote,
         \A j \in Job : x = SealOf[j] => Records(j) \subseteq Ahead(Len(syncQ)),
         \/ inHand' = None
         \/ inHand' = inHand /\ done' = done
         \/ inHand' = inHand /\ done' = done + 1 /\ x = Puts(inHand)[done + 1]
  PROVE  UploadsInOrder'
<1> DEFINE After(n) == remote' \cup {uploading'} \cup {syncQ'[i] : i \in 1 .. n}
<1>1. /\ Len(syncQ) \in Nat /\ Len(syncQ') = Len(syncQ) + 1
      /\ syncQ'[Len(syncQ) + 1] = x
      /\ \A i \in 1 .. Len(syncQ) : syncQ'[i] = syncQ[i]
  BY DEF TypeOK, StoreTypeOK
<1>2. \A n \in 0 .. Len(syncQ) : After(n) = Ahead(n)
  BY <1>1 DEF Ahead
<1>3. After(Len(syncQ')) = Ahead(Len(syncQ)) \cup {x}
  <2>1. 1 .. Len(syncQ') = (1 .. Len(syncQ)) \cup {Len(syncQ) + 1}
    BY <1>1
  <2>2. {syncQ'[i] : i \in 1 .. Len(syncQ')} = {syncQ[i] : i \in 1 .. Len(syncQ)} \cup {x}
    BY <1>1, <2>1
  <2> QED
    BY <2>2 DEF Ahead
<1>4. ASSUME NEW j \in Job, uploading' = SealOf[j] PROVE Records(j) \subseteq remote'
  BY <1>4 DEF UploadsInOrder
<1>5. ASSUME NEW j \in Job, NEW n \in 1 .. Len(syncQ'), syncQ'[n] = SealOf[j]
      PROVE  Records(j) \subseteq After(n - 1)
  <2>1. CASE n = Len(syncQ) + 1
    <3>1. x = SealOf[j] /\ n - 1 = Len(syncQ) /\ Len(syncQ) \in 0 .. Len(syncQ)
      BY <1>1, <1>5, <2>1
    <3> QED
      BY <1>2, <3>1
  <2>2. CASE n \in 1 .. Len(syncQ)
    <3>1. Records(j) \subseteq Ahead(n - 1)
      BY <1>1, <1>5, <2>2 DEF UploadsInOrder
    <3>2. n - 1 \in 0 .. Len(syncQ)
      BY <1>1, <2>2
    <3> QED
      BY <1>2, <3>1, <3>2
  <2> QED
    BY <1>1, <2>1, <2>2
<1>6. ASSUME inHand' # None, WithFabric, NEW i \in 1 .. done'
      PROVE  Puts(inHand')[i] \in After(Len(syncQ'))
  <2>1. inHand' = inHand /\ inHand # None /\ done \in Nat
    BY <1>6 DEF TypeOK, WriterTypeOK
  <2>2. CASE i \in 1 .. done
    BY <1>3, <1>6, <2>1, <2>2 DEF UploadsInOrder
  <2>3. CASE i \notin 1 .. done
    <3>1. i = done + 1 /\ x = Puts(inHand)[done + 1]
      BY <1>6, <2>1, <2>3
    <3> QED
      BY <1>3, <2>1, <3>1
  <2> QED
    BY <2>2, <2>3
<1> QED
  BY <1>4, <1>5, <1>6 DEF UploadsInOrder, Ahead, Puts, Records

\* The sync thread takes the first of the queue off it.
LEMMA WayAdvances ==
  ASSUME TypeOK, UploadsInOrder, failed = 0, uploading = None, syncQ # <<>>,
         syncQ' = Tail(syncQ), uploading' = Head(syncQ), remote' = remote,
         UNCHANGED <<inHand, done>>
  PROVE  UploadsInOrder'
<1> DEFINE After(n) == remote' \cup {uploading'} \cup {syncQ'[i] : i \in 1 .. n}
<1>1. /\ Len(syncQ) \in Nat \ {0} /\ Len(syncQ') = Len(syncQ) - 1
      /\ uploading' = syncQ[1] /\ 1 \in 1 .. Len(syncQ)
      /\ \A i \in 1 .. Len(syncQ) - 1 : syncQ'[i] = syncQ[i + 1]
  BY DEF TypeOK, StoreTypeOK
<1>2. ASSUME NEW n \in 1 .. Len(syncQ) PROVE Ahead(n) \subseteq After(n - 1) \cup {None}
  <2>1. ASSUME NEW i \in 1 .. n PROVE syncQ[i] \in After(n - 1)
    <3>1. CASE i = 1
      BY <1>1, <3>1
    <3>2. CASE i # 1
      <4>1. i - 1 \in 1 .. n - 1 /\ i - 1 \in 1 .. Len(syncQ) - 1 /\ (i - 1) + 1 = i
        BY <1>1, <3>2
      <4>2. syncQ'[i - 1] = syncQ[i]
        BY <1>1, <4>1
      <4> QED
        BY <4>1, <4>2
    <3> QED
      BY <3>1, <3>2
  <2> QED
    BY <2>1 DEF Ahead
<1>3. ASSUME NEW j \in Job, uploading' = SealOf[j] PROVE Records(j) \subseteq remote'
  <2>1. Records(j) \subseteq Ahead(1 - 1)
    BY <1>1, <1>3 DEF UploadsInOrder
  <2>2. Ahead(1 - 1) = remote \cup {None}
    BY DEF Ahead
  <2> QED
    BY <2>1, <2>2, RecordsAreObjects
<1>4. ASSUME NEW j \in Job, NEW n \in 1 .. Len(syncQ'), syncQ'[n] = SealOf[j]
      PROVE  Records(j) \subseteq After(n - 1)
  <2>1. n \in 1 .. Len(syncQ) /\ n + 1 \in 1 .. Len(syncQ) /\ (n + 1) - 1 = n
    BY <1>1, <1>4
  <2>2. syncQ[n + 1] = SealOf[j]
    BY <1>1, <1>4
  <2>3. Records(j) \subseteq Ahead(n)
    BY <2>1, <2>2 DEF UploadsInOrder
  <2> QED
    BY <1>2, <2>1, <2>3, RecordsAreObjects
<1>5. ASSUME inHand' # None, WithFabric, NEW i \in 1 .. done'
      PROVE  Puts(inHand')[i] \in After(Len(syncQ'))
  <2>1. inHand' = inHand /\ done' = done
    OBVIOUS
  <2>2. inHand \in Job /\ done \in 0 .. Len(Chain[inHand])
    BY <1>5, <2>1, PutsAreRecordsThenSeal DEF TypeOK, WriterTypeOK
  <2>3. Puts(inHand)[i] \in Ahead(Len(syncQ))
    BY <1>5, <2>1 DEF UploadsInOrder
  <2>4. Puts(inHand)[i] # None
    BY <1>5, <2>1, <2>2, PutsAreRecordsThenSeal, RecordsAreObjects DEF Records
  <2>5. Len(syncQ) \in 1 .. Len(syncQ) /\ Len(syncQ') = Len(syncQ) - 1
    BY <1>1
  <2>6. Ahead(Len(syncQ)) \subseteq After(Len(syncQ) - 1) \cup {None}
    BY <1>2, <2>5
  <2> QED
    BY <2>1, <2>3, <2>4, <2>5, <2>6
<1> QED
  BY <1>3, <1>4, <1>5 DEF UploadsInOrder, Ahead, Puts, Records

LEMMA OrderIsKept ==
  ASSUME TypeOK, UploadsInOrder, [Next]_vars
  PROVE  UploadsInOrder'
<1> SUFFICES ASSUME failed' = 0 PROVE UploadsInOrder'
  BY DEF UploadsInOrder
<1>0. failed = 0 /\ ~(Sync /\ UploadFails)
  BY FailuresCount
<1>1. CASE QueueNext
  <2> DEFINE o == Puts(inHand)[done + 1]
  <2>1. inHand # None /\ o \in Object
    BY <1>1, ChainAssumption DEF QueueNext, TypeOK, WriterTypeOK, Puts
  <2>2. /\ uploading' = uploading /\ remote' = remote
        /\ \/ WithFabric /\ syncQ' = Append(syncQ, o)
           \/ ~WithFabric /\ syncQ' = syncQ
        /\ inHand' = None \/ (inHand' = inHand /\ done' = done + 1)
    BY <1>0, <1>1, StoreAssumption DEF QueueNext, Enqueue, TypeOK, StoreTypeOK
  <2>3. CASE WithFabric /\ syncQ' = Append(syncQ, o)
    <3>1. ASSUME NEW j \in Job, o = SealOf[j] PROVE Records(j) \subseteq Ahead(Len(syncQ))
      <4>1. done = Len(Chain[inHand]) /\ Records(j) = Records(inHand) /\ inHand \in Job
        BY <2>1, <3>1, NextIsSealLast DEF TypeOK, WriterTypeOK
      <4>2. \A i \in 1 .. done : Chain[inHand][i] \in Ahead(Len(syncQ))
        BY <1>0, <2>1, <2>3, <4>1, PutsAreRecordsThenSeal DEF UploadsInOrder
      <4> QED
        BY <4>1, <4>2 DEF Records
    <3> QED
      BY <1>0, <2>1, <2>2, <2>3, <3>1, WayGrows
  <2>4. CASE ~WithFabric /\ syncQ' = syncQ
    BY <1>0, <2>2, <2>4, WayFrame
  <2> QED
    BY <2>2, <2>3, <2>4
<1>2. CASE Sync /\ (TakeObject \/ SyncStops)
  <2>1. /\ uploading = None /\ syncQ # <<>> /\ syncQ' = Tail(syncQ) /\ remote' = remote
        /\ uploading' = Head(syncQ) /\ UNCHANGED <<inHand, done>>
    BY <1>2 DEF Sync, TakeObject, SyncStops, Syncing, writerVars
  <2> QED
    BY <1>0, <2>1, WayAdvances
<1>3. CASE StopStore
  <2>1. /\ syncQ' = Append(syncQ, None) /\ UNCHANGED <<uploading, remote, inHand, done>>
    BY <1>3 DEF StopStore, CloseStore, writerVars
  <2> QED
    BY <1>0, <2>1, WayGrows, ChainAssumption, StoreAssumption
<1>4. CASE Die
  <2>1. syncQ' = <<>> /\ uploading' = None /\ inHand' = None
    BY <1>4 DEF Die, StoreDies
  <2> QED
    BY <2>1, ChainAssumption, StoreAssumption DEF UploadsInOrder
<1>5. CASE ~(QueueNext \/ StopStore \/ Die \/ (Sync /\ (TakeObject \/ SyncStops)))
  <2>1. /\ syncQ' = syncQ /\ uploading' \in {uploading, None} /\ remote \subseteq remote'
        /\ uploading' = uploading \/ uploading \in remote'
    BY <1>0, <1>5 DEF Next, vars, storeVars, WriterStep, TakeJob, WriterStops, WriteNext,
      WriteLocal, JobFails, WriteFails, Sync, SyncStep, UploadOk, Submit, Shutdown,
      MainStep, StopWriter, JoinWriter, JoinSync
  <2>2. inHand' # None =>
          done' = 0 \/ (inHand # None /\ inHand' = inHand /\ done' = done)
    BY <1>5 DEF Next, vars, WriterStep, TakeJob, WriterStops, WriteNext, JobFails, Sync,
      Submit, Shutdown, MainStep, StopWriter, JoinWriter, JoinSync, writerVars, TypeOK,
      WriterTypeOK
  <2> QED
    BY <1>0, <2>1, <2>2, WayFrame
<1> QED
  BY <1>1, <1>2, <1>3, <1>4, <1>5

\* Whoever finds a seal on the fabric finds its records there, as long as no
\* upload failed: the queue and the one thread keep the order of the puts.
THEOREM RemoteSealsAreBacked == Spec => []RemoteSealIsBacked
<1>1. Init => UploadsInOrder /\ RemoteSealIsBacked
  BY ChainAssumption, StoreAssumption DEF Init, StoreInit, UploadsInOrder, RemoteSealIsBacked
<1>2. TypeOK /\ UploadsInOrder /\ RemoteSealIsBacked /\ [Next]_vars => RemoteSealIsBacked'
  <2> SUFFICES ASSUME TypeOK, UploadsInOrder, RemoteSealIsBacked, [Next]_vars, failed' = 0,
                      NEW j \in Job, SealOf[j] \in remote'
               PROVE  Records(j) \subseteq remote'
    BY DEF RemoteSealIsBacked, Records
  <2>1. failed = 0 /\ ~(Sync /\ UploadFails)
    BY FailuresCount
  <2>2. remote' = remote \/ remote' = remote \cup {uploading}
    BY <2>1 DEF Next, vars, storeVars, WriterStep, TakeJob, WriterStops, WriteNext,
      WriteLocal, QueueNext, Enqueue, JobFails, WriteFails, Sync, SyncStep, TakeObject,
      SyncStops, UploadOk, Submit, Shutdown, MainStep, StopWriter, JoinWriter, StopStore,
      CloseStore, JoinSync, Die, StoreDies
  <2>3. CASE SealOf[j] \in remote
    BY <2>1, <2>2, <2>3 DEF RemoteSealIsBacked
  <2>4. CASE SealOf[j] \notin remote
    BY <2>1, <2>2, <2>4 DEF UploadsInOrder
  <2> QED
    BY <2>3, <2>4
<1> QED
  BY <1>1, <1>2, OrderIsKept, TypeCorrect, PTL DEF Spec
=============================================================================
