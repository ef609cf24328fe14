--------------------------- MODULE WitnessWriter ---------------------------
(***************************************************************************)
(* The witness path of the connector (_WitnessWriter in connector.py): the *)
(* scheduler's thread hands every finished request to a bounded queue, a   *)
(* daemon thread builds its chain and puts the block records and then the  *)
(* seal into the KappaStore, whose own thread uploads them.  shutdown      *)
(* closes the writer and then the store, with a timeout on each thread;    *)
(* the process may also die at any moment and be started again.            *)
(***************************************************************************)
EXTENDS KappaStore, FiniteSets

CONSTANTS
    Job,        \* finished requests
    Chain,      \* Chain[j]: the block-witness records of j, in order
    SealOf,     \* SealOf[j]: its seal
    JobBound,   \* bound of the writer's queue (2048 in the code)
    MaxDeaths   \* bound: how often the process dies before it is shut down

Records(j) == {Chain[j][i] : i \in 1 .. Len(Chain[j])}

\* Faulty variant: the seal is put before the records it binds.
SealFirst(j) == <<SealOf[j]>> \o Chain[j]

\* What the writer puts for j, in this order.
Puts(j) == Append(Chain[j], SealOf[j])

\* A seal hashes its chain: equal seals have equal records, and no record is a
\* seal.
ASSUME ChainAssumption ==
    /\ Chain \in [Job -> Seq(Object)]
    /\ SealOf \in [Job -> Object]
    /\ \A j, k \in Job : /\ SealOf[j] = SealOf[k] => Chain[j] = Chain[k]
                         /\ SealOf[j] \notin Records(k)

ASSUME WriterAssumption ==
    /\ JobBound \in Nat \ {0}
    /\ MaxDeaths \in Nat
    /\ None \notin Job

VARIABLES
    jobQ,       \* the writer's _q: jobs, then the sentinel
    writer,     \* the writer thread: "running" or "stopped"
    inHand,     \* the job it works on, or None
    done,       \* how many of Puts(inHand) are completely put
    written,    \* whether the next one is on the local tier, yet to be queued
    submitted,  \* jobs handed over by request_finished
    sealed,     \* jobs counted in counters["sealed"], in any process so far
    dropped,    \* jobs counted in counters["dropped"], in any process so far
    lost,       \* history: jobs that died with a process
    unsent,     \* history: puts that never got to the fabric for other reasons
    main,       \* the thread that serves and then shuts down
    timedOut,   \* history: some join of the current shutdown timed out
    deaths      \* how often the process died

writerVars == <<jobQ, writer, inHand, done, written, sealed, dropped>>
mainVars == <<submitted, main, timedOut>>
historyVars == <<lost, unsent, deaths>>
vars == <<storeVars, writerVars, mainVars, historyVars>>

Main == {"serving", "stopWriter", "joinWriter", "stopStore", "joinSync", "closed"}

WriterTypeOK ==
    /\ jobQ \in Seq(Job \cup {None})
    /\ Len(jobQ) <= JobBound
    /\ writer \in {"running", "stopped"}
    /\ inHand \in Job \cup {None}
    /\ done \in Nat
    /\ written \in BOOLEAN
    /\ inHand # None => done <= Len(Chain[inHand])
    /\ inHand = None => done = 0 /\ ~written

BooksTypeOK ==
    /\ submitted \subseteq Job /\ sealed \subseteq Job
    /\ dropped \subseteq Job /\ lost \subseteq Job
    /\ unsent \in Nat
    /\ main \in Main
    /\ timedOut \in BOOLEAN
    /\ deaths \in 0 .. MaxDeaths

TypeOK == StoreTypeOK /\ WriterTypeOK /\ BooksTypeOK

Init ==
    /\ StoreInit
    /\ jobQ = <<>> /\ writer = "running" /\ inHand = None
    /\ done = 0 /\ written = FALSE
    /\ submitted = {} /\ sealed = {} /\ dropped = {} /\ lost = {}
    /\ unsent = 0
    /\ main = "serving" /\ timedOut = FALSE
    /\ deaths = 0

-----------------------------------------------------------------------------
(* The serving thread. *)

\* Faulty variant: the counter is forgotten.
Uncounted(j) == dropped

Counted(j) == dropped \cup {j}

\* submit never waits: a full queue drops the job and counts it.
Submit(j) ==
    /\ main = "serving"
    /\ j \notin submitted
    /\ submitted' = submitted \cup {j}
    /\ IF Len(jobQ) < JobBound
       THEN jobQ' = Append(jobQ, j) /\ UNCHANGED dropped
       ELSE dropped' = Counted(j) /\ UNCHANGED jobQ
    /\ UNCHANGED <<storeVars, historyVars, writer, inHand, done, written, sealed,
                   main, timedOut>>

-----------------------------------------------------------------------------
(* The writer thread (_drain). *)

TakeJob ==
    /\ writer = "running" /\ inHand = None
    /\ jobQ # <<>> /\ Head(jobQ) # None
    /\ inHand' = Head(jobQ)
    /\ jobQ' = Tail(jobQ)
    /\ UNCHANGED <<storeVars, mainVars, historyVars, writer, done, written,
                   sealed, dropped>>

WriterStops ==
    /\ writer = "running" /\ inHand = None
    /\ jobQ # <<>> /\ Head(jobQ) = None
    /\ writer' = "stopped"
    /\ jobQ' = Tail(jobQ)
    /\ UNCHANGED <<storeVars, mainVars, historyVars, inHand, done, written,
                   sealed, dropped>>

WriteNext ==
    /\ inHand # None /\ ~written
    /\ WriteLocal(Puts(inHand)[done + 1])
    /\ written' = TRUE
    /\ unsent' = IF WithFabric THEN unsent ELSE unsent + 1
    /\ UNCHANGED <<mainVars, jobQ, writer, inHand, done, sealed, dropped, lost,
                   deaths>>

\* Faulty variant: the last record counts for the seal.
RecordsPut == done + 1 >= Len(Chain[inHand])

AllPut == done = Len(Chain[inHand])

\* The put is complete; after the last one the job counts as sealed.
QueueNext ==
    /\ inHand # None /\ written
    /\ Enqueue(Puts(inHand)[done + 1])
    /\ written' = FALSE
    /\ IF AllPut
       THEN done' = 0 /\ inHand' = None /\ sealed' = sealed \cup {inHand}
       ELSE done' = done + 1 /\ UNCHANGED <<inHand, sealed>>
    /\ UNCHANGED <<mainVars, historyVars, jobQ, writer, dropped>>

\* build_chain raises before the first put, or the local write of some object
\* does: the job counts as dropped, what was put stays, the thread goes on.
JobFails ==
    /\ inHand # None /\ ~written
    /\ \/ done = 0 /\ UNCHANGED <<storeVars, unsent>>
       \/ WriteFails /\ unsent' = unsent + 1
    /\ dropped' = Counted(inHand)
    /\ inHand' = None /\ done' = 0
    /\ UNCHANGED <<mainVars, jobQ, writer, written, sealed, lost, deaths>>

WriterStep == TakeJob \/ WriterStops \/ WriteNext \/ QueueNext \/ JobFails

Sync == SyncStep /\ UNCHANGED <<writerVars, mainVars, historyVars>>

-----------------------------------------------------------------------------
(* shutdown: _WitnessWriter.close, then KappaStore.close. *)

Shutdown ==
    /\ main = "serving"
    /\ main' = "stopWriter"
    /\ UNCHANGED <<storeVars, writerVars, historyVars, submitted, timedOut>>

\* _q.put(None) blocks while the queue is full.
StopWriter ==
    /\ main = "stopWriter"
    /\ Len(jobQ) < JobBound
    /\ jobQ' = Append(jobQ, None)
    /\ main' = "joinWriter"
    /\ UNCHANGED <<storeVars, historyVars, writer, inHand, done, written, sealed,
                   dropped, submitted, timedOut>>

\* Faulty variant: close does not wait for the writer.
NoJoinWriter ==
    /\ main = "joinWriter"
    /\ main' = IF WithFabric THEN "stopStore" ELSE "closed"
    /\ UNCHANGED <<storeVars, writerVars, historyVars, submitted, timedOut>>

\* join(timeout=5): the writer is done, or it is not waited for any longer.
JoinWriter ==
    /\ main = "joinWriter"
    /\ main' = IF WithFabric THEN "stopStore" ELSE "closed"
    /\ timedOut' = (timedOut \/ writer = "running")
    /\ UNCHANGED <<storeVars, writerVars, historyVars, submitted>>

StopStore ==
    /\ main = "stopStore"
    /\ CloseStore
    /\ main' = "joinSync"
    /\ UNCHANGED <<writerVars, historyVars, submitted, timedOut>>

\* join(timeout=2).
JoinSync ==
    /\ main = "joinSync"
    /\ main' = "closed"
    /\ timedOut' = (timedOut \/ syncer = "running")
    /\ UNCHANGED <<storeVars, writerVars, historyVars, submitted>>

MainStep == StopWriter \/ JoinWriter \/ StopStore \/ JoinSync

\* The puts the store still owes the fabric.
Owed ==
    (IF uploading = None THEN 0 ELSE 1)
    + Cardinality({i \in 1 .. Len(syncQ) : syncQ[i] # None})
    + (IF written /\ WithFabric THEN 1 ELSE 0)

\* The process ends, by itself once closed and else by a crash; its daemon
\* threads and queues go with it.  The next process serves the jobs to come.
Die ==
    /\ IF main = "closed" THEN UNCHANGED deaths
       ELSE deaths < MaxDeaths /\ deaths' = deaths + 1
    /\ lost' = lost \cup (submitted \ (sealed \cup dropped))
    /\ unsent' = unsent + Owed
    /\ StoreDies
    /\ jobQ' = <<>> /\ writer' = "running" /\ inHand' = None
    /\ done' = 0 /\ written' = FALSE
    /\ main' = "serving" /\ timedOut' = FALSE
    /\ UNCHANGED <<submitted, sealed, dropped>>

Next ==
    \/ \E j \in Job : Submit(j)
    \/ WriterStep \/ Sync \/ Shutdown \/ MainStep \/ Die

Spec == Init /\ [][Next]_vars

\* Each thread keeps running; the serving thread need not submit, shut down or
\* die.
Fairness ==
    /\ WF_vars(WriterStep)
    /\ WF_vars(Sync)
    /\ WF_vars(MainStep)

FairSpec == Spec /\ Fairness
=============================================================================
