------------------------- MODULE WitnessCorrectness -------------------------
(***************************************************************************)
(* What the witness path of WitnessWriter must do: no job and no put gets  *)
(* out of the books, no seal is found without its records, a shutdown that *)
(* was not cut short leaves nothing behind, and nothing waits for ever.    *)
(***************************************************************************)
EXTENDS WitnessWriter

\* The jobs the writer's queue holds.
Waiting == {jobQ[i] : i \in 1 .. Len(jobQ)} \ {None}

InWork == IF inHand = None THEN {} ELSE {inHand}

\* Every job of request_finished is in one place: counted as sealed or as
\* dropped, gone with its process, queued, or in the writer's hands. The two
\* counters of _WitnessWriter never count a job twice and miss none.
EveryJobAccounted ==
    /\ submitted = sealed \cup dropped \cup lost \cup Waiting \cup InWork
    /\ Cardinality(submitted) =
          Cardinality(sealed) + Cardinality(dropped) + Cardinality(lost)
          + Cardinality({i \in 1 .. Len(jobQ) : jobQ[i] # None})
          + Cardinality(InWork)

\* Every put is uploaded, counted as fabric_sync_fail, lost with its process or
\* still owed: a full queue, an outage and a lost answer all show in a counter
\* of KappaStore.
EveryPutAccounted == puts = synced + failed + unsent + Owed

\* Whatever is on disk, after any crash, failed write or restart, can be
\* audited: a seal is never there without every record its chain names.
SealIsBacked == \A j \in Job : SealOf[j] \in local => Records(j) \subseteq local

\* What makes SealIsBacked inductive: the objects the writer has put for the job
\* in its hands are on disk.
PutIsOnDisk ==
    inHand # None =>
        /\ \A i \in 1 .. done : Puts(inHand)[i] \in local
        /\ written => Puts(inHand)[done + 1] \in local

\* What makes EveryJobAccounted inductive: the places a job can be in do not
\* overlap, and no job is queued twice.
JobsApart ==
    /\ IsFiniteSet(submitted)
    /\ submitted = sealed \cup dropped \cup lost \cup Waiting \cup InWork
    /\ sealed \cap dropped = {} /\ lost \cap (sealed \cup dropped) = {}
    /\ (Waiting \cup InWork) \cap (sealed \cup dropped \cup lost) = {}
    /\ inHand \notin Waiting
    /\ \A i, k \in 1 .. Len(jobQ) : jobQ[i] # None /\ jobQ[i] = jobQ[k] => i = k

\* The same for the fabric, as long as no upload failed: the upload queue keeps
\* the order of the puts, so a seal never overtakes its records.
RemoteSealIsBacked ==
    failed = 0 => \A j \in Job : SealOf[j] \in remote => Records(j) \subseteq remote

\* What makes it inductive: on its way to the fabric a seal has its records
\* before it, and so has the writer what it already put.
Ahead(n) == remote \cup {uploading} \cup {syncQ[i] : i \in 1 .. n}
UploadsInOrder ==
    failed = 0 =>
        /\ \A j \in Job : uploading = SealOf[j] => Records(j) \subseteq remote
        /\ \A j \in Job : \A n \in 1 .. Len(syncQ) :
              syncQ[n] = SealOf[j] => Records(j) \subseteq Ahead(n - 1)
        /\ inHand # None /\ WithFabric =>
              \A i \in 1 .. done : Puts(inHand)[i] \in Ahead(Len(syncQ))

\* When neither join of shutdown timed out, every job met its fate and the store
\* owes the fabric nothing: closing the writer first is what makes it so.
GracefulShutdown ==
    main = "closed" /\ ~timedOut =>
        /\ submitted = sealed \cup dropped \cup lost
        /\ Owed = 0

\* What makes it inductive: nothing is queued behind a sentinel, and a join that
\* did not time out saw its thread stopped.
NoSentinel(q) == \A i \in 1 .. Len(q) : q[i] # None
EndsWithSentinel(q) ==
    /\ Len(q) > 0
    /\ \A i \in 1 .. Len(q) : q[i] = None <=> i = Len(q)

WriterStopsLast ==
    /\ main \in {"serving", "stopWriter"} => writer = "running" /\ NoSentinel(jobQ)
    /\ main \notin {"serving", "stopWriter"} =>
          IF writer = "stopped" THEN jobQ = <<>> /\ inHand = None
          ELSE EndsWithSentinel(jobQ)
    /\ main \in {"stopStore", "joinSync", "closed"} /\ ~timedOut => writer = "stopped"

StoreStopsLast ==
    /\ main \notin {"joinSync", "closed"} => syncer = "running" /\ NoSentinel(syncQ)
    /\ main \in {"joinSync", "closed"} /\ WithFabric /\ ~timedOut =>
          IF syncer = "stopped" THEN syncQ = <<>> /\ uploading = None
          ELSE EndsWithSentinel(syncQ)
    /\ main = "closed" /\ WithFabric /\ ~timedOut => syncer = "stopped"
    /\ ~WithFabric =>
          syncQ = <<>> /\ uploading = None /\ main \notin {"stopStore", "joinSync"}

\* A finished request is sealed, dropped or lost with its process in the end: an
\* exception in build_chain or a failed write does not stop the writer thread.
EveryJobSettled ==
    \A j \in Job : j \in submitted ~> j \in sealed \cup dropped \cup lost

\* shutdown ends, although it puts its sentinels into bounded queues without a
\* timeout.
ShutdownEnds == main = "stopWriter" ~> main \in {"closed", "serving"}

\* The abstract audit trail: fates from the books, disk from the local tier.
Fate(j) ==
    CASE j \in sealed -> "sealed"
      [] j \in dropped -> "dropped"
      [] j \in lost -> "lost"
      [] j \in Waiting \cup InWork -> "pending"
      [] OTHER -> "none"

Trail == INSTANCE AuditTrail WITH
    Request <- Job,
    Bound <- [j \in Job |-> Records(j)],
    Seal <- SealOf,
    fate <- [j \in Job |-> Fate(j)],
    disk <- local

\* The writer, its queue, its crashes and its shutdown implement the trail.
ImplementsAuditTrail == Trail!Spec
=============================================================================
