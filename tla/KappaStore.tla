----------------------------- MODULE KappaStore -----------------------------
(***************************************************************************)
(* KappaStore (vllm_kappa/fabric.py): a put writes the local tier at once  *)
(* and queues the object for a daemon thread that uploads it to the        *)
(* fabric; the queue is bounded and a full one only counts.  This module   *)
(* has the put path and the thread; the clients of the store, who run the  *)
(* two halves of a put and close it, are in the modules that extend it.    *)
(***************************************************************************)
EXTENDS Naturals, Sequences

CONSTANTS
    Object,      \* what is stored, named by its label
    SyncBound,   \* bound of the upload queue (4096 in the code)
    WithFabric,  \* whether a fabric tier is configured
    None         \* nothing in hand; in a queue, the sentinel None of the code

ASSUME StoreAssumption ==
    /\ SyncBound \in Nat \ {0}
    /\ WithFabric \in BOOLEAN
    /\ None \notin Object

VARIABLES
    local,      \* the objects on the local tier
    remote,     \* the objects on the fabric
    syncQ,      \* _q: objects to upload, then the sentinel
    uploading,  \* the object the sync thread posts, or None
    syncer,     \* the sync thread: "running" or "stopped"
    puts,       \* counters["put"], over all processes so far
    synced,     \* how many uploads succeeded
    failed      \* counters["fabric_sync_fail"], over all processes so far

storeVars == <<local, remote, syncQ, uploading, syncer, puts, synced, failed>>

StoreTypeOK ==
    /\ local \subseteq Object
    /\ remote \subseteq Object
    /\ syncQ \in Seq(Object \cup {None})
    /\ Len(syncQ) <= SyncBound
    /\ uploading \in Object \cup {None}
    /\ syncer \in {"running", "stopped"}
    /\ puts \in Nat /\ synced \in Nat /\ failed \in Nat

StoreInit ==
    /\ local = {} /\ remote = {}
    /\ syncQ = <<>> /\ uploading = None
    /\ syncer = "running"
    /\ puts = 0 /\ synced = 0 /\ failed = 0

\* The first half of a put: count it and write the file.
WriteLocal(o) ==
    /\ puts' = puts + 1
    /\ local' = local \cup {o}
    /\ UNCHANGED <<remote, syncQ, uploading, syncer, synced, failed>>

\* The write raises: the put was counted, nothing else happened.
WriteFails ==
    /\ puts' = puts + 1
    /\ UNCHANGED <<local, remote, syncQ, uploading, syncer, synced, failed>>

\* Faulty variant: the queue grows past its bound.
EnqueueUnbounded(o) ==
    /\ syncQ' = IF WithFabric THEN Append(syncQ, o) ELSE syncQ
    /\ UNCHANGED <<local, remote, uploading, syncer, puts, synced, failed>>

\* Faulty variant: a full queue drops the object without counting it.
EnqueueUncounted(o) ==
    /\ syncQ' = IF WithFabric /\ Len(syncQ) < SyncBound THEN Append(syncQ, o) ELSE syncQ
    /\ UNCHANGED <<local, remote, uploading, syncer, puts, synced, failed>>

\* Faulty variant: the put waits for room.
EnqueueBlocks(o) ==
    /\ WithFabric => Len(syncQ) < SyncBound
    /\ syncQ' = IF WithFabric THEN Append(syncQ, o) ELSE syncQ
    /\ UNCHANGED <<local, remote, uploading, syncer, puts, synced, failed>>

\* The second half of a put: put_nowait, and a full queue counts as a failure.
Enqueue(o) ==
    /\ LET full == Len(syncQ) = SyncBound IN
          /\ syncQ' = IF WithFabric /\ ~full THEN Append(syncQ, o) ELSE syncQ
          /\ failed' = IF WithFabric /\ full THEN failed + 1 ELSE failed
    /\ UNCHANGED <<local, remote, uploading, syncer, puts, synced>>

-----------------------------------------------------------------------------
(* The sync thread (_drain). *)

Syncing == WithFabric /\ syncer = "running" /\ uploading = None

\* Faulty variant: the newest object is uploaded first.
TakeNewest ==
    /\ Syncing /\ syncQ # <<>> /\ syncQ[Len(syncQ)] # None
    /\ uploading' = syncQ[Len(syncQ)]
    /\ syncQ' = SubSeq(syncQ, 1, Len(syncQ) - 1)
    /\ UNCHANGED <<local, remote, syncer, puts, synced, failed>>

TakeObject ==
    /\ Syncing /\ syncQ # <<>> /\ Head(syncQ) # None
    /\ uploading' = Head(syncQ)
    /\ syncQ' = Tail(syncQ)
    /\ UNCHANGED <<local, remote, syncer, puts, synced, failed>>

SyncStops ==
    /\ Syncing /\ syncQ # <<>> /\ Head(syncQ) = None
    /\ syncer' = "stopped"
    /\ syncQ' = Tail(syncQ)
    /\ UNCHANGED <<local, remote, uploading, puts, synced, failed>>

UploadOk ==
    /\ uploading # None
    /\ remote' = remote \cup {uploading}
    /\ synced' = synced + 1
    /\ uploading' = None
    /\ UNCHANGED <<local, syncQ, syncer, puts, failed>>

\* Faulty variant: the client raises and the thread dies of it.
UploadRaises ==
    /\ uploading # None
    /\ syncer' = "stopped"
    /\ failed' = failed + 1
    /\ uploading' = None
    /\ UNCHANGED <<local, remote, syncQ, puts, synced>>

\* Unreachable, an error status, or an answer that was lost on the way back:
\* the object may have arrived all the same.
UploadFails ==
    /\ uploading # None
    /\ remote' \in {remote, remote \cup {uploading}}
    /\ failed' = failed + 1
    /\ uploading' = None
    /\ UNCHANGED <<local, syncQ, syncer, puts, synced>>

SyncStep == TakeObject \/ SyncStops \/ UploadOk \/ UploadFails

-----------------------------------------------------------------------------
(* close, and the end of the process. *)

\* _q.put(None) blocks while the queue is full.
CloseStore ==
    /\ Len(syncQ) < SyncBound
    /\ syncQ' = Append(syncQ, None)
    /\ UNCHANGED <<local, remote, uploading, syncer, puts, synced, failed>>

\* What the store holds in memory is gone; a later process starts afresh.
StoreDies ==
    /\ syncQ' = <<>> /\ uploading' = None
    /\ syncer' = "running"
    /\ UNCHANGED <<local, remote, puts, synced, failed>>
=============================================================================
