--------------------------- MODULE KvCorrectness ---------------------------
(***************************************************************************)
(* What the connector of KvConnector must do: its invariants, its progress *)
(* and the abstract cache it implements while no object is damaged.        *)
(***************************************************************************)
EXTENDS KvConnector

\* The host decodes over the cache of r.
Served(r) == status[r] \in {"running", "finished"}

\* A request decodes over exactly the KV a cold prefill computes, whatever was
\* pulled for it (gate G3c; connector.py start_load_kv and wait_for_save).
ServedIsCold ==
    \A r \in Req : Served(r) => \A j \in 1 .. Blocks(r) : kvCache[r][j] = Right(r, j)

\* The payload indexed under a key is the block that key's tokens produce:
\* nothing that was not soundly computed is ever stored (_StoreReq, T14).
IndexIsSound ==
    \A r \in Req : \A j \in 1 .. Blocks(r) :
        index[Prompt[r][j]] \in {None, Right(r, j)}

\* No request decodes over a block that was claimed but neither loaded nor
\* reported and recomputed, nor over bytes that do not derive their label.
NoSilentGap ==
    \A r \in Req : Served(r) =>
        \A j \in 1 .. Blocks(r) : kvCache[r][j] \notin {Junk, Rotten}

\* What an unwritten block of the cache holds is never published under a key,
\* also not by the step that was refused it (the root cause of G3b).
GarbageIsNeverIndexed == \A k \in Key : index[k] \notin {Junk, Rotten}

\* Block j of r was once claimed, by r or by another request of its chain, and
\* could not be loaded.
Failed(r, j) == \E label \in Content \cup {None} : <<Prompt[r][j], label>> \in refused

\* Some block of r before block j failed.
Downstream(r, j) == \E i \in 1 .. j - 1 : Failed(r, i)

\* Damage is contained: a wrong payload can only be indexed, and a request can
\* only decode over a wrong block, downstream of a refused block of the same
\* chain. Without a refusal every hit is as good as a prefill.
PoisonIsDownstream ==
    \A r \in Req : \A j \in 1 .. Blocks(r) :
        /\ index[Prompt[r][j]] \in {None, Right(r, j)} \/ Downstream(r, j)
        /\ Served(r) => kvCache[r][j] = Right(r, j) \/ Downstream(r, j)

\* A published mapping never dangles: whatever crash or race, the payload was
\* on disk before the index named it (store.put before index.put).
IndexedIsOnDisk == \A k \in Key : index[k] # None => objects[index[k]] # "absent"

\* While a step loads, the blocks the host counts as computed but does not hold
\* are exactly those still to load and those already reported: a claim left over
\* from an admission that failed neither hides a block nor overwrites one the
\* host's own prefix cache supplied (update_state_after_alloc).
ClaimsAreExact ==
    \A r \in Req : InMeta(r) /\ phase[Home[r]] = "load" =>
        /\ window[r][2] <= computed[r]
        /\ \A j \in 1 .. computed[r] :
              kvCache[r][j] = Junk <=>
                \/ cursor[r] < j /\ j <= window[r][2]
                \/ j \in loadErrors[r]

\* Refused blocks, drops by other engines and mismatches delay a request, they
\* never starve it: every request is answered unless its engine dies.
EveryRequestAnswered ==
    \A r \in Req : status[r] = "waiting" ~> status[r] \in {"finished", "gone"}

\* The abstract cache: index is the cache, the blocks of a served request are
\* its answer.
Cache == INSTANCE PrefixCache WITH
    Request <- Req,
    Asked <- Prompt,
    Cold <- [r \in Req |-> [j \in 1 .. Blocks(r) |-> Right(r, j)]],
    cache <- index,
    answer <- [r \in Req |-> IF Served(r) THEN [j \in 1 .. Blocks(r) |-> kvCache[r][j]]
                             ELSE None]

\* Over undamaged objects, with crashes and with engines racing to publish the
\* same keys, the connector is a transparent cache.
ImplementsPrefixCache == Cache!Spec

-----------------------------------------------------------------------------
(***************************************************************************)
(* The inductive strengthening of the containment properties: what is true *)
(* between the steps of a load and of a save, while no request is resumed  *)
(* after a preemption and all run under one adapter.                       *)
(***************************************************************************)
NoPreemption == "preempt" \notin Faults
OneContext == \A r, s \in Req : CtxOf[r] = CtxOf[s]

\* Content that some forward pass computed.
Real == (Ctx \cup {Wrong}) \X Key

\* c may stand for block j of r: it is right, or the chain failed before it.
Credible(r, j, c) == c = Right(r, j) \/ (c \in Real /\ Downstream(r, j))

\* The blocks of r the host counts as computed, in the present phase ...
Extent(r) ==
    IF Served(r) THEN Blocks(r)
    ELSE IF status[r] \in {"scheduled", "rewound"}
         THEN IF phase[Home[r]] = "save" THEN Blocks(r) ELSE computed[r]
         ELSE 0

\* ... and those among them that are still to be loaded or were reported.
Doubtful(r, j) ==
    \/ /\ status[r] = "scheduled" /\ phase[Home[r]] = "schedule"
       /\ needLoad[r][1] < j /\ j <= needLoad[r][2]
    \/ /\ status[r] = "scheduled" /\ phase[Home[r]] = "load"
       /\ cursor[r] < j /\ j <= window[r][2]
    \/ j \in loadErrors[r]

\* The request is where an admission without preemption puts it.
InPlace(r) ==
    /\ status[r] \notin {"preempted", "resumed"}
    /\ computed[r] <= Blocks(r)
    /\ status[r] = "scheduled" /\ phase[Home[r]] = "load" => window[r][1] <= cursor[r]

\* A label in hand belongs to the next block of a load or of a save.
HeldIsCredible(r) ==
    held[r] # Idle =>
        /\ Loading(r) \/ (Saving(r) /\ held[r] # None)
        /\ held[r] # None => Credible(r, cursor[r] + 1, held[r])

ErrorsAreFailures(r) ==
    \A j \in loadErrors[r] :
        /\ status[r] = "scheduled" /\ phase[Home[r]] # "schedule"
        /\ Claimed(r, j)
        /\ Failed(r, j)

CacheIsCredible(r) ==
    \A j \in 1 .. Extent(r) : Doubtful(r, j) \/ Credible(r, j, kvCache[r][j])

RequestIsContained(r) ==
    InPlace(r) /\ HeldIsCredible(r) /\ ErrorsAreFailures(r) /\ CacheIsCredible(r)

IndexIsCredible ==
    /\ \A k \in Key : index[k] \in Real \cup {None}
    /\ \A r \in Req : \A j \in 1 .. Blocks(r) :
          index[Prompt[r][j]] = None \/ Credible(r, j, index[Prompt[r][j]])

Containment == IndexIsCredible /\ \A r \in Req : RequestIsContained(r)

\* Of a request that enters its step, the unwritten blocks are the doubtful ones.
ClaimIsExact(r) ==
    status[r] = "scheduled" /\ phase[Home[r]] # "save" =>
        /\ (IF phase[Home[r]] = "load" THEN window[r][2] ELSE needLoad[r][2]) <= computed[r]
        /\ \A j \in 1 .. computed[r] : kvCache[r][j] = Junk <=> Doubtful(r, j)
        /\ phase[Home[r]] = "load" => \A j \in loadErrors[r] : j <= cursor[r]

-----------------------------------------------------------------------------
(***************************************************************************)
(* Two more strengthenings. A label in the hands of a save is on disk; and *)
(* while files stay whole nothing that is claimed is ever refused.         *)
(***************************************************************************)
HeldIsOnDisk(r) ==
    held[r] # Idle =>
        \/ Loading(r)
        \/ Saving(r) /\ held[r] \in Content /\ objects[held[r]] # "absent"

OnDisk == IndexedIsOnDisk /\ \A r \in Req : HeldIsOnDisk(r)

FilesStayWhole == Faults \subseteq {"crash"} /\ Layout = "native"

\* What r still has to load is indexed, and what it has in hand can be read.
ClaimsAreMet(r) ==
    /\ loadErrors[r] = {}
    /\ \A j \in 1 .. Blocks(r) : Doubtful(r, j) => index[Prompt[r][j]] # None
    /\ held[r] # Idle => held[r] \in Content /\ objects[held[r]] = "good"

NothingFails ==
    /\ refused = {}
    /\ \A k \in Key : index[k] # None => objects[index[k]] = "good"
    /\ \A c \in Content : objects[c] # "bad"
    /\ \A r \in Req : ClaimsAreMet(r)
=============================================================================
