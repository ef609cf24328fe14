------------------------------ MODULE Drafter ------------------------------
(***************************************************************************)
(* The drafter (vllm_kappa/drafter.py): at every engine step propose visits *)
(* the rows of the batch, extends what it tracks of each request, and then *)
(* seals the requests it did not see: their drafts are queued for a daemon *)
(* thread that puts them into the store.  At interpreter exit the tracked  *)
(* ones are put by the main thread; at boot the drafts of the store are    *)
(* replayed into the suffix tree.                                          *)
(*                                                                         *)
(* A place <<r, i>> is the i-th token of r's stream, prompt included.      *)
(* What is tracked and queued is kept as places; a file's label is its     *)
(* content, the tokens.                                                    *)
(***************************************************************************)
EXTENDS Integers, Sequences, FiniteSets

CONSTANTS
    Req,        \* the requests
    Token,      \* the vocabulary
    Stream,     \* Stream[r]: the prompt of r and all it will ever accept
    PromptLen,  \* PromptLen[r]: how much of it is prompt
    MaxStep,    \* bound: tokens a request accepts in one step
    MaxLen,     \* max_model_len
    TreeDepth,  \* max_tree_depth: the longest pattern
    MinSeal,    \* MIN_SEAL_TOKENS (4 in the code)
    KeyTokens,  \* how much of a context the row key hashes (32 in the code)
    QueueBound, \* bound of _seal_q (1024 in the code)
    WarmMax,    \* VLLM_KAPPA_WARM_MAX
    Others,     \* the objects of other writers in the store: no drafts
    MaxStarts,  \* bound: how many processes there are
    MaxFaults,  \* bound: damaged or lost files, failing puts and replays
    Synth,      \* kappa-warm-<n>: the id of the next replay
    None

ASSUME StreamAssumption ==
    /\ Stream \in [Req -> Seq(Token)]
    /\ PromptLen \in [Req -> Nat]
    /\ \A r \in Req : PromptLen[r] \in 1 .. Len(Stream[r]) /\ Len(Stream[r]) <= MaxLen

Place == {p \in Req \X (Nat \ {0}) : p[2] <= Len(Stream[p[1]])}
Draft == [pat : Seq(Place), resp : Seq(Place)]
Record == [pat : Seq(Token), resp : Seq(Token)]   \* what encode_draft writes
Id == Req \cup Seq(Token) \cup {Synth}

ASSUME DrafterAssumption ==
    /\ MaxStep \in Nat /\ MaxLen \in Nat /\ WarmMax \in Nat
    /\ TreeDepth \in Nat /\ MinSeal \in Nat
    /\ KeyTokens \in Nat \ {0} /\ QueueBound \in Nat \ {0}
    /\ MaxStarts \in Nat /\ MaxFaults \in Nat
    /\ Synth \notin Req \cup Seq(Token)
    /\ None \notin Draft /\ Others \cap Record = {}

Lesser(a, b) == IF a < b THEN a ELSE b
Greater(a, b) == IF a < b THEN b ELSE a

\* The places of r behind the first lo, up to the hi-th: ctx[lo : hi].
Slice(r, lo, hi) == [i \in 1 .. Greater(0, hi - lo) |-> <<r, lo + i>>]
PlacesIn(s) == {s[i] : i \in DOMAIN s}
Tokens(s) == [i \in DOMAIN s |-> Stream[s[i][1]][s[i][2]]]

\* encode_draft; a label of the store is the record it names.
Encoded(d) == [pat |-> Tokens(d.pat), resp |-> Tokens(d.resp)]

VARIABLES
    phase,    \* where the main thread is
    contract, \* which propose contract the host has
    length,   \* num_tokens_no_spec of each request
    gone,     \* requests that died with an earlier process
    rows,     \* the rows of this call to visit: <<request, tokens sampled>>
    seen,     \* the ids this call has seen
    stale,    \* the ids this call has still to seal
    active,   \* suffix_cache.active_requests
    cached,   \* suffix_cache.cached_requests
    tracked,  \* _tracked: id -> draft
    queue,    \* _seal_q
    sealer,   \* the sealer thread: "running" or "dead"
    inHand,   \* the draft it puts, or None
    store,    \* the labels on the local tier
    damaged,  \* those whose file does not re-derive its label
    toWarm,   \* the labels of _warm's listing that it has not visited
    warmed,   \* the records replayed into the tree of this process
    sealed,   \* history: the drafts put, by any process
    forgone,  \* history: accepted tokens that are in no draft
    starts, faults

hostVars == <<contract, length, gone>>
callVars == <<rows, seen, stale>>
treeVars == <<active, cached>>
sealerVars == <<queue, sealer, inHand>>
storeVars == <<store, damaged>>
warmVars == <<toWarm, warmed>>
historyVars == <<sealed, forgone>>
vars == <<phase, hostVars, callVars, treeVars, tracked, sealerVars, storeVars,
          warmVars, historyVars, starts, faults>>

Phase == {"boot", "idle", "rows", "sealing", "exit", "off", "refused"}

NoDraft == [id \in {} |-> None]
Forget(f, id) == [x \in DOMAIN f \ {id} |-> f[x]]

TypeOK ==
    /\ phase \in Phase
    /\ contract \in {"pinned", "nightly"}
    /\ length \in [Req -> Nat]
    /\ \A r \in Req : length[r] \in PromptLen[r] .. Len(Stream[r])
    /\ gone \subseteq Req
    /\ rows \subseteq Req \X (1 .. MaxStep)
    /\ seen \subseteq Id /\ stale \subseteq Id /\ active \subseteq Id
    /\ cached \subseteq Id
    /\ DOMAIN tracked \subseteq Id
    /\ \A id \in DOMAIN tracked : tracked[id] \in Draft
    /\ queue \in Seq(Draft) /\ Len(queue) <= QueueBound
    /\ sealer \in {"running", "dead"}
    /\ inHand \in Draft \cup {None}
    /\ store \subseteq Record \cup Others
    /\ damaged \subseteq Record \cup Others
    /\ toWarm \subseteq Record \cup Others
    /\ warmed \subseteq Record \cup {None}
    /\ sealed \subseteq Draft /\ forgone \subseteq Place
    /\ starts \in 0 .. MaxStarts /\ faults \in 0 .. MaxFaults

Init ==
    /\ phase = "boot"
    /\ contract \in {"pinned", "nightly"}
    /\ length = PromptLen
    /\ gone = {} /\ rows = {} /\ seen = {} /\ stale = {}
    /\ active = {} /\ cached = {} /\ tracked = NoDraft
    /\ queue = <<>> /\ sealer = "running" /\ inHand = None
    /\ store = Others /\ damaged = {}
    /\ toWarm = Others /\ warmed = {}
    /\ sealed = {} /\ forgone = {}
    /\ starts = 0 /\ faults = 0

Fault == faults < MaxFaults /\ faults' = faults + 1

-----------------------------------------------------------------------------
(* Warm start (_warm): visit the listed labels, read each through the store. *)

\* The store has no file and the fabric no answer, or it is no draft.
Unusable(label) == label \notin store \/ label \in Others

WarmSkips ==
    /\ phase = "boot" /\ Cardinality(warmed) < WarmMax
    /\ \E label \in toWarm :
          /\ Unusable(label) /\ label \notin damaged
          /\ toWarm' = toWarm \ {label}
    /\ UNCHANGED <<phase, hostVars, callVars, treeVars, tracked, sealerVars,
                   storeVars, warmed, historyVars, starts, faults>>

\* start_request, add_active_response and stop_request of the synthetic id. The
\* fabric may stand in for a lost file, which is then written again.
WarmReplays ==
    /\ phase = "boot" /\ Cardinality(warmed) < WarmMax
    /\ Synth \notin active
    /\ \E label \in toWarm \ (damaged \cup Others) :
          /\ toWarm' = toWarm \ {label}
          /\ warmed' = warmed \cup {label}
          /\ store' = store \cup {label}
    /\ UNCHANGED <<phase, hostVars, callVars, treeVars, tracked, sealerVars,
                   damaged, historyVars, starts, faults>>

\* The suffix tree raises: at start_request, or later, and then the id stays
\* active; the next replay uses the same id and start_request raises again.
ReplayFails ==
    /\ phase = "boot" /\ Cardinality(warmed) < WarmMax
    /\ \E label \in toWarm \ (damaged \cup Others) :
          /\ toWarm' = toWarm \ {label}
          /\ store' = store \cup {label}
    /\ IF Synth \in active
       THEN UNCHANGED <<active, faults>>
       ELSE Fault /\ active' \in {active, active \cup {Synth}}
    /\ UNCHANGED <<phase, hostVars, callVars, cached, tracked, sealerVars,
                   damaged, warmed, historyVars, starts>>

\* Faulty variant: a damaged draft is replayed all the same.
WarmTrusts ==
    /\ phase = "boot" /\ Cardinality(warmed) < WarmMax
    /\ \E label \in toWarm \cap damaged :
          /\ toWarm' = toWarm \ {label}
          /\ warmed' = warmed \cup {None}
    /\ UNCHANGED <<phase, hostVars, callVars, treeVars, tracked, sealerVars,
                   storeVars, historyVars, starts, faults>>

\* store.get raises IntegrityError, and nothing in _warm catches it: the file is
\* damaged, or it is gone and the fabric answers with other bytes.
WarmRefuses ==
    /\ phase = "boot" /\ Cardinality(warmed) < WarmMax
    /\ \E label \in toWarm : label \in damaged \/ label \notin store
    /\ phase' = "refused"
    /\ UNCHANGED <<hostVars, callVars, treeVars, tracked, sealerVars, storeVars,
                   warmVars, historyVars, starts, faults>>

\* Faulty variant: objects that are no drafts count towards the limit.
WarmEndsEarly ==
    /\ phase = "boot"
    /\ toWarm = {} \/ Cardinality(warmed) + Cardinality(Others \ toWarm) >= WarmMax
    /\ phase' = "idle"
    /\ UNCHANGED <<hostVars, callVars, treeVars, tracked, sealerVars, storeVars,
                   warmVars, historyVars, starts, faults>>

WarmEnds ==
    /\ phase = "boot"
    /\ toWarm = {} \/ Cardinality(warmed) >= WarmMax
    /\ phase' = "idle"
    /\ UNCHANGED <<hostVars, callVars, treeVars, tracked, sealerVars, storeVars,
                   warmVars, historyVars, starts, faults>>

WarmStep == WarmSkips \/ WarmReplays \/ ReplayFails \/ WarmRefuses \/ WarmEnds

-----------------------------------------------------------------------------
(* propose. The host calls with one row per request of the batch and what   *)
(* each has just sampled. A row that sampled nothing, in the middle of its  *)
(* prefill, is passed over like a request that is in no row because it is   *)
(* finished, aborted or preempted.                                          *)

Call ==
    /\ phase = "idle"
    /\ \E B \in SUBSET (Req \ gone) : \E k \in [B -> 1 .. MaxStep] :
          /\ \A r \in B : length[r] + k[r] <= Len(Stream[r])
          /\ rows' = {<<r, k[r]>> : r \in B}
          /\ length' = [r \in Req |-> IF r \in B THEN length[r] + k[r] ELSE length[r]]
    /\ phase' = "rows"
    /\ UNCHANGED <<contract, gone, seen, stale, treeVars, tracked, sealerVars, storeVars,
                   warmVars, historyVars, starts, faults>>

\* _row_key: the first tokens of the context.
RowKey(r) == SubSeq(Stream[r], 1, Lesser(length[r], KeyTokens))

\* The id of r's row.
RowId(r) == IF contract = "pinned" THEN r ELSE RowKey(r)

AtLimit(r) == length[r] >= MaxLen - 1

\* At the model's limit the row is not seen.
SkipRow ==
    /\ phase = "rows"
    /\ \E row \in rows :
          LET r == row[1]  n == length[r] IN
          /\ AtLimit(r)
          /\ rows' = rows \ {row}
          /\ forgone' = forgone \cup PlacesIn(Slice(r, n - row[2], n))
    /\ UNCHANGED <<phase, hostVars, seen, stale, treeVars, tracked, sealerVars,
                   storeVars, warmVars, sealed, starts, faults>>

\* Faulty variant: the pattern keeps the tokens just sampled.
PatternWithSampled(r, k) == Slice(r, Greater(0, length[r] - k - TreeDepth), length[r])

\* ctx[start : n - len(sampled_ids)].
Pattern(r, k) == Slice(r, Greater(0, length[r] - k - TreeDepth), length[r] - k)

\* Faulty variant: the response an earlier request left is not evicted.
NotEvicted(id) == cached

Evicted(id) == cached \ {id}

\* A request the tree does not know: start_request with its whole context, after
\* evicting what an earlier request of this id left.
StartRow ==
    /\ phase = "rows"
    /\ \E row \in rows :
          LET r == row[1]  k == row[2]  n == length[r]  id == RowId(r) IN
          /\ ~AtLimit(r)
          /\ id \notin active
          /\ rows' = rows \ {row}
          /\ seen' = seen \cup {id}
          /\ cached' = Evicted(id)
          /\ active' = active \cup {id}
          /\ tracked' = [x \in DOMAIN tracked \cup {id} |->
                            IF x = id THEN [pat |-> Pattern(r, k),
                                            resp |-> Slice(r, n - k, n)]
                            ELSE tracked[x]]
    /\ UNCHANGED <<phase, hostVars, stale, sealerVars, storeVars, warmVars,
                   historyVars, starts, faults>>

\* A request it knows: add_active_response, and the draft grows.
ExtendRow ==
    /\ phase = "rows"
    /\ \E row \in rows :
          LET r == row[1]  k == row[2]  n == length[r]  id == RowId(r) IN
          /\ ~AtLimit(r)
          /\ id \in active
          /\ rows' = rows \ {row}
          /\ seen' = seen \cup {id}
          /\ IF id \in DOMAIN tracked
             THEN /\ tracked' = [tracked EXCEPT ![id].resp = @ \o Slice(r, n - k, n)]
                  /\ UNCHANGED forgone
             ELSE /\ forgone' = forgone \cup PlacesIn(Slice(r, n - k, n))
                  /\ UNCHANGED tracked
    /\ UNCHANGED <<phase, hostVars, stale, treeVars, sealerVars, storeVars,
                   warmVars, sealed, starts, faults>>

\* The loop over active_requests - seen begins.
RowsEnd ==
    /\ phase = "rows" /\ rows = {}
    /\ stale' = active \ seen
    /\ seen' = {}
    /\ phase' = "sealing"
    /\ UNCHANGED <<hostVars, rows, treeVars, tracked, sealerVars, storeVars,
                   warmVars, historyVars, starts, faults>>

\* Faulty variant: trivial continuations are persisted too.
SealableShort(d) == d.pat # <<>> /\ d.resp # <<>>

\* What _seal and _seal_all keep.
Sealable(d) == d.pat # <<>> /\ d.resp # <<>> /\ Len(d.resp) >= MinSeal

\* Faulty variant: the draft is read, not popped.
SealKeeps(id) ==
    IF id \notin DOMAIN tracked \/ ~Sealable(tracked[id]) \/ Len(queue) = QueueBound
    THEN UNCHANGED <<tracked, queue, forgone>>
    ELSE queue' = Append(queue, tracked[id]) /\ UNCHANGED <<tracked, forgone>>

\* Faulty variant: the queue has no bound.
SealUnbounded(id) ==
    IF id \notin DOMAIN tracked
    THEN UNCHANGED <<tracked, queue, forgone>>
    ELSE /\ tracked' = Forget(tracked, id)
         /\ IF Sealable(tracked[id])
            THEN queue' = Append(queue, tracked[id]) /\ UNCHANGED forgone
            ELSE /\ forgone' = forgone \cup PlacesIn(tracked[id].resp)
                 /\ UNCHANGED queue

\* Faulty variant: put instead of put_nowait.
SealWaits(id) ==
    IF id \notin DOMAIN tracked
    THEN UNCHANGED <<tracked, queue, forgone>>
    ELSE /\ Sealable(tracked[id]) => Len(queue) < QueueBound
         /\ tracked' = Forget(tracked, id)
         /\ IF Sealable(tracked[id])
            THEN queue' = Append(queue, tracked[id]) /\ UNCHANGED forgone
            ELSE /\ forgone' = forgone \cup PlacesIn(tracked[id].resp)
                 /\ UNCHANGED queue

\* _seal: nothing tracked, too short, queued, or dropped because the queue is full.
SealDraft(id) ==
    IF id \notin DOMAIN tracked
    THEN UNCHANGED <<tracked, queue, forgone>>
    ELSE /\ tracked' = Forget(tracked, id)
         /\ IF Sealable(tracked[id]) /\ Len(queue) < QueueBound
            THEN queue' = Append(queue, tracked[id]) /\ UNCHANGED forgone
            ELSE /\ forgone' = forgone \cup PlacesIn(tracked[id].resp)
                 /\ UNCHANGED queue

\* _seal and stop_request for one of them.
SealStale ==
    /\ phase = "sealing"
    /\ \E id \in stale :
          /\ SealDraft(id)
          /\ stale' = stale \ {id}
          /\ active' = active \ {id}
          /\ cached' = cached \cup {id}
    /\ UNCHANGED <<phase, hostVars, rows, seen, sealer, inHand, storeVars,
                   warmVars, sealed, starts, faults>>

Return ==
    /\ phase = "sealing" /\ stale = {}
    /\ phase' = "idle"
    /\ UNCHANGED <<hostVars, callVars, treeVars, tracked, sealerVars, storeVars,
                   warmVars, historyVars, starts, faults>>

ProposeStep == SkipRow \/ StartRow \/ ExtendRow \/ RowsEnd \/ SealStale \/ Return

-----------------------------------------------------------------------------
(* The sealer thread (_drain_seals). *)

Take ==
    /\ sealer = "running" /\ inHand = None /\ queue # <<>>
    /\ phase \notin {"off", "refused"}
    /\ inHand' = Head(queue)
    /\ queue' = Tail(queue)
    /\ UNCHANGED <<phase, hostVars, callVars, treeVars, tracked, sealer, storeVars,
                   warmVars, historyVars, starts, faults>>

\* A put that succeeds: LocalStore.put leaves an existing file alone.
Put(d) == store' = store \cup {Encoded(d)} /\ sealed' = sealed \cup {d}

PutTaken ==
    /\ inHand # None
    /\ phase \notin {"off", "refused"}
    /\ Put(inHand)
    /\ inHand' = None
    /\ UNCHANGED <<phase, hostVars, callVars, treeVars, tracked, queue, sealer,
                   damaged, warmVars, forgone, starts, faults>>

\* The put raises, and the exception ends the thread.
PutRaises ==
    /\ inHand # None
    /\ phase \notin {"off", "refused"}
    /\ Fault
    /\ forgone' = forgone \cup PlacesIn(inHand.resp)
    /\ inHand' = None
    /\ sealer' = "dead"
    /\ UNCHANGED <<phase, hostVars, callVars, treeVars, tracked, queue, storeVars,
                   warmVars, sealed, starts>>

SealerStep == Take \/ PutTaken \/ PutRaises

-----------------------------------------------------------------------------
(* The end of the process. *)

\* The interpreter exits and runs _seal_all; the sealer is a daemon and goes on.
Exit ==
    /\ phase = "idle"
    /\ phase' = "exit"
    /\ UNCHANGED <<hostVars, callVars, treeVars, tracked, sealerVars, storeVars,
                   warmVars, historyVars, starts, faults>>

\* One tracked request: popped, and put at once if it is worth it.
Flush ==
    /\ phase = "exit"
    /\ \E id \in DOMAIN tracked :
          /\ tracked' = Forget(tracked, id)
          /\ IF Sealable(tracked[id])
             THEN Put(tracked[id]) /\ UNCHANGED forgone
             ELSE /\ forgone' = forgone \cup PlacesIn(tracked[id].resp)
                  /\ UNCHANGED <<store, sealed>>
    /\ UNCHANGED <<phase, hostVars, callVars, treeVars, sealerVars, damaged,
                   warmVars, starts, faults>>

\* The accepted tokens that only the memory of the process holds.
InRows == UNION {PlacesIn(Slice(row[1], length[row[1]] - row[2], length[row[1]])) : row \in rows}
InTracked == UNION {PlacesIn(tracked[id].resp) : id \in DOMAIN tracked}
InQueue == UNION {PlacesIn(queue[i].resp) : i \in DOMAIN queue}
InHand == IF inHand = None THEN {} ELSE PlacesIn(inHand.resp)
InMemory == InRows \cup InTracked \cup InQueue \cup InHand

\* All is flushed, or a put raised and _seal_all with it; the interpreter ends
\* and its daemon thread and queue with it. A crash does that at any moment.
Ends ==
    /\ phase \notin {"off", "refused"}
    /\ \/ phase = "exit" /\ tracked = NoDraft /\ UNCHANGED <<starts, faults>>
       \/ phase = "exit" /\ tracked # NoDraft /\ Fault /\ UNCHANGED starts
       \/ phase # "exit" /\ Fault /\ UNCHANGED starts
    /\ phase' = "off"
    /\ forgone' = forgone \cup InMemory
    /\ rows' = {} /\ seen' = {} /\ stale' = {} /\ active' = {} /\ cached' = {}
    /\ tracked' = NoDraft /\ queue' = <<>> /\ inHand' = None
    /\ warmed' = {} /\ toWarm' = {}
    /\ gone' = {r \in Req : length[r] > PromptLen[r]}
    /\ UNCHANGED <<contract, length, sealer, storeVars, sealed>>

\* The next process lists the store and warms up.
Start ==
    /\ phase \in {"off", "refused"}
    /\ starts < MaxStarts
    /\ starts' = starts + 1
    /\ phase' = "boot"
    /\ sealer' = "running"
    /\ active' = {} /\ warmed' = {}
    /\ toWarm' = store
    /\ UNCHANGED <<hostVars, callVars, cached, tracked, queue, inHand, storeVars,
                   historyVars, faults>>

\* A file of the store is damaged, or gone.
Damage ==
    /\ Fault
    /\ \E label \in store : \/ damaged' = damaged \cup {label} /\ UNCHANGED store
                            \/ store' = store \ {label} /\ damaged' = damaged \ {label}
    /\ UNCHANGED <<phase, hostVars, callVars, treeVars, tracked, sealerVars,
                   warmVars, historyVars, starts>>

\* No process is left to start.
Over ==
    /\ phase \in {"off", "refused"} /\ starts = MaxStarts
    /\ UNCHANGED vars

MainStep == WarmStep \/ ProposeStep \/ Flush \/ (phase = "exit" /\ Ends)

Next ==
    \/ MainStep \/ Call \/ SealerStep \/ Exit \/ Ends \/ Start \/ Damage \/ Over

Spec == Init /\ [][Next]_vars

\* The main thread keeps running; nothing has to be proposed, to end or to fail,
\* and the sealer may stand still.
Fairness == WF_vars(MainStep)

FairSpec == Spec /\ Fairness
=============================================================================
