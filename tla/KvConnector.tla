---------------------------- MODULE KvConnector ----------------------------
(***************************************************************************)
(* KappaConnector (vllm_kappa/connector.py): engines that share one store  *)
(* directory publish the KV blocks of their prompts under block keys and   *)
(* pull the blocks that others published.                                  *)
(*                                                                         *)
(* One engine step is: the scheduler claims, per new request, the longest  *)
(* run of indexed blocks after the local prefix-cache hit; it hands the    *)
(* worker the metadata of the step; the worker loads the claimed blocks,   *)
(* computes the rest, publishes what is not indexed yet, and reports the   *)
(* blocks it could not load; the host rewinds the requests that own them.  *)
(* Engines interleave freely, may crash between any two steps, and objects *)
(* on disk may be damaged or lost at any time.                             *)
(*                                                                         *)
(* Block counts replace the code's half-open intervals: a window           *)
(* <<lo, hi>> names the blocks lo+1 .. hi of a prompt (1-based), which are *)
(* the code's blocks [lo, hi) (0-based).                                   *)
(***************************************************************************)
EXTENDS Integers, Sequences, FiniteSets

CONSTANTS
    Engine,     \* the engine processes that share the store
    Req,        \* the requests
    Key,        \* block keys
    Ctx,        \* what besides the tokens decides a block's KV: the adapter
    Home,       \* Home[r]: the engine that serves r
    CtxOf,      \* CtxOf[r]: the adapter r runs under
    Prompt,     \* Prompt[r]: the keys of the eligible full blocks of r
    MaxBlocks,  \* bound: the longest prompt, in blocks
    Layout,     \* the paged cache's layout: all layers, some, or none usable
    Fabric,     \* whether a fabric tier is configured
    Faults,     \* which faults may happen
    MaxFaults,  \* bound: how many of them
    None,       \* the absent value
    Idle,       \* the worker holds no index answer
    Wrong,      \* the context of a block computed over a bad prefix
    Junk,       \* whatever an allocated, unwritten block of the cache holds
    Rotten      \* the bytes of a damaged object

Content == ((Ctx \cup {Wrong}) \X Key) \cup {Junk, Rotten}
Window == (0 .. MaxBlocks) \X (0 .. MaxBlocks)
NoWindow == <<0, 0>>
Blocks(r) == Len(Prompt[r])

\* Block j of r as a cold prefill computes it.
Right(r, j) == <<CtxOf[r], Prompt[r][j]>>

ASSUME PromptAssumption ==
    /\ MaxBlocks \in Nat
    /\ Prompt \in [Req -> Seq(Key)]
    /\ \A r \in Req : Blocks(r) <= MaxBlocks
    /\ Home \in [Req -> Engine]
    /\ CtxOf \in [Req -> Ctx]

\* Block keys are chained from the root (Addressing): a key names its position
\* and every key before it.
ASSUME ChainedKeys ==
    \A r, s \in Req : \A i \in 1 .. Blocks(r) : \A j \in 1 .. Blocks(s) :
        Prompt[r][i] = Prompt[s][j] =>
            /\ i = j
            /\ \A h \in 1 .. i : Prompt[r][h] = Prompt[s][h]

ASSUME ValueAssumption ==
    /\ Wrong \notin Ctx
    /\ Junk # Rotten
    /\ {Junk, Rotten} \cap ((Ctx \cup {Wrong}) \X Key) = {}
    /\ None \notin Content
    /\ Idle \notin Content \cup {None}

ASSUME ParameterAssumption ==
    /\ Layout \in {"native", "mixed", "foreign"}
    /\ Fabric \in BOOLEAN
    /\ Faults \subseteq {"corrupt", "lose", "crash", "preempt"}
    /\ MaxFaults \in Nat

VARIABLES
    index,      \* KeyedIndex: block key -> label of the payload, or None;
                \* always a whole label, never the text of a torn index file
    objects,    \* LocalStore: state of the file a label names
    phase,      \* where in its step each engine is
    status,     \* the host scheduler's view of each request
    computed,   \* num_computed_tokens of each request, in blocks
    needLoad,   \* _requests_need_load: the window claimed for a request
    window,     \* the window the step's metadata carries: loads and skips
    cursor,     \* blocks of the window, then of the prompt, already visited
    held,       \* the label a worker has in hand between two file operations
    kvCache,    \* the paged buffer: content of each block of each request
    loadErrors, \* _load_errors: the blocks to report, per request
    refused,    \* history: the <<key, label>> claims that failed to load
    faults      \* how many faults have happened

schedulerVars == <<status, computed, needLoad>>
workerVars == <<window, cursor, held, kvCache, loadErrors, refused>>
storeVars == <<index, objects>>
vars == <<storeVars, schedulerVars, workerVars, phase, faults>>

Phase == {"schedule", "load", "save"}
Status == {"waiting", "preempted", "scheduled", "resumed", "rewound",
           "running", "finished", "gone"}

TypeOK ==
    /\ index \in [Key -> Content \cup {None}]
    /\ objects \in [Content -> {"absent", "good", "bad"}]
    /\ phase \in [Engine -> Phase]
    /\ status \in [Req -> Status]
    /\ computed \in [Req -> 0 .. MaxBlocks]
    /\ needLoad \in [Req -> Window]
    /\ window \in [Req -> Window]
    /\ cursor \in [Req -> 0 .. MaxBlocks]
    /\ held \in [Req -> Content \cup {None, Idle}]
    /\ kvCache \in [Req -> [1 .. MaxBlocks -> Content]]
    /\ loadErrors \in [Req -> SUBSET (1 .. MaxBlocks)]
    /\ refused \subseteq Key \X (Content \cup {None})
    /\ faults \in 0 .. MaxFaults
    /\ \A r \in Req : needLoad[r][2] <= Blocks(r) /\ window[r][2] <= Blocks(r)

EmptyCache == [j \in 1 .. MaxBlocks |-> Junk]

Init ==
    /\ index = [k \in Key |-> None]
    /\ objects = [c \in Content |-> "absent"]
    /\ phase = [e \in Engine |-> "schedule"]
    /\ status = [r \in Req |-> "waiting"]
    /\ computed = [r \in Req |-> 0]
    /\ needLoad = [r \in Req |-> NoWindow]
    /\ window = [r \in Req |-> NoWindow]
    /\ cursor = [r \in Req |-> 0]
    /\ held = [r \in Req |-> Idle]
    /\ kvCache = [r \in Req |-> EmptyCache]
    /\ loadErrors = [r \in Req |-> {}]
    /\ refused = {}
    /\ faults = 0

-----------------------------------------------------------------------------
(* The scheduler side. *)

\* The requests of the engine step in progress.
Batch(e) ==
    {r \in Req : Home[r] = e /\ status[r] \in {"scheduled", "resumed", "rewound"}}

\* The host's own prefix cache holds the first n blocks of r: they are the
\* blocks of s, which is in the same engine and ran under the same adapter.
LocalHit(r, n, s) ==
    \/ n = 0 /\ s = r
    \/ /\ n > 0
       /\ Home[s] = Home[r] /\ CtxOf[s] = CtxOf[r]
       /\ status[s] \in {"running", "finished"}
       /\ n <= Blocks(s)
       /\ \A j \in 1 .. n : Prompt[s][j] = Prompt[r][j]

\* hit is where the scan for indexed keys that starts at block n stops.
ContiguousHit(r, n, hit) ==
    /\ n <= hit
    /\ \A j \in n + 1 .. hit : index[Prompt[r][j]] # None
    /\ hit < Blocks(r) => index[Prompt[r][hit + 1]] = None

\* Faulty variant: the last block is claimed although its tail is not eligible.
AfterMatchPastEnd(r, n, hit) == IF hit > n THEN <<n, hit + 1>> ELSE needLoad[r]

\* Faulty variant: the claim starts one block late.
AfterMatchLate(r, n, hit) == IF hit > n THEN <<n + 1, hit>> ELSE needLoad[r]

\* _requests_need_load[r] after get_num_new_matched_tokens claimed n+1 .. hit,
AfterMatch(r, n, hit) == IF hit > n THEN <<n, hit>> ELSE needLoad[r]

\* Faulty variant: update_state_after_alloc forgets the pop.
AfterAllocKeepsClaim(r, n, hit) == AfterMatch(r, n, hit)

\* _requests_need_load[r] after update_state_after_alloc, which pops it when nothing was claimed.
AfterAlloc(r, n, hit) == IF hit = n THEN NoWindow ELSE AfterMatch(r, n, hit)

Schedule(r) ==
    /\ phase[Home[r]] = "schedule"
    /\ status[r] \in {"waiting", "preempted"}
    /\ \E n, hit \in 0 .. Blocks(r), s \in Req :
          /\ LocalHit(r, n, s)
          /\ ContiguousHit(r, n, hit)
          /\ needLoad' = [needLoad EXCEPT ![r] = AfterAlloc(r, n, hit)]
          /\ computed' = [computed EXCEPT ![r] = hit]
          /\ kvCache' = [kvCache EXCEPT ![r] =
                [j \in 1 .. MaxBlocks |-> IF j <= n THEN kvCache[s][j] ELSE Junk]]
    /\ status' = [status EXCEPT ![r] =
          IF @ = "waiting" THEN "scheduled" ELSE "resumed"]
    /\ UNCHANGED <<storeVars, phase, window, cursor, held, loadErrors, refused,
                   faults>>

\* The claim was made, but the host found no free blocks: the request stays in
\* its queue and update_state_after_alloc is not called.
AllocFails(r) ==
    /\ phase[Home[r]] = "schedule"
    /\ status[r] \in {"waiting", "preempted"}
    /\ \E n, hit \in 0 .. Blocks(r), s \in Req :
          /\ LocalHit(r, n, s)
          /\ ContiguousHit(r, n, hit)
          /\ needLoad' = [needLoad EXCEPT ![r] = AfterMatch(r, n, hit)]
    /\ UNCHANGED <<storeVars, workerVars, phase, status, computed, faults>>

\* Only scheduled_new_reqs enter the metadata: resumed and rewound requests
\* are in the step but neither load nor store.
InMeta(r) == status[r] = "scheduled"

BuildMeta(e) ==
    /\ phase[e] = "schedule"
    /\ Batch(e) # {}
    /\ phase' = [phase EXCEPT ![e] = "load"]
    /\ LET New == {r \in Batch(e) : InMeta(r)} IN
          /\ window' = [r \in Req |-> IF r \in New THEN needLoad[r] ELSE window[r]]
          /\ cursor' = [r \in Req |-> IF r \in New THEN needLoad[r][1] ELSE cursor[r]]
          /\ needLoad' = [r \in Req |-> IF r \in New THEN NoWindow ELSE needLoad[r]]
    /\ UNCHANGED <<storeVars, status, computed, held, kvCache, loadErrors,
                   refused, faults>>

-----------------------------------------------------------------------------
(* The worker side: start_load_kv. *)

\* A worker is one thread: it leaves a request only when done with it.
Midway(r) ==
    \/ held[r] # Idle
    \/ phase[Home[r]] = "load" /\ window[r][1] < cursor[r] /\ cursor[r] < window[r][2]
    \/ phase[Home[r]] = "save" /\ 0 < cursor[r] /\ cursor[r] < Blocks(r)
Turn(r) == \A s \in Batch(Home[r]) \ {r} : InMeta(s) => ~Midway(s)

Loading(r) == phase[Home[r]] = "load" /\ InMeta(r) /\ cursor[r] < window[r][2]

\* Index read for the next claimed block; the entry may have gone since the
\* scheduler claimed it. (A torn entry, whose text is no label, would raise out of
\* start_load_kv; entries here are whole, see VARIABLE index.)
Lookup(r) ==
    /\ Loading(r) /\ held[r] = Idle /\ Turn(r)
    /\ held' = [held EXCEPT ![r] = index[Prompt[r][cursor[r] + 1]]]
    /\ UNCHANGED <<storeVars, schedulerVars, phase, window, cursor, kvCache,
                   loadErrors, refused, faults>>

\* Faulty variant: local bytes are believed without deriving their label.
FetchedUnverified(label) ==
    IF label = None THEN {None}
    ELSE IF objects[label] = "good" THEN {label}
    ELSE IF objects[label] = "bad" THEN {Rotten}
    ELSE IF Fabric THEN {None, label} ELSE {None}

\* Faulty variant: a payload that is not there is waited for.
FetchedOrAwaited(label) ==
    IF label # None /\ objects[label] = "good" THEN {label} ELSE {}

\* What KappaStore.get may return for a label: verified bytes, or nothing. A
\* damaged local object is refused, never fetched from the fabric instead.
Fetched(label) ==
    IF label = None THEN {None}
    ELSE IF objects[label] = "good" THEN {label}
    ELSE IF objects[label] = "absent" /\ Fabric THEN {None, label} ELSE {None}

\* Faulty variant: the temporary file is never renamed.
StoredTemporarily(label) == objects

\* LocalStore.put: an existing file is left alone, whatever it holds.
Stored(label) ==
    [objects EXCEPT ![label] = IF @ = "absent" THEN "good" ELSE @]

Inject(r) ==
    /\ Loading(r) /\ held[r] # Idle /\ Layout = "native"
    /\ \E payload \in Fetched(held[r]) \ {None} :
          kvCache' = [kvCache EXCEPT ![r][cursor[r] + 1] = payload]
    /\ objects' = Stored(held[r])      \* a fabric hit is backfilled
    /\ held' = [held EXCEPT ![r] = Idle]
    /\ cursor' = [cursor EXCEPT ![r] = @ + 1]
    /\ UNCHANGED <<index, schedulerVars, phase, window, loadErrors, refused, faults>>

\* Faulty variant: a block that was not loaded is not reported.
Unreported(r) == loadErrors[r]

\* The blocks of r to report once the one at hand was not loaded.
Reported(r) == loadErrors[r] \cup {cursor[r] + 1}

\* No payload: report the block and drop its mapping.
Refuse(r) ==
    /\ Loading(r) /\ held[r] # Idle
    /\ None \in Fetched(held[r])
    /\ index' = [index EXCEPT ![Prompt[r][cursor[r] + 1]] = None]
    /\ loadErrors' = [loadErrors EXCEPT ![r] = Reported(r)]
    /\ refused' = refused \cup {<<Prompt[r][cursor[r] + 1], held[r]>>}
    /\ held' = [held EXCEPT ![r] = Idle]
    /\ cursor' = [cursor EXCEPT ![r] = @ + 1]
    /\ UNCHANGED <<objects, schedulerVars, phase, window, kvCache, faults>>

\* A payload that some layer cannot take: the block is reported, the layers
\* written before it stay written, and the mapping stays.
Mismatch(r) ==
    /\ Loading(r) /\ held[r] # Idle /\ Layout # "native"
    /\ Fetched(held[r]) \ {None} # {}
    /\ objects' = Stored(held[r])
    /\ loadErrors' = [loadErrors EXCEPT ![r] = Reported(r)]
    /\ refused' = refused \cup {<<Prompt[r][cursor[r] + 1], held[r]>>}
    /\ held' = [held EXCEPT ![r] = Idle]
    /\ cursor' = [cursor EXCEPT ![r] = @ + 1]
    /\ UNCHANGED <<index, schedulerVars, phase, window, kvCache, faults>>

-----------------------------------------------------------------------------
(* The model's forward pass (the host's) and save_kv_layer. *)

\* The blocks after computed[r] are computed over the ones before it: they are
\* right exactly when every block they attend to is.
Computed(r) ==
    LET sound == \A i \in 1 .. computed[r] : kvCache[r][i] = Right(r, i)
    IN [j \in 1 .. MaxBlocks |->
          IF j \in computed[r] + 1 .. Blocks(r)
          THEN IF sound THEN Right(r, j) ELSE <<Wrong, Prompt[r][j]>>
          ELSE kvCache[r][j]]

Forward(e) ==
    /\ phase[e] = "load"
    /\ \A r \in Batch(e) : InMeta(r) => cursor[r] = window[r][2]
    /\ phase' = [phase EXCEPT ![e] = "save"]
    /\ kvCache' = [r \in Req |-> IF r \in Batch(e) THEN Computed(r) ELSE kvCache[r]]
    /\ cursor' = [r \in Req |-> IF r \in Batch(e) THEN 0 ELSE cursor[r]]
    /\ UNCHANGED <<storeVars, schedulerVars, window, held, loadErrors, refused,
                   faults>>

-----------------------------------------------------------------------------
(* The worker side: wait_for_save. *)

\* A foreign layout leaves _pending empty, so there is nothing to visit.
Saves(r) == InMeta(r) /\ Layout # "foreign"
Saving(r) == phase[Home[r]] = "save" /\ Saves(r) /\ cursor[r] < Blocks(r)

\* Faulty variant: the save pass ignores the claimed window.
ClaimedNever(r, j) == FALSE

\* Externally claimed blocks are not ours to store.
Claimed(r, j) == window[r][1] < j /\ j <= window[r][2]

SkipBlock(r) ==
    /\ Saving(r) /\ held[r] = Idle /\ Turn(r)
    /\ \/ Claimed(r, cursor[r] + 1)
       \/ index[Prompt[r][cursor[r] + 1]] # None   \* compute-once
    /\ cursor' = [cursor EXCEPT ![r] = @ + 1]
    /\ UNCHANGED <<storeVars, schedulerVars, phase, window, held, kvCache,
                   loadErrors, refused, faults>>

PutPayload(r) ==
    /\ Saving(r) /\ held[r] = Idle /\ Turn(r)
    /\ ~Claimed(r, cursor[r] + 1)
    /\ index[Prompt[r][cursor[r] + 1]] = None
    /\ objects' = Stored(kvCache[r][cursor[r] + 1])
    /\ held' = [held EXCEPT ![r] = kvCache[r][cursor[r] + 1]]
    /\ UNCHANGED <<index, schedulerVars, phase, window, cursor, kvCache,
                   loadErrors, refused, faults>>

\* The kvd record put next is an object of its own that nothing looks up.
PutIndex(r) ==
    /\ Saving(r) /\ held[r] # Idle
    /\ index' = [index EXCEPT ![Prompt[r][cursor[r] + 1]] = held[r]]
    /\ held' = [held EXCEPT ![r] = Idle]
    /\ cursor' = [cursor EXCEPT ![r] = @ + 1]
    /\ UNCHANGED <<objects, schedulerVars, phase, window, kvCache, loadErrors,
                   refused, faults>>

-----------------------------------------------------------------------------
(* The host: end of a step, and the life of a request around it. *)

\* The longest prefix of r that no reported block cuts.
ValidPrefix(r) ==
    (CHOOSE j \in loadErrors[r] : \A i \in loadErrors[r] : j <= i) - 1

\* The worker hands over _load_errors; the host rewinds the requests concerned
\* to their longest valid prefix and lets the others decode.
EndStep(e) ==
    /\ phase[e] = "save"
    /\ \A r \in Batch(e) : Saves(r) => cursor[r] = Blocks(r)
    /\ phase' = [phase EXCEPT ![e] = "schedule"]
    /\ LET Bad == {r \in Batch(e) : loadErrors[r] # {}} IN
          /\ status' = [r \in Req |-> IF r \in Bad THEN "rewound"
                                      ELSE IF r \in Batch(e) THEN "running"
                                      ELSE status[r]]
          /\ computed' = [r \in Req |-> IF r \in Bad THEN ValidPrefix(r)
                                        ELSE IF r \in Batch(e) THEN Blocks(r)
                                        ELSE computed[r]]
    /\ window' = [r \in Req |-> IF r \in Batch(e) THEN NoWindow ELSE window[r]]
    /\ cursor' = [r \in Req |-> IF r \in Batch(e) THEN 0 ELSE cursor[r]]
    /\ loadErrors' = [r \in Req |-> IF r \in Batch(e) THEN {} ELSE loadErrors[r]]
    /\ UNCHANGED <<storeVars, needLoad, held, kvCache, refused, faults>>

Finish(r) ==
    /\ status[r] = "running" /\ phase[Home[r]] = "schedule"
    /\ status' = [status EXCEPT ![r] = "finished"]
    /\ UNCHANGED <<storeVars, workerVars, phase, computed, needLoad, faults>>

-----------------------------------------------------------------------------
(* Faults, at most MaxFaults of the kinds in Faults. *)

Fault(kind) ==
    /\ kind \in Faults
    /\ faults < MaxFaults
    /\ faults' = faults + 1

\* The host takes the blocks of a running request away and queues it again.
Preempt(r) ==
    /\ Fault("preempt")
    /\ status[r] = "running" /\ phase[Home[r]] = "schedule"
    /\ status' = [status EXCEPT ![r] = "preempted"]
    /\ computed' = [computed EXCEPT ![r] = 0]
    /\ kvCache' = [kvCache EXCEPT ![r] = EmptyCache]
    /\ UNCHANGED <<storeVars, phase, needLoad, window, cursor, held, loadErrors,
                   refused>>

\* The process dies: its requests and its memory go, the files stay.
Crash(e) ==
    /\ Fault("crash")
    /\ LET Lost == {r \in Req : Home[r] = e /\ status[r] # "waiting"} IN
          /\ Lost # {}
          /\ status' = [r \in Req |-> IF r \in Lost THEN "gone" ELSE status[r]]
          /\ computed' = [r \in Req |-> IF r \in Lost THEN 0 ELSE computed[r]]
          /\ needLoad' = [r \in Req |-> IF Home[r] = e THEN NoWindow ELSE needLoad[r]]
          /\ window' = [r \in Req |-> IF r \in Lost THEN NoWindow ELSE window[r]]
          /\ cursor' = [r \in Req |-> IF r \in Lost THEN 0 ELSE cursor[r]]
          /\ held' = [r \in Req |-> IF r \in Lost THEN Idle ELSE held[r]]
          /\ kvCache' = [r \in Req |-> IF r \in Lost THEN EmptyCache ELSE kvCache[r]]
          /\ loadErrors' = [r \in Req |-> IF r \in Lost THEN {} ELSE loadErrors[r]]
    /\ phase' = [phase EXCEPT ![e] = "schedule"]
    /\ UNCHANGED <<storeVars, refused>>

Corrupt(label) ==
    /\ Fault("corrupt")
    /\ objects[label] = "good"
    /\ objects' = [objects EXCEPT ![label] = "bad"]
    /\ UNCHANGED <<index, schedulerVars, workerVars, phase>>

Lose(label) ==
    /\ Fault("lose")
    /\ objects[label] = "good"
    /\ objects' = [objects EXCEPT ![label] = "absent"]
    /\ UNCHANGED <<index, schedulerVars, workerVars, phase>>

\* Every request was answered or lost with its engine: nothing is left to do.
Quiet ==
    /\ \A r \in Req : status[r] \in {"finished", "gone"}
    /\ UNCHANGED vars

-----------------------------------------------------------------------------
EngineStep(e) == BuildMeta(e) \/ Forward(e) \/ EndStep(e)

LoadStep(r) == Lookup(r) \/ Inject(r) \/ Refuse(r) \/ Mismatch(r)
SaveStep(r) == SkipBlock(r) \/ PutPayload(r) \/ PutIndex(r)

RequestStep(r) ==
    Schedule(r) \/ AllocFails(r) \/ LoadStep(r) \/ SaveStep(r) \/ Finish(r)

Next ==
    \/ \E e \in Engine : EngineStep(e) \/ Crash(e)
    \/ \E r \in Req : RequestStep(r) \/ Preempt(r)
    \/ \E label \in Content : Corrupt(label) \/ Lose(label)
    \/ Quiet

Spec == Init /\ [][Next]_vars

\* The host keeps stepping its engines and the worker its loops; a request is
\* not refused blocks for ever.
Fairness ==
    /\ \A e \in Engine : WF_vars(EngineStep(e))
    /\ \A r \in Req : /\ SF_vars(Schedule(r))
                      /\ WF_vars(LoadStep(r))
                      /\ WF_vars(SaveStep(r))
                      /\ WF_vars(Finish(r))

FairSpec == Spec /\ Fairness
=============================================================================
