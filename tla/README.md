# A TLA+ model of vllm-kappa

vllm-kappa adds content-addressed verification and reuse to vLLM without changing
it: a KV connector that witnesses finished requests and shares prefill KV blocks
between engines, a drafter that persists what it learned, a manifest for model
weights, and an offline verifier. This directory models the parts that keep state
across threads, processes and crashes, checks them with TLC and proves the central
invariants with TLAPS.

## 1. Inventory

| Component | State | Operations | Interacts through |
|---|---|---|---|
| KV connector, scheduler side (`connector.py:259-331`) | `_requests_need_load`: request -> claimed block interval | `get_num_new_matched_tokens`, `update_state_after_alloc`, `build_connector_meta`, `request_finished` | host scheduler's calls; reads the index; metadata to the worker |
| KV connector, worker side (`connector.py:333-496`) | `_pending` rows, `_load_errors`, the host's paged buffer | `start_load_kv`, `save_kv_layer`, `wait_for_save`, `get_block_ids_with_load_errors` | metadata from the scheduler side; store and index; error report to the host |
| Witness writer (`connector.py:138-180`) | bounded queue of 2048 jobs, daemon thread, `sealed`/`dropped` | `submit`, `_drain`, `close` | `request_finished` on the scheduler's thread; `build_chain`; `KappaStore.put` |
| Two-tier store (`fabric.py:143-205`) | upload queue of 4096, daemon thread, counters | `put`, `get`, `_drain`, `close` | local files; fabric over HTTP |
| Local files (`fabric.py:35-101`) | object files named by digest, index files named by block key | `put` (temporary file, rename), `get` (verify), `labels`, `drop` | shared by every process on the directory |
| Fabric client (`fabric.py:104-140`) | none | `put_object`, `get_object`, fail-open | the network |
| Addressing (`addressing.py`) | none | `none_hash`, `block_key`, `chain_block_keys`, labels | pure |
| Witness chain (`witness.py`) | none | `build_chain`, `verify_chain` | pure, over a `fetch` callback |
| Verifier CLI (`verifier/kappa_verify.py`) | none | `verify`, `selftest` | store directory |
| Drafter (`drafter.py`) | `_tracked`, the suffix tree, bounded queue, daemon thread | `propose`, `_seal`, `_drain_seals`, `_warm`, `_seal_all` at exit | host's speculative decoding; `KappaStore` |
| Weights (`weights.py`) | manifest file | `build_manifest`, `verify`, `proven_boot_gate` | model directory |
| Fingerprints and seams (`connector.py:63-135`, `__init__.py`) | none | configuration to a record, `hasattr` checks | host |

What is hard in them, and what makes each correct:

- **KV connector.** Engines race on one directory; the scheduler claims from the
  index what a worker loads later; every load may be refused; a refused block is
  recomputed by the host *after* the step that also computed and published the
  blocks behind it; engines crash between files; requests are preempted and
  resumed. Correct means: a request decodes over the blocks a cold prefill would
  have produced, an indexed payload is such a block, and every request is answered.
- **Witness writer and store.** Three threads and two bounded queues, exceptions in
  the middle of a chain, uploads that fail or whose answer is lost, a shutdown with
  timeouts, crashes and restarts, the same request served twice. Correct means: a
  seal is never found without its records, each job and each put is accounted for
  exactly once, shutdown ends.
- **Local files.** Temporary files named by process id and shared by its threads, no
  fsync, an existing object never rewritten. Correct means: a published name stands for
  whole bytes, and a mapping for an object that is there.
- **Witness chain, verifier.** Completeness (what `build_chain` makes verifies) and
  soundness (a changed record or seal is refused or has another label).
- **Drafter.** Requests come and go between calls of `propose`, under two host
  contracts; rows are passed over; drafts are queued for a daemon thread that an
  exception ends, flushed at exit and replayed at boot. Correct means: a draft is a run
  of accepted tokens, each accepted token is in one draft or given up for a reason the
  code has, the tree learns sealed drafts only, and serving never waits for the store.
- **Weights.** Reading takes long and the directory may change under it. Correct means:
  what nobody touched is listed as it is, an altered tensor is not certified, and a
  refusal names a tensor that was altered.

The exposures of the code, each at its line, are in `PROJECT.json` under `hazards`,
with the properties that watch them; those that no property watches say so.

## 2. Plan

| Step | Modules | State |
|---|---|---|
| 1 | `Addressing`, `PrefixCache` (abstract), `KvConnector`, `KvCorrectness`, `MCKvConnector` | done |
| 2 | `AddressingProofs` (keys), `KvConnectorProofs` (type correctness, containment) | done |
| 3 | `KappaStore`, `WitnessWriter` (extends it), `AuditTrail` (abstract), `WitnessCorrectness`, `MCWitnessWriter`, `WitnessProofs` | done |
| 4 | `StoreFiles`, `AtomicFiles` (abstract), `StoreFilesCorrectness`, `MCStoreFiles`, `StoreFilesProofs`: temporary files, renames, threads of one process, deaths, power failures | done |
| 5 | `WitnessChain`, `Auditor` (extends it), `AuditCorrectness`, `MCAuditor`, `AuditProofs` | done |
| 5b | Two runs of `MCAuditor` against what the verifier says of itself: the exit code with `--seal` beside an unrelated damaged object (`kappa_verify.py:8`, `:83`), and records whose version and form are not compared (`witness.py:3`, `:206-222`) | open |
| 6 | `Drafter`, `DraftLog` (abstract), `DrafterCorrectness`, `MCDrafter`, `DrafterProofs` | done |
| 7 | `Weights`, `WeightsCorrectness`, `MCWeights`, `WeightsProofs` | done |
| 7b | Two runs of `MCWeights` against "Certified \| Witness, no third state" (`weights.py:6-9`, `:97-100`): a listed tensor that the file lost is certified, and a file that ends too early keeps the gate reading for ever | open |
| 8 | Connector extensions: chunked prefill, tensor-parallel workers with sharded payloads, a torn index file (`connector.py:364`) | open |
| 9 | `KvTransparencyProofs` and the second half of `WitnessProofs`: what the connector does over whole files, both refinements, the accounting, the shutdown | done |
| 10 | The second halves of `AuditProofs` and `DrafterProofs`: exit code, causes of refusals, key chains, the drafter's books, its drafts and its refinement | done |

Specifications and properties of a component are in its `...Correctness` module, its
small instances in `MC...`, its proofs in `...Proofs`; a module without a prefix of
these is translated from the code.

## 3. Modules

### Addressing
`ChainBlockKeys` chains `BlockKey(parent, tokens, extra)` from `NoneHash(seed)` over
the full blocks; SHA-256 is taken as collision free, so a key *is* the tuple it
hashes. `PromptBlockKeys` is `_prompt_block_keys`: the blocks inside the prompt less
its last token, with no extra keys. The MC module computes every prompt's keys with
it, so TLC evaluates `ChainedKeys`, the assumption the connector's proofs use, on real
chains; `AddressingProofs` proves it of all prompts.

### PrefixCache
The promise of the connector: a keyed cache that may forget, holds only what a cold
prefill computes and publishes a key only while it has none, and requests that are
answered with exactly their cold blocks (gate G3c of `PROMPT.md`).

### KvConnector
One engine step follows the code's order:

| Code | Action |
|---|---|
| `get_num_new_matched_tokens` + `update_state_after_alloc`, successful admission | `Schedule` |
| the same match, but the host has no free blocks | `AllocFails` (the claim stays in `needLoad`) |
| `build_connector_meta` over `scheduled_new_reqs` | `BuildMeta` |
| `start_load_kv`: index read / payload written / no payload / layer mismatch | `Lookup` / `Inject` / `Refuse` / `Mismatch` |
| the host's forward pass and `save_kv_layer` | `Forward` |
| `wait_for_save`: claimed or already indexed / `store.put` / `index.put` | `SkipBlock` / `PutPayload` / `PutIndex` |
| `get_block_ids_with_load_errors` and the host's rewind | `EndStep` |
| end of a request; preemption; process death; a file changed or gone | `Finish`, `Preempt`, `Crash`, `Corrupt`, `Lose` |

State: `index` is the directory of `KeyedIndex`, whose entries are whole labels here (a
torn one ends `start_load_kv` with a `ValueError`, section 6); `objects` says of each label whether
its file is absent, good or bad; `needLoad` is `_requests_need_load`; `window` is the
interval that travels in `_LoadReq` and `_StoreReq`; `loadErrors` is `_load_errors`;
`kvCache` is what the blocks of a request's block table hold; `held` is the label a
worker has between two file operations. `refused` is a history variable.

Abstractions, and why they are sound for the properties:

- A window `<<lo, hi>>` stands for the code's half-open `[lo, hi)` of 0-based blocks.
- A block's content is *what it was computed from*: `<<context, key>>` for a sound
  computation, `<<Wrong, key>>` for one over a wrong prefix, `Junk` for an unwritten
  block, `Rotten` for unverified bytes. Two different wrong results are not told
  apart. Labels are contents: BLAKE3 is collision free and the payload's bytes are
  deterministic (`MEASUREMENT-LOG.md:228-230`).
- `Fetched` is `KappaStore.get`: good local bytes; a bad local file is refused and the
  fabric is *not* asked; an absent one may or may not be answered by the fabric and is
  then backfilled. `Stored` is `LocalStore.put`: an existing file is left alone.
- The index scan of a match is one step, since nothing between two of its reads
  depends on the order; the claims it makes are as stale as the code's when they are
  used. File operations of workers are separate steps.
- A worker handles one request at a time (`Turn`), in any order.
- The `kvd` record is put in the step of `PutIndex`: nothing looks it up.
- The host's prefix cache (`LocalHit`) offers blocks of requests of the same engine and
  adapter that run or finished and are not evicted. A crash leaves the requests of its
  engine `gone`.
- Recovery is vLLM's synchronous one: the connector answers `(n, False)`, and the host
  truncates the request to its longest valid prefix in the running batch
  (`MEASUREMENT-LOG.md:167-170`) and recomputes from there in the next step.
- Prompts are prefilled in one step.

### KvCorrectness
The invariants, the progress property, the refinement mapping to `PrefixCache` and
the inductive invariants `Containment`, `ClaimIsExact`, `OnDisk` and `NothingFails`.

### KappaStore and WitnessWriter
`KappaStore` has the two halves of a put (`WriteLocal`, `Enqueue`), the sync thread
(`TakeObject`, `SyncStops`, `UploadOk`, `UploadFails`), and `CloseStore`.
`WitnessWriter` extends it with the serving thread (`Submit`, `Shutdown`,
`StopWriter`, `JoinWriter`, `StopStore`, `JoinSync`) and the writer thread (`TakeJob`,
`WriteNext`, `QueueNext`, `JobFails`, `WriterStops`). `JobFails` is the `except` branch
of `_drain`: `build_chain` raised, or a local write did. A join may return at any time
(its timeout) and notes in `timedOut` whether its thread was still running. `Die` is
the end of the process, by a crash or after shutdown; a new process follows, on the
same directory and fabric. The counters are kept as the sets of jobs and the numbers
of puts they count, over all processes; increments are atomic, as under CPython's
global lock. A job is its chain of records and its seal; different jobs may share
records, and a repeated request has the same seal.

### WitnessChain, Auditor and AuditCorrectness
`WitnessChain` has the layout of records and seals, `BuildChain` and the checks of
`verify_chain`, one operator per check. An object's bytes are a form and a map:
canonical CBOR, another encoding of the same map, or no map at all; labels are
collision free. `Auditor` is the `verify` command as a process on a live directory:

| Code | Action |
|---|---|
| the writer's puts, its death between two of them, a file changed or gone | `Serve`, `Put`, `Abandon`, `Damage`, `Lose` |
| `labels()` / one `store.get` of `_iter_seals` / `--seal` and "no seals found" | `List` / `Read` / `Select` |
| `verify_chain`: decode and length / one record / re-encoding and verdict | `OpenSeal` / `CheckRecord` / `CloseSeal` |
| the exit code | `Exit` |

The bytes of a seal are those of the first pass; records are fetched when they are
checked. The other objects a store may hold, of other versions or encodings or with
chains that do not fit, are there from the start. What a malformed seal raises is its
refusal (`Walkable`): a block size of zero raises in `range`, a negative one does not. It
gives no full block (`FullBlocks`, `addressing.py:78`), so a canonical seal with such a
size and an empty chain passes and witnesses nothing, which `PassedIsWitnessed` says as
it is. `AuditCorrectness` states completeness (`RefusalHasACause`), soundness token by
token (`PassedIsWitnessed`), the local chaining of keys as a second definition of
`ChainBlockKeys` (`KeysFollow`), what the exit code means, and how far a seal is "the
one label that names this inference" (`OneLabelPerInference`): two passed seals that name
the same engine, sampling, prompt and output need not be one object, since a record may
carry a KV digest or have another form, which `verify_chain` does not compare. But their
records agree block by block on index, key and tokens, and equal records make equal
seals.

### AuditTrail and WitnessCorrectness
`AuditTrail` gives each request one fate and lets its seal appear on disk only after
its records. `WitnessCorrectness` has the accounting invariants, the order of records
and seals on both tiers, shutdown, progress, the refinement mapping and the
strengthenings the proofs need.

### StoreFiles and StoreFilesCorrectness
`KvConnector` and `KappaStore` take a put as one step. `StoreFiles` looks inside it,
with any number of threads and processes on one directory:

| Code (`fabric.py`) | Action |
|---|---|
| `LocalStore.put`, the file exists (`:50`) / it does not, or it is an index entry | `Skip` / `Begin` |
| `write_bytes` opens and empties the temporary file / writes (`:53`, `:86`) | `Open` / `Write` |
| `tmp.replace(path)` / it raises `FileNotFoundError` (`:54`, `:87`) | `Rename` / `RenameRaises` |
| `KeyedIndex.drop` | `Drop` |
| a process comes or dies; the kernel writes back; the power fails | `Boot`, `Dies`, `Writeback`, `PowerFails` |

`file` is what readers find, `platter` what a power failure would leave of it, `tmp` the
temporary files, one per process id and name, and `handle` what an open descriptor
writes to. A rename moves the file under the descriptors of other threads, which then
write into the *published* file. Nothing is synced, so what the power failure leaves of
an unwritten name is the old, the new or an empty file. `clashed` and `lost` are
history: the names two threads of one process wrote at a time, and those a power
failure changed.

`AtomicFiles` is the abstract store: one step per put, in the order of each thread, one
per drop, and names that get spoilt and of which nothing is promised any more.
`StoreFiles` implements it with `clashed` and `lost` as the spoilt names
(`ImplementsAtomicFiles`); so every other name is absent or whole (`TornHasACause`).
`KeyIsBacked` and `RaiseHasACause` say what clashes and power failures do to mappings and
callers; `ClashHeals` that a clash is over when the slower thread has written.

### Drafter, DraftLog and DrafterCorrectness

| Code (`drafter.py`) | Action |
|---|---|
| `_warm`: no usable draft / replay / replay raises / `IntegrityError` of a damaged file, or of other bytes that the fabric gives for a lost one / end | `WarmSkips` / `WarmReplays` / `ReplayFails` / `WarmRefuses` / `WarmEnds` |
| the host calls `propose` with the tokens just sampled | `Call` |
| `_propose_rows`: row at the length limit / unknown request / known request / all rows visited | `SkipRow` / `StartRow` / `ExtendRow` / `RowsEnd` |
| the loop over `active_requests - seen`: `_seal`, `stop_request` / its end | `SealStale` / `Return` |
| `_drain_seals`: `get` / `put` / `put` raises and ends the thread | `Take` / `PutTaken` / `PutRaises` |
| `_seal_all` at interpreter exit, one request at a time; the end of the process, a crash, the next one | `Exit`, `Flush`, `Ends`, `Start` |
| a file is damaged or gone | `Damage` |

A token is a *place* in its request's stream, so that drafts can be compared with what
was accepted; a file's label is the tokens themselves, as two requests may seal equal
drafts. `contract` is chosen at the start: under the pinned one a row has its request's
id, under the nightly one `_row_key`, the first tokens of the context, so that equal
heads share an identity and a short context changes its own. A request that is in no
row (finished, aborted, preempted, or with nothing sampled) is not seen; the model lets
the host leave out any request at any call. What a call does between its rows touches
only the main thread's state, but the sealer runs beside it. `DraftLog` promises a log
that grows by one draft at a time, of accepted tokens that no other draft has.
What `propose` returns is the suffix tree's business and is left out. A replay that fails
after `start_request` leaves its id active, and every later replay of that boot fails at
it. `TrackedIsActive` says that this id is the only one that is active and not tracked, that
it is so only until the first call ends, and that it takes no tracked request with it.

### Weights and WeightsCorrectness
`build_manifest` and `proven_boot_gate` share `_tensor_kappas`: `Open`, `OpenRaises`,
`ReadTensor`, `Spin`, and `StatRaises`, for the `stat` at its end that goes back to the name.
A build is `BeginBuild`, `ListFile`, `StoreManifest`; a gate is `GateWithout` (no manifest)
or `BeginGate`, then `Accept` per file, `Refuse` or `Certify`. `Replace` and `Overwrite`
change the directory at any moment: an open descriptor keeps a replaced file and sees an
overwritten one. A tensor is read in one step; of one that is touched while the reading
lasts, no property says what was read. `changed` is history: which tensors of which files
were touched since the build, or the gate, began.

The properties are about the tensors that were left alone, while others move:
`ManifestIsTheDirectory` about the build; `AlteredIsNeverCertified` and `RefusalIsGrounded`
about the gate. What weights.py promises beyond that, the code does not keep, and the
model shows it without a run (plan, step 7b). A tensor that the manifest lists and the
file no longer has is not compared (`weights.py:86`), so the file is certified. And `Spin`,
the loop of `weights.py:41`, reads nothing from a file that ends too early and goes on for
ever, so that the gate neither certifies nor refuses.

## 4. Runs

`MCKvConnector` uses blocks of two tokens. *Divergent*: two equal prompts of two
blocks and one that shares the first; *Deep*: two equal prompts of three blocks and
one of a single block. `e1` serves two of the requests in turn or together, or two
engines race.

| Run | Question | Bounds | Result |
|---|---|---|---|
| `kv_clean` | Is the connector a transparent, write-once cache while files stay whole? | Deep, 2 engines, 2 crashes | holds: `ImplementsPrefixCache`, `IndexedIsOnDisk`, `ClaimsAreExact`, `TypeOK` |
| `kv_damage` | What can damaged or lost files do? | Divergent, 2 engines, 2 faults, fabric | holds: `NoSilentGap`, `GarbageIsNeverIndexed`, `PoisonIsDownstream` |
| `kv_progress` | Is every request answered? | Divergent, 2 engines, 1 fault of any kind, some layers unusable | holds: `EveryRequestAnswered` |
| `ww_trail` | Do the books balance, is order kept on both tiers, does every job settle and shutdown end? | one request served twice; queues of 1 and 2, 2 deaths, fabric | holds: nine properties |
| `au_live` | Does an audit of a live store refuse or miss anything without a cause, and is what passes true? | 2 requests that share a record, 1 fault, 20 leftovers of other writers, with and without `--seal` | holds: six properties |
| `dr_drafts` | Are drafts genuine, tokens accounted for, the tree grounded, restarts recalled, serving never held up? | 2 requests with equal heads, both contracts, a queue of 1, 1 fault of any kind, 1 restart | holds: eight properties |
| `wt_gate` | What are a manifest, a certificate and a refusal worth in a directory that moves? | 2 files of 2 tensors, 4 start directories, 3 changes | holds: four properties |
| `sf_files` | When is a put not atomic, a mapping unbacked, a put raised? | 2 threads of one process and 1 of another, 2 objects, 1 key, 1 drop | holds: five properties |
| `kv_poison` | Is every indexed payload right? | 1 engine, corruption | **violated**, below |
| `kv_resumed` | Are all claimed blocks loaded or reported? | preemption | **violated** |
| `kv_adapters` | Do adapters keep their blocks apart? | two adapters | **violated** |
| `dr_boot` | Is a boot never blocked by the store? | one damaged object | **violated** |

Why the bounds are enough: every interaction of the connector is between a block, the
blocks before it in one chain, and one other request that shares a prefix; two shared
blocks and a third request that diverges give each of them, and a third block gives a
block behind, inside and before a window. Two faults let a recovery be disturbed
again. For the writer, a queue of one is full with one job behind the one in hand, an
upload queue of two holds a record and the seal behind it, and the request served again
after a death meets what the first left. An audit relates one seal to its records and
two seals to one label, so two chains, and a foreign record with the seal that binds it,
are enough. A draft is disturbed by a request of the same identity, a full queue and a
process that ends: two requests whose heads are equal and then differ, one of which
reaches the length limit, a queue of one, and a restart. A clash of temporary names
needs two threads of one process, and a race without a clash one of another. A gate
relates a tensor to the ones before it and to one other file; three changes let one
happen during the build, one between and one during the gate. The proofs lift the bounds for what they cover.

The four violated runs are disagreements between the code and what it says of
itself; `findings` quotes the lines.

- `kv_poison`: a request is refused block 1, computes block 2 over the hole in the same
  step and publishes it under its valid key before block 1 is recomputed. The skip
  window protects the claimed blocks only (`connector.py:468`), and compute-once keeps
  the wrong block. `PoisonIsDownstream` is what remains true: wrong content never
  appears except behind a block that failed to load.
- `kv_resumed`: a preempted request claims blocks that no worker is told to load.
- `kv_adapters`: block keys carry no extra keys, so two adapters share them.
- `dr_boot`: one object whose bytes do not derive its label ends the boot, although the
  object need not be a draft (`drafter.py:121`, outside the `try` of `:129`).

The models also contain, without a run of their own: the mapping of a refused block
comes back with the recomputed block and names the damaged file that `LocalStore.put`
did not rewrite (`fabric.py:50`), so it is refused again; a worker whose local file is
gone waits for the fabric (`fabric.py:194`, against `:3-4`); a tensor that the manifest
lists and a file no longer has is certified, and a file that ends too early is read for
ever (`weights.py:86`, `:41`, against `:6-9` and `:97-100`); a seal with a negative block
size passes with an empty chain; the replays of a boot after one that failed fail, too
(`drafter.py:128`, with the same id); the row key of a context
shorter than 32 tokens changes with every token (`drafter.py:164`), so the draft of such
a request is cut at every step, and given up where that leaves fewer than four tokens.

Deadlock is checked in every run: the only stops are that all requests are answered or
gone (`Quiet`), that the command has exited, that no process is left to start, or that
every put is done or its process dead (`Over`); the writer's process always ends and
starts again, and the directory of weights can always be gated once more.

### Fairness
- Connector: weak fairness for each engine's loop, each worker's loop and the end of a
  request, which are single threads of a running process. Strong fairness for
  `Schedule`: the host's queue is first come, first served, and a request that keeps
  finding no free blocks gets them when others finish. `AllocFails`, faults and
  preemption are never required.
- Writer: weak fairness for each of the three threads; nothing requires a submission, a
  shutdown or a crash. An upload that hangs ends by the HTTP client's timeout, as
  `UploadFails`.
- Drafter: weak fairness for the steps of the main thread only. The sealer may stand
  still or be dead, no call has to come: `MainGoesOn` depends on neither.
- Files: weak fairness for each running thread's put.

## 5. Proofs

`AddressingProofs` is about the operator the other proofs rest on, `ChainBlockKeys`, for
token sequences and blocks of any length. Its recursion is a recursive function, so a
claim about every position is proved at the least position where it fails
(`LeastNumber`, from the well-foundedness of `<`); the library's induction theorems,
which take an operator as a parameter, are not needed. `KeysExist` gives the function a
value at every length, `KeysAreChained` the local rule that each key hashes the key
before it. From there: `KeyNamesItsPrefix`, equal keys stand at the same position behind
the same tokens; `SharedPrefixSharesKeys`, the converse; `PromptKeysAreChained`, what
`KvConnector` assumes of its prompts' keys as `ChainedKeys`; and
`EligibleBlocksLeaveAToken`, the boundary: what may be loaded of a prompt leaves one token
to a block of them, whatever the length is to the block size. That the hash has no
collisions is in the model of `BlockKey`, not in an assumption.

`KvConnectorProofs!TypeCorrect` proves `TypeOK` from the named assumptions on the
constants: windows, cursors and rewinds stay within each prompt, for any number of
engines, requests, blocks, layouts and faults.

The second part of `KvConnectorProofs` proves `PoisonIsDownstream`, `NoSilentGap` and
`GarbageIsNeverIndexed` for every instance in which no request is preempted and all
run under one adapter; `kv_resumed` and `kv_adapters` show that both conditions are
needed. None of the three is inductive. `Containment` adds what holds between the
steps of a load and a save: every block of a request up to the ones the host counts
as computed is either *doubtful* (still to be loaded, or reported) or *credible*
(right, or computed by some forward pass behind a failed block); so is every index
entry and every label in a worker's hands; and every reported block is a failed one
inside the claimed window. The decisive steps are: `CredibleForKey`, an entry credible
for one request is credible for every other that has the key, by `ChainedKeys`;
`Forward`, where a hole in the computed prefix is a reported block and therefore a
failure that everything behind it is downstream of; and `EndStep`, where the rewind
cuts before the first reported block. `Refused` claims only accumulate, so credibility
is never lost.

`KvTransparencyProofs` proves what the connector is good for. `NoMappingDangles`
(`IndexedIsOnDisk`) needs no condition but that files are not lost; `OnDisk` adds that
the label in the hands of a save is on disk, which holds between the put of a payload
and the put of its mapping. `ClaimsStayExact` (`ClaimsAreExact`) follows a claim from the
match over a failed admission and the metadata to the worker's cursor: `ClaimIsExact`
says at each of these stations that the blocks still to be loaded or reported are
exactly those the paged buffer does not hold; that a local hit holds no unwritten block
comes from `Containment`. Where files stay whole (`FilesStayWhole`: crashes only, every
layer usable), `NothingFails` is inductive: no claim is ever refused, since every claimed
block stays indexed and every indexed payload is good. With `Containment`, whose
excuses are then empty, everything indexed and served is right (`IndexStaysSound`,
`HitsAreColdPrefills`), and each step maps to a step of `PrefixCache` or a stutter
(`ConnectorIsTransparent`): a `PutIndex` to a publication, an `EndStep` to the answer of its
requests, a `Crash` to their withdrawal, all else to nothing.

`WitnessProofs` proves every safety property of the writer, for any jobs, chains, bounds,
crashes and repeated requests. `SealIsBacked` is inductive with `PutIsOnDisk`: what the
writer counted as put is on disk, so when the seal, the last object, is written its
records are there, and an equal seal of another job binds the same records
(`ChainAssumption`: a seal hashes its chain, and no record is a seal). The two accounting
invariants count: `JobsApart` keeps a job from being in two places, and the entries of
a queue are one less or one more after each step. `WriterKeepsTheTrail` is the refinement
of `AuditTrail`. `ShutdownIsComplete` follows a sentinel through its queue:
`WriterStopsLast` and `StoreStopsLast` say that nothing is queued behind it, and that a
join that did not time out saw an empty queue and a stopped thread. `RemoteSealsAreBacked`
needs `UploadsInOrder`: wherever a seal stands in the upload queue, its records are
before it or already uploaded, and so are those the writer has put of the job in hand.

`AuditProofs` proves every property of the auditor, for any objects in the store, any
requests, leftovers and faults. `ObjectAssumption` says what decoding can give,
`WriterAssumption` that what the writer puts has a label and that whoever left one of
its seals left the records too. *Soundness*: `VerdictInv` says what the running report
stands for: while it is ok, the length fits and every record before the cursor was
fetched whole and compared (`VerifiedParts`). `RecordWitnesses` turns equal slices into equal tokens
(`PassedIsWitnessed`); a block that fits into the stream (`BlocksFit`) has no empty slice
that a record without tokens could match, and a block size below zero has no block
(`FullBlocksOf`). `VerifiedKeysFollow` turns equal keys into a chain
(`KeysFollow`), by `KeysAreChained`. `OneLabelPerInference` has two halves.
Seals of one inference have the same expected keys and the same slices, which each
verified record repeats (`VerifiedRecord`, `SameInferenceSameRecords`). Records that are
equal to the byte have one digest, so the chains are equal, and with them the maps; by
`CanonicalPassed` the bytes of a passed seal are a function of its map
(`SameRecordsSameSeal`). *The exit code*: `ListingInv` follows
every listed object, through `seals` and the verdicts, or into `corrupt` and `lost`;
`CleanBillInv` says that the code counted nothing else (`ZeroIsACleanBill`).
*Completeness* (`RefusalHasACause`): `GenuineHolds` shows that each check of `verify_chain`
accepts what `build_chain` makes; `RecordsFirst` and `PutInOrder` that a seal of the
writer is never there without its records unless one was lost; `DoubtHasACause` that a
report about such a seal turns bad only at a record that was damaged or lost.

`StoreFilesProofs` proves the safety properties for any threads, processes and
puts of which each maps a key only to an object its thread put before
(`WorkAssumption`). They need to know whose a temporary file is: outside clashes, one
thread of its process writes it and finds there what its descriptor wrote
(`TmpIsItsOwn`, `OwnBytes`), and an object that a thread has finished, or is about to
map, is backed (`DoneIsBacked`, `ComingIsBacked`). From the same invariant follows the
refinement (`StoreIsAtomic`): `Rename`, and a `Skip` of an object that is there whole, map
to the atomic put; an `Open` that clashes and a power failure to the spoiling of names;
`Begin`, `Open`, `Write`, `RenameRaises`, the write-backs and the deaths to nothing. It is
what allows `KappaStore`, `KvConnector` and `Drafter` to have a put as one action. What
clashes and power failures leave of *objects* are the damaged and lost files of those
models. What they leave of an *index file*, text that is no label, has no counterpart in
`KvConnector` (section 6).
`SeparateNamesAreSafe` adds that nothing clashes and no put raises where the threads of
each process put different names, and that then only a power failure tears a file.
`TornFilesHaveAWriter` is the safety half of `ClashHeals`: a torn file, but for a power
failure, is open in a thread that has yet to write it. It needs the same of temporary
files (`TornTmpHasAWriter`): the rename that publishes a torn one publishes it under the
descriptor of the thread that emptied it.

`WeightsProofs` proves the three safety properties for any directory and any changes.
Each is about tensors that were left alone, so the invariant is, too: what the descriptor
sees of such a tensor, and what was read of it, is what the file holds (`Faithful`,
`ReadSoFar`); such a tensor is listed once the build is past its file (`BuildInv`), and not
contradicted once the gate is (`GateInv`). `DirectoryMoves` is the lemma of `Replace` and
`Overwrite`: they move only what they put into `changed`. Files and tensors are read in
order, so the first difference is the one that is named.

`DrafterProofs` proves every safety property of the drafter and its refinement, for any
requests, streams, bounds, contracts, faults and restarts. `Paired` says, step by step
inside a call, where the tracked requests are those the tree holds; `SynthIsShort` that the
id of a failed replay outlives no call (`TrackedIsActive`); `StoreIsGrounded`
that the drafts in the store and in the listing of a boot were sealed; `RowsFit` that
what a row sampled is part of its context. On top of these:

- *The books* (`EveryTokenAccounted`). Counting is replaced by disjoint sets: `PlacesApart`
  says that rows, tracked, queue, hand, sealed and forgone tokens share none and are
  together what was accepted; `TrackedApart`, `QueueApart` and `SealedApart` that two
  drafts of a kind share none. Each step takes one row's or one draft's tokens from one
  set to the next (`RowLeaves`, `TrackedLeaves`, `QueueShrinks`, `PutAdds`), and a call
  adds to `Accepted` what it puts into rows.
- *The log* (`ImplementsDraftLog`). `Call` maps to `Accept`; `PutTaken` and a `Flush` of a draft
  worth sealing to `Seal`; everything else to a stutter. That the tokens are fresh
  follows from `PlacesApart`, that the draft is long enough from `QueueSealable`.
- *What a draft says* (`DraftsAreGenuine`). Not inductive: that a response goes on
  without a gap depends on where the draft stands when the next row of its identity is
  visited. `Follows` says so for every tracked draft and each request in it: the draft
  has the request up to what the calls have visited, or the request will never have this
  identity again, because it is at the length limit or its row key has outgrown it
  (`OtherId`). Under the nightly contract the identity is a head of every sharer's
  stream (`Keyed`), which makes them alike.
- *Restarts* (`RestartRecalls`). `Recall`: while there was no fault, the sealed drafts lie in
  the store and a boot has read each or will. It needs that an object of another writer
  is not a draft's record (`DrafterAssumption`), or `WarmSkips` could pass over one.

A consequence of `Paired` that `ExtendRowGenuine` uses: a request that the tree knows is
always tracked, so the test of `drafter.py:196` never fails; what it would then drop is
in the model, and counted as given up.

Every invariant and every action property that a passing run checks is thus proved.
Only model-checked is liveness (`EveryRequestAnswered`, `EveryJobSettled`,
`ShutdownEnds`, `MainGoesOn`, `ClashHeals`), which is outside the prover's
reach.

## 6. Not modelled
- A torn index file as the connector meets it: a text without a label makes
  `parse_kappa` raise out of `start_load_kv` (`connector.py:364`, `addressing.py:95-99`), the
  step dies, and the entry stays. An index entry of `KvConnector` is absent or whole.
- Chunked prefill and tensor-parallel sharding of the connector: they need the host's
  chunk schedule and one worker per shard (plan, step 8). `WITNESS_KV` without
  payloads, which puts annotations only.
- What `propose` returns: `speculate` belongs to the suffix tree, and a wrong draft is
  rejected by the target model.
- Identity of the manifest itself, its sizes, dtypes and shapes: nothing compares them.
- The collection of fingerprints, the seam assertions, logging and the hit counters keep
  no state worth a model. The benchmark drivers and `selftest` start the program and
  compare outputs.

## 7. Running
    tlc -config kv_damage.cfg MCKvConnector.tla
    tlc -config ww_trail.cfg MCWitnessWriter.tla
    tlc -config au_live.cfg MCAuditor.tla
    tlc -config dr_drafts.cfg MCDrafter.tla
    tlc -config wt_gate.cfg MCWeights.tla
    tlc -config sf_files.cfg MCStoreFiles.tla
    tlapm DrafterProofs.tla

Definitions whose comment begins with "Faulty variant" are plausible slips of the code
next to the definition they would replace; each property of a passing run is violated
under the variant that `PROJECT.json` names for it under `mutants`.
