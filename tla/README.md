# Verification of gonka-poc

`gonka_poc` adds proof-of-compute (PoC) to a vLLM server: an HTTP router under
`/api/v1/pow`, a middleware that shuts chat out while a mining round runs, and a
worker extension that executes PoC forwards next to, or instead of, inference.
This directory holds TLA+ models of its control logic, TLC configurations that
check them on small instances, and TLAPS proofs for every size. Paths in this
file are relative to `src/src/gonka_poc/` unless they start with `docs/` or
`README`.

## 1. The system

One API-server process runs one asyncio event loop; the engine core is another
process that takes commands from a FIFO queue; the workers execute forwards.

| Component | State | Operations | Talks to |
|---|---|---|---|
| Mining rounds and gate (`poc/routes.py`, `entrypoint/gating.py`) | `_poc_tasks`, `PoCGate._active`, the generation and callback tasks of a round, `stop_event` | `/init/generate`, `/stop`, `_generation_loop`, `_on_generation_done`, the middleware | aborts inference, sends forwards, drains the queue |
| KV reservation (`poc/reservation.py`, the engine half of `_compat/v0_25.py`) | `_poc_reservation_lock`, the probe cache, the lease, the block pool | probe, borrow, escalate, forward, return, prefix-cache reset | the engine core's queue; contends with inference |
| Nonces, mining loop, callback sender (`routes.py`, `poc/callbacks.py`) | `NonceIterator._current_x`, `pending_nonces`, `_buffer`, `_pending_payload` | take, forward, retry after a timeout, buffer, post, give up | the url's server |
| KV layouts (`poc/poc_model_runner.py`, `_compat/v0_25.py`) | lease, block table, slot mapping | borrow sizing, `_borrowed_layout`, `_inplace_layout` | the one pool all attention groups share |
| Job queue and callback queue (`poc/generate_queue.py`, `poc/callbacks.py`) | `_queue`, `_results`, `_queued_nonces`, `_worker_task`, `_stop_event`, two singletons, deque, send tasks | enqueue, worker loop, post with retries, `/stop` | mining rounds (waits for them), reservation (inside a job) |
| PoC forward on the ranks (`poc/poc_model_runner.py`, `worker/extension.py`) | the TP barriers, the tensors between pipeline stages, the rank's nonces and lease | agree on the arguments, generate inputs, run the layers, drop NaN rows, derive artifacts | the other ranks; the router takes the union of what they return |
| Layer hooks (`poc/layer_hooks.py`) | hooks registered per layer, `worker._poc_layer_hooks`, the active flag | install for a block hash, detach, reflect while the flag is up | the model that inference runs too |
| Seeded inputs (`poc/gpu_random.py`) | none | the generators of inputs, picks, rotations and reflections | |
| Synchronous `/generate` and validation (`routes.py`, `poc/validation.py`, `poc/data.py`) | the handler's locals: lease, chunk, artifacts computed | check the claims, wait for mining, compute chunk by chunk, compare, binomial test | reservation, forward, mining rounds |
| Chat on the same pool (`entrypoint/gating.py`, `reservation.py`, `_compat/v0_28.py`) | the gate, `request_states`, the blocks' references and prefix hashes | admit or refuse, abort all, in-place and leased forwards, prefix-cache reset | everything above, through the engine core's queue |
| Version look-up, server assembly, linter | set up once | | |

What is hard here:

- every `await` of a handler lets another handler in: check-then-act on
  `_poc_tasks`, on the gate and on the queue singleton;
- cancellation can arrive at any await, and cleanup itself awaits;
- the engine core executes calls whose caller gave up (timeout, cancellation);
- PoC and inference share one block pool and, on the fallback path, the very
  same blocks;
- a post may arrive and its answer be lost, so payloads repeat;
- prefix hashes outlive the bytes they stand for when an in-place forward writes over a
  free block;
- a rank that raises leaves the others waiting in a collective, and hooks, flags and
  tensors in a channel survive the call they belong to;
- four block sizes (pool block, manager block, kernel block, stripe) meet in the
  address arithmetic of the layouts.

What makes each component correct:

- **rounds**: one at a time, behind the gate, always stoppable; the gate never
  stays shut; every request is answered;
- **reservation**: PoC work is serial, leases come back, a leased forward writes
  only its lease, every validation gets through;
- **stream**: no nonce twice in the network, none lost but by a stated rule,
  delivered in order;
- **layout**: addresses stay inside the lease, are distinct, and reads agree with
  writes;
- **shared pool**: an in-place forward destroys only requests that came after its abort,
  a leased one touches what nobody else refers to, no prefix hit serves PoC bytes;
- **forward**: an artifact depends on its nonce and its round only, whatever ran before
  and whatever else was in the batch; inference is never reflected;
- **validation**: the verdict names the bad claims and no honest one, and always comes;
- **queue**: the cap counts what is held, a record stays until it can be pulled, a
  stop leaves nothing behind, jobs and callbacks come to an end.

The `hazards` of `PROJECT.json` name the source line of each hard case, and the
properties that watch it.

## 2. Modules

| Module | Models | Checked by | Proofs |
|---|---|---|---|
| `ExclusiveGate` | abstract: what ADR-0013 promises | refined by `MiningRound` | |
| `JobStore` | abstract: what `/generate` with `wait=false` promises | refined by `GenerateQueue` | |
| `MiningRound` | requests, round tasks, done-callback, gate | `Mining*.cfg` | `MiningRound_proofs` |
| `KvReservation` | lock, probe, lease, escalation, forward, return; engine queue; chats | `Kv*.cfg` | `KvReservation_proofs` |
| `ArtifactStream` | nonce iterator, mining loop, callback sender | `Stream*.cfg` | `ArtifactStream_proofs` |
| `KvLayout` | lease sizing and address arithmetic | `Layout*.cfg` | `KvLayout_proofs` |
| `GenerateQueue` | job queue, worker, callback queue, `/stop` | `Queue*.cfg` | `GenerateQueue_proofs` |
| `SharedPool` | gate, aborts, in-place and leased forwards, scheduler, prefix cache | `SharedPool.cfg` | `SharedPool_proofs` |
| `SeededInputs` | which draws of which seed make which entry | through `PocForward` | `Validation_proofs` |
| `PocForward` | the PoC forward on a grid of ranks, hooks, pipeline channels | through `Validation` | `Validation_proofs` |
| `Validation` | `/generate` with `wait=true`, claims and verdict | `Validation*.cfg` | `Validation_proofs` |
| `Induction` | nothing: lemmas on numbers, finite sets, sequences and sums that the proofs share | | itself |

Each `MC_*` module extends one of these with the definitions its `.cfg` files use.
Operators whose comment says *Mutant* are faulty variants of the operator they
precede; no specification uses them. They show that each property fails when the
code it is about is broken.

### How an action corresponds to code

What a coroutine does between two awaits that suspend is one action, and each
such await is a value of a program counter (`pc`, `gen`, `stop`, ...). An await of
something already done does not suspend, so no action ends there. Error paths and
`finally` blocks are actions or disjuncts of their own. Operators carry the
name of the function they translate where TLA+ allows it; the `map` of
`PROJECT.json` gives the lines.

**MiningRound.** `Arrive`, `BeginFresh`/`BeginCancel`/`BeginEnded` are the 409 check
with the pop and cancel of `_cancel_poc_tasks`; `GenAwaited`, `CallbackAwaited` its
two awaits; `Proceed` what follows it (`Activate`, or the drain of the queue for
`/stop`); `Spawn` and `Teardown` the two ends of the guarded block; `Gen*` the
generation task; `OnGenerationDone` the done-callback, a step of its own because
asyncio schedules it. `Overlap` says what a client does: wait for every answer,
send `/init/generate` during a `/stop`, or anything.

**KvReservation.** A job enters the lock's FIFO, probes, polls for a lease,
escalates by an abort, forwards chunk by chunk and returns. The engine core is a
queue of calls that execute in order, also for callers that are gone. Chats take
and free blocks. `MayFail` names the calls that may raise, `CancelAt` the
suspension points a cancellation may hit.

**ArtifactStream.** The workers that are watched (`Workers`) of a network of `NNodes`
nodes with `NGroups` groups each; a worker has its iterator, loop and sender. A forward may time out, fail, or return all or some of its nonces; a post
may fail before or after the server took it.

**KvLayout.** Borrow of any choice and order of free blocks, chunks of a job up to
the leased batch, and both layouts for every attention group, while other requests
allocate and free blocks.

**GenerateQueue.** A queue object is named by the job whose request created it, a
worker and a callback queue by the job that started the worker. Singletons are
variables apart from the objects, because `clear_queue` awaits between using the
object and forgetting it. `task` may name a worker that is over and not yet
forgotten, which is where `ensure_worker_running` and `stop_worker` race.

**SharedPool.** `Send`, `Call` and `Executes` are the engine core's queue: a call
carries who asked, the blocks or requests it is about and, for an in-place forward,
the requests that were with the engine when inference was aborted for it. `Round*`
are the mining round, `Job*` one validation, `Dispatch` and `AddRequest` the two
moments of a chat the middleware and the engine client see apart, `Schedule`,
`Finish` and `Engine*` the engine core, where scheduling shares cached blocks, takes
free ones with their old hash, and preempts. `ResetAnswered` is
`reset_prefix_cache_after_inplace_poc` with its second, preempting attempt.
`excuse` records why the cache may be dirty all the same: the second attempt failed and
was logged, or `/stop` cancelled the task inside its reset.

**SeededInputs.** A 32-bit hash is the pair of a seed and an index, an entry of a row
names the two draws and the branch (cosine or sine) it is made of. The generators
are translated as that indexing, batched and row by row.

**PocForward.** Each rank of a `Tp` x `Pp` grid works through the calls in order: `Begin`,
`Barrier`, `Receive`, `Barrier2` (the TP synchronisation), `Prepare` or `HooksRaise`
(`_ensure_layer_hooks`), `LayoutRaises` (the layout, the metadata or the inputs raise,
with a tensor still in the channel), `Enter` (a rank takes its input and raises the
flag the hooks look at), `Model` or `ModelRaises` (one collective step of a stage, since its layers
synchronise the ranks, or a rank that raises in it; both lower the flag), `Finish` (NaN
filter and derivation). While a rank waits for its peers in the collective its flag is up. A rank
raises by chance (`FaultAt`, counted by `MaxMishaps`), or because what it received has
not as many rows as its call has nonces (`Fits`). A vector is the term
it is computed from: the seed of its input, the reflections the installed hooks
applied, the seeds of pick and rotation. `Answer` is the router's union.
`Abandon` is the timeout of the call; the ranks go on with what they were sent.

**Validation.** `Arrive` is the 400 on claims that do not match the nonces, `Reserve` the
wait for mining and the division of the chunk count, `ChunkBegins`, `SendChunk`,
`ChunkAnswered` and `ChunkFails` the loop, `Verdict` the response. A claim is of
one of six kinds (honest, far, of another shape, with NaN, empty, or garbled: `decode_vector`
raises on it, which answers 500 if its nonce was computed); distances are near or far. `fraud_test` is the binomial tail, in integers scaled by the denominator, with a
recursive function for the powers.
`Mine` and `Infer` send other calls to the same ranks.

### Composition

`SharedPool` puts together what three modules keep apart: the round of `MiningRound`
with its gate, the job of `KvReservation` with its lease, and chat, on one pool and one
engine queue; it leaves the lock, the probe, the polls and overlapping
requests to them. `Validation` extends `PocForward`, which extends `SeededInputs`: the
handler sends its chunks to the ranks, mining and inference theirs. `KvLayout` says
where the ranks of `PocForward` write. `MiningRound` is shown to implement
`ExclusiveGate`, `GenerateQueue` to implement `JobStore`: there jobs are accepted when what is
held then fits under the cap, run one at a time in order, settled once, and a `/stop` is one
step. What a client sees is the mapping: the queue and the record of the singleton, and the
worker's job unless a stop has let go of it.

Elsewhere the models share the events at their borders. A mining round is a flag for
`GenerateQueue` and `Validation` (`mining`), the reservation is one suspended step of a
job (`work`), the drain of the queue is one suspended step of `/stop` in `MiningRound`
(`drain`); `EveryJobGetsThrough` and `EveryStopEnds` justify treating those as steps
that end.

## 3. Runs

| Run | Question and answer |
|---|---|
| `mining_serial` | three `/init/generate` and two `/stop`, one at a time, with crashes, timeouts, failing look-ups: one round, behind the gate, reachable, stopped; implements `ExclusiveGate` |
| `mining_overlap` | the same with any overlap (two and two): the gate never latches, the registry is sane, all requests are answered |
| `mining_two_rounds` | violated, see section 6 |
| `kv_leases` | two validations, a chat, three blocks of which two are needed, every call may fail, cancellations in the lock queue and in a forward: serial work, no silent leak, busy means inference, every job gets through the lock |
| `kv_cancel_leaks` | violated, see section 6 |
| `stream_pipeline` | one worker of a 2 x 2 network, three batches of two, a buffer of three: nothing vanishes, order, first sightings in order at the receiver, no nonce of another node or group, everything leaves |
| `layout_leases` | three groups (split, small, odd block), a pool of five usable blocks, up to two nonces of up to five tokens: the four address properties and the sizing |
| `layout_null_block` | violated, see section 6 |
| `queue_serial` | three jobs and two stops, no request during a stop: cap, quiet stop, implements `JobStore`; every job, every callback and every stop comes to an end |
| `validation_job` | one validation on a 2 x 2 grid with a mining round, one other call and one mishap (a rank that raises, a NaN row, a late answer): ranks agree, artifacts are the reference vectors, inference is spared, the verdict is right, the request is answered |
| `validation_one_rank` | violated, see section 6 |
| `shared_pool` | a round of up to two forwards, a validation of two chunks, two chats, three blocks, and forwards, borrows and resets that fail: only newcomers are overwritten, leases are private, the prefix cache is clean once in-place work is over |

### Bounds

- *Requests.* Two rounds already race for the registry; the third and two stops let
  a stop follow a crash that followed a re-init.
- *Blocks.* A lease takes two of three blocks, so one chat is enough to make the pool
  busy and two jobs cannot hold leases at once. `MaxPolls = 1` gives a first poll, a
  deadline and a retried poll after the escalation; two chunks give a chunk boundary.
- *Nonces.* `Limit` stops the iterator after three batches; a buffer of three for
  batches of two overflows while a payload is pending, and two retries give a repeat
  and a last attempt.
- *Layout.* Five tokens over blocks of two, three and four end inside and at the
  edge of a block; larger numbers are the proofs' part.
- *Queue.* The first job has two nonces and `Cap = 3`, so the cap is reached with one
  job queued beside one that is worked on; `Posts = 1` makes callbacks wait for the
  semaphore, `CbCap = 1` makes the deque drop. One attempt per callback
  (`MaxRetries = 1`): two of them with two stops take TLC too long for its temporal properties; they pass with one stop,
  and the theorems hold for any number. Requests that overlap a stop are
  switched off, for the reason section 6 gives.
- *Ranks.* Two ranks per stage make a driver and a receiver, two stages a sender and a last
  one; one layer per stage, a hook each. `MaxMishaps = 1`: one raise, NaN row or late
  answer, then anything that follows. After a raise no call is answered on this grid, since the
  peer waits in the collective; what is answered after one is the question of
  `validation_one_rank`, with one rank per stage. Two mishaps are not checked. One call of others
  (`MaxOthers = 1`), a mining batch with another hash or an inference step, falls
  before, between or after the chunks. The bodies have a nonce twice, claims of every
  kind, one that does not decode among them, claims about other nonces, no claims, and batch sizes 2, 1, 0 and -1. With
  `PNum/PDen = 1/10` and one to three nonces the test decides both ways.
- *Pool.* An in-place forward writes two of three blocks, a lease takes two: a chat can
  hold a block inside or outside the layout, make a borrow fail, share a cached prefix
  (each chat has a prefix of its own and may come back to it after a preemption), or
  be preempted. Two forwards give a newcomer between abort and forward a second abort.
  One round: a second one starts from a state the first one's end reaches.

`CHECK_DEADLOCK FALSE` is set in all runs because requests are finitely many: the
models stop when the last one is answered.

Symmetry is used in runs of safety properties only. The types of the reservation, the
stream and the layout are not checked again in runs, they are theorems.

### Fairness

Weak fairness, action by action, of what the event loop and the engine core do on
their own: a task that can be resumed is resumed, a cancelled task is resumed, the
engine core takes the next call, a post ends within its 10 s timeout, an RPC answers
or times out. No fairness is assumed of clients, of success, of the order in which
tasks run, or of the end of a mining round: `EveryJobSettles` has "mining ends" as
its hypothesis, since the queue waits for it by design, and so has
`EveryValidationAnswers`. On the ranks: a rank that can run runs, a collective that
all its ranks have reached ends, the timeout of a call fires. A collective that a
rank never reaches does not end, which is what the hazard is about.

## 4. Proofs

The proof modules are checked by TLAPS to the last leaf, from the constants'
assumptions alone (`RoundAssumption`, `ReservationAssumption`, `StreamAssumption`,
`LayoutAssumption`, `PoolAssumption`, `ForwardAssumption`, `ValidationAssumption`, `QueueAssumption`),
which TLC evaluates in the runs.

**MiningRound_proofs.** `TypeCorrect`, `GateOpens` (`GateNotLatched`) and `RegistryIsTrue`
(`RegisteredIsLiveOrCrashed`) hold for any overlap. The gate's is inductive with the types; the
registry's needs `Registered`: a registered round was neither cancelled nor told to stop, an
unspawned round is untouched. The others assume
`Overlap = "none"`, as section 6 shows they must. `AtMostOneRound` is not inductive: a
handler that passed the 409 check must know that nobody else did, and that the
registry tells the truth. `SerialInv` says so in three parts: `OneAtATime` (one request
in flight, one claimed round, the gate shut for both), `Known` (who holds the
claimed round: the registry or one `/stop`; a handler past the check has an empty
registry and no round), and `Registered`. `OneRound`, `GateShut`, `Reachable` are read
off it, `NoLoopIsOrphaned` (`CallbackLoopIsOwned`) is inductive on top of it, and `ImplementsExclusiveGate` shows that every step is an abstract step or a
stutter under the mapping *owners = rounds running or not yet announced as done*. `WaitsAreSignalled`, for any
overlap and on `Registered`, is the safety half of `EveryRequestIsAnswered`: whoever awaits a
generation has set its stop_event, and its task ended, resets, or has a cancellation coming.

**KvReservation_proofs.** `KInv` adds to the types and to `OnlyTheHolderWorks` that the
counters of polls, chunks and return attempts are in the range their suspension point
implies (`Counted`), without which the next poll or attempt could leave its type.
`LockSerialises` holds for any number of jobs, failures and cancellations. `TInv` adds where a
job that owns blocks can be suspended and that its lease names them (`Tenancy`), and that
at most one borrow or return is in the engine's queue, of the job waiting for its answer
(`Asked`): the lock alone does not say this, since a cancelled job releases it with its
call still queued. `NoBlockIsLost` and `BusyIsInference` are read off it. Both assume that
jobs are cancelled only while they wait for the lock or work (`CancelAt`), which
`kv_cancel_leaks` in section 6 shows they must.

**ArtifactStream_proofs.** `NoncesDisjoint` and `NoncesCover` are the arithmetic: the
formula of `NonceIterator` maps nodes, groups and steps one-to-one onto the natural
numbers (two divisions with remainder). `SInv` bounds what is in flight to nonces
that the worker has taken; `NetworkDisjoint` combines both. `FlowInv` is the pipeline of one
worker: what was seen, is being sent, is buffered and is computed follow each
other (`Order`, `BatchIsNew`: a batch not yet answered is newer than all of it and is what
a retry sends), and until a stop every nonce handed out is somewhere (`Traced`). A payload
in flight is new or a repetition of what was seen as a whole, which is what
`SeenInOrder` needs; `NothingIsLost` and `PipelineOrdered` are read off. The lemmas on
concatenating and cutting sequences are stated once at the head of that part.

**KvLayout_proofs.** `LInv`: a lease is injective, disjoint from live requests and
long enough for the stripe of every group; what is laid out is the layout of the
current chunk; the guards never failed. `LeaseFits`, `TouchesItsLease`, `NoCollision`
and `AddressesAgree` follow by the division lemmas at the head of the module
(`SplitToken`: a token's manager block is that of its kernel block).

**SharedPool_proofs.** The properties are about calls that wait in the engine's queue, so
`PoolInv` relates positions in it. `LeaseInv`: blocks the job refers to are
its alone and carry no hash (`Own`), leased forwards in the queue write such
blocks (`Backed`), a return is behind every leased forward (`ReturnsLast`), and until the
return is sent the lease is on loan (`OnLoan`). A late forward therefore finds its lease,
also after the job gave up waiting: `LeasePrivate`. `ChatInv`: a request is added once, and
before any abort of it (`AddedOnce`); what the engine client does not know is in no abort
(`Admitted`); what the engine has is in `request_states` or in a queued abort
(`Tracked`); so whoever was there when `u` aborted is over when the calls queued so far
are done (`Known`), and a forward that spares them is behind that abort (`Spared`):
`NewcomersOnly`. `AnswersAreOwn` adds who waits for what: of a user that awaits there is
one call or one answer (`Once`, `Unanswered`), although cancelled and timed out callers leave
theirs in the queue. On top of it `PoolTypes`, and `CacheClean`: `ResetInv` says that an
in-place forward in the queue, also one nobody awaits any more, has behind it a call of a
user that is still at work in place (`Attended`), that a user awaiting its reset has no other
call in the queue (`AwaitsReset`), and that unless `excuse` says otherwise the cache is clean
once no user owes a reset (`CleanOutside`). Each kind of step has a lemma (a call, an abort, a
step without the queue, an executed call), the actions are instances of them.

**Validation_proofs** follows the data from the seeds to the verdict.

- *Seeded rows.* No two entries of a row are made of the same draws and branch
  (`EntriesDiffer`, and `ConcatEntriesDiffer` for the stronger generator, whose segments
  tile the row, `SegmentsTile`); the batched generator is the row-by-row one
  (`BatchIsRowByRow`). The content is arithmetic of halves and segments,
  for rows of every length.
- *Ranks.* `RanksAgree`: `RanksInv` counts in `Turn` how often a rank has entered with its
  stage; the ranks of a stage are always in the same turn and between the barriers
  together (`InStep`), so what a receiver copies is the driver's argument of the same call
  (`Handed`, `DriverSends`). That both barriers are needed shows in `InStep`: without the
  second one a driver could be a call ahead.
- *Types and hooks.* `ValidationTypesHold` needs that a batch in a rank or in a channel is a
  finite sequence of rows (`Batches`), through every filter and concatenation.
  `InferenceIsSpared`: a flag is up exactly on the ranks that are in the model or wait in it
  for their peers (`FlagTracks`), and a rank in an inference step is not one of them, so that
  the hooks are silent whichever a failed constructor left behind (`HooksAreSilent`); a
  context that forgets to lower its flag when the forward raises breaks it.
- *Artifacts.* `AnswersAreReproducible` says `ArtifactsAreReproducible` as long as
  `faults < Tp`: fewer ranks raised than a stage has, so that a rank is left in every stage
  that did not. `Control`: where a peer raised, the one left waits for it in the collective
  for good (`Stuck`), where none did the ranks move as one (`Together`), and a rank that raised
  never passes a barrier again (`LastWord`). A stage that lost step therefore sends
  nothing more, and `Data` can say that hooks, tensors in channels, rows and results are
  those of the call they are used in. Without
  the hypothesis the property is false, see section 6. `FewFaultsReproduce` is the
  invariant for a grid in which no rank can raise or `MaxMishaps < Tp`, as in the run.
- *Verdict.* `VerdictInv` describes what the handler has collected (`Collected`): every
  artifact has a position of the request's nonces to itself (a chunk returns each nonce at
  most once, chunks are disjoint intervals), it is the reference vector of that nonce, and
  no position is missing unless a row was lost. From this `VerdictsAreRight` follows by counting; that a
  batch without a mismatch is never called fraud is the binomial theorem, proved here
  for the scaled integers of `fraud_test`: the weight of "none or more" is that of the whole
  distribution. It assumes `FraudNum <= FraudDen`: `fraud_threshold` is not validated, and above
  one it calls every batch fraud. `FewFaultsJudgeRight` is the invariant without a
  condition on the state.

**GenerateQueue_proofs.** `JobQueueTypes` holds for any overlap. It needs `InHand` (an alive
worker has its instance, a worker past `get` its job), and it is where the clamp of the nonce
counter and the bound of the deque are proved. `StopIsQuiet` and `RecordsAreKept` assume
`Overlap = FALSE`, as section 6 shows they must. Their invariant `QuietInv` says what is
unique: the one alive worker is the one the singleton knows (`OneWorker`), whatever
dispatches, waits or posts does so for the shared callback queue (`OneDispatcher`, `Posting`,
`Owned`); and how far a stop has come: past the worker none is alive (`StopsIt`), a
dispatcher it ended does not run again and what it cut does not post again (`Ended`), the
records of the instance it stops are gone (`Erased`). `TornDown` is the step all three
continuations of `clear_queue` share. `CapHolds`, under the same assumption, is about a sum
over the jobs: `CapInv` adds that a job is in one place of one queue (`Once`), that an
instance that was forgotten or is being torn down holds nothing (`Emptied`), and that the counter
is the sum of the nonces of the jobs queued or worked on (`Counted`); an enqueue, the end of a
job and a stop each change both sides alike. `ImplementsJobStore` maps every step to an
abstract one or a stutter. `StoreInv` adds that without a stop the worker is not cancelled or
told to stop (`Undisturbed`), so that every job it takes is settled, that what the singleton
holds is recorded there as queued or running (`Filed`), and that an instance that is gone
has no records (`Forgotten`). While a stop lasts every step is the abstract `Clear`. That
records last (`RecordsAreKept`) is implied and proved apart, in terms of the stops. `NoJobIsStranded`
and `WorkerHearsTheStop` are the safety halves of `EveryJobSettles` and `EveryStopEnds`: with jobs
in the queue and no stop a worker is alive (`Fed`) and nothing makes it leave, and a stop sets the
stop_event of the alive worker before it waits for it (`Told`). The second is false when a request
may be accepted during a stop: it can start a worker that clears the stop_event.

**Induction.** TLAPS cannot instantiate an induction theorem whose parameter is an operator
with the provers used here, so induction is stated with sets: a set of numbers with 0 and
every successor is `Nat` (`SetInduction`). From it follow that recursion over numbers and over finite sets
defines a function (`NatRecursion`, `SetRecursion`), what `FlattenSeq` and `MapThenSumSet` of the
community modules return (`FlattenMembers`, `FlattenSingles`, `SumOfSet`), and that an
increasing enumeration of a finite set exists and is one-to-one. The modules use no RECURSIVE
operator.

Every invariant and action property of the passing runs has a theorem. Only
model-checked are the liveness properties, since fairness and ENABLED are outside
the prover: `EveryRequestIsAnswered` and `StopEndsRound` of the rounds, `EveryJobGetsThrough` of the
reservation, `ArtifactsLeave` of the stream, `EveryJobSettles`, `EveryCallbackSettles` and
`EveryStopEnds` of the queue, and `EveryValidationAnswers`.

## 5. Left out

- Tensor arithmetic: the numbers of the forward, hashing, the distances of two vectors
  (near or far instead). The order `torch.topk(sorted=False)` gives the indices of
  `random_pick_indices` is torch's and is not modelled.
- The look-up of the installed vLLM version (once, cached), the constructors of the
  compat modules that only pass arguments on, server assembly, the linter.
  `_compat/v0_28.py` repeats `v0_25.py` against other internals; the models are of what
  both do.
- An abort that raises is logged by the router and the forward goes on
  (`routes.py:86`); in `SharedPool` aborts do not raise.
- A return whose answer is lost after it took effect. Utility calls have no timeout, so
  an answer is lost only with the engine core, and then the pool is gone too.
- The cached outcome of the probe is an initial state of `KvReservation`, its permanence
  is what `reservation.py:78` says.
- `_inplace_layout` has no guard against a pool with fewer blocks than the layout wants;
  the in-place action of `KvLayout` is bounded to pools that hold it.
- In `GenerateQueue`: a job cancelled between `asyncio.Queue.get` and its first
  statement, which can lose the job without a trace of it in the count.
- The middleware's one-shot warning, logging, response formatting, parameter checks.

## 6. What the code does not keep

Four runs end in a trace that contradicts what the repository says of itself:

- `mining_two_rounds`: two overlapping `/init/generate` both pass the 409 check, since
  the registry is written after the abort's await; two generation loops run and only
  one can be stopped. (`gating.py:39`: "the PoC router serialises start/stop".)
- `kv_cancel_leaks`: a cancellation while a borrow is under way loses the lease.
  (`reservation.py:215`: "Block return is structurally guaranteed".)
- `layout_null_block`: with split blocks the in-place layout's kernel block 1 lies in
  the null block. (`poc_model_runner.py:151`: "Block 0 is never used".)
- `validation_one_rank`: with one rank per stage (README.md lists TP=1, PP=4 as supported) a rank of
  the second stage raises in its hook constructor, before it receives
  (`poc_model_runner.py:377`). The tensor of the failed call stays in the channel, and the
  next call computes with it: it answers with vectors of other nonces and of another
  block hash. `VerdictIsRight` fails there too: a verdict names an honest nonce.
  (`CONTRIBUTING.md:30`: "a prover and a validator running different
  hardware must produce bit-identical vectors".)

The same models show more of the kind, by a change of a constant, of a bound or of an
invariant; they are consequences to know, and not runs of their own.

*Mining and the gate.*
- With `Overlap = "stop"`, `MiningBehindGate` fails: `/stop` deactivates the gate after
  draining the queue, and a round started meanwhile mines with chat admitted.
- The first `/stop` after a crashed round answers "error" (`routes.py:318` lets the
  round's exception out), before it drained the queue.
- A chat that passed the middleware before the gate shut is added after the round's
  first abort, so `routes.py:82` ("During mining the gate keeps the in-flight set
  empty") is not exact: the next forward aborts it. In between it may hit prefixes that
  the first forward clobbered, since hashes go only with the reset at the end of the
  round; so may newcomers on the fallback path, where nothing shuts inference out. This is
  why `CacheIsCleanWhenQuiet` speaks of the time after the in-place work.
- A round whose reset meets a validation's lease cannot reset the cache (both attempts
  answer no, which is logged). A round that crashed and is then stopped during its reset
  loses the reset without a log line: `excuse = "cut"` in `SharedPool`.

*Job queue.* With `Overlap = TRUE`, `RefinesJobStore` and `RecordsLast` fail: a job accepted while a `/stop` is
in progress is answered "queued" and then unknown, because `clear_queue`
(`generate_queue.py:341`) forgets the instance after its awaits (README: "Pull the
result later"). `StoppedIsQuiet` fails too: a worker started between the end of the
cancelled one and the last line of `clear_queue` outlives the stop, and no later request
can reach it.

*Callbacks.* `givenUp` grows before any stop, although `CallbackSender.run` says
"retry-until-stop" (`callbacks.py:63`).

*Ranks.* What a raise leaves behind matters when a later call completes, which needs that every
rank of a stage raised: always so with one rank per stage, while with more the peers of a
single rank that raised wait in a collective. This is the hypothesis `faults < Tp` of the theorems.
- A hook constructor that raises does so after the old object was detached: the worker
  keeps the old object, so a call with the old hash runs without hooks, and a retry with
  the new hash leaves the half-registered hooks of the first attempt beside the new
  ones, which reflect twice. `validation_one_rank` with `Pp = 1` shows it, as a violation of the
  same property. `poc_model_runner.py:72` says "Ensure layer hooks are
  installed for the given block_hash".
- With two stages, a later stage that raises before it receives leaves a tensor in the channel,
  whatever raised there: the hooks, as in `validation_one_rank`, or a guard of the layout
  (`FaultAt = {"layout"}`). A raise inside the model comes after the tensor was taken, and
  leaves none.

*Validation.*
- A `batch_size` of 0 answers 500 after the wait for mining. One below 0 computes no chunk
  and answers "completed" without fraud, whatever was claimed. In mining a `batch_size` of 0
  or less takes no nonces, and the loop calls with an empty list for ever.
- A claim that `decode_vector` cannot read (`validation.py:36`) answers 500, after all chunks, if its
  nonce was computed; it is not counted as a mismatch.
- `n_total` (`data.py`: "Total nonces checked") is the number of nonces asked for, with
  empty claims and with rows lost to NaN. A nonce asked for twice is computed
  once per chunk it is in, so the count of mismatches depends on the batch size.
- `fraud_threshold` of a request is not checked (`routes.py` passes it on); above one it
  calls a batch without a mismatch a fraud.

## 7. Open

Validation with two mishaps in one call: the run takes one. The theorems take any number
below `Tp`.
