# Verification of MetalSPONE

MetalSPONE is a fork of the SP1 zkVM: a RISC-V program is executed, its execution
is cut into shards, every shard is proved by a STARK prover, and the shard proofs
are compressed to one proof by recursion. This directory has TLA+ models of the
parts whose correctness is a matter of states and of their order, TLC
configurations that check them on small instances, and TLAPS proofs of facts that
hold for instances of every size. `PROJECT.json` maps each definition to source
lines.

## The system and its parts

| part | source (under `crates/`) | state | operations |
|---|---|---|---|
| executor | `core/executor/src/executor.rs`, `state.rs` | registers and memory with shard and timestamp per word, hinted memory, clocks, streams, fork of an unconstrained block, checkpoint being built, open local memory events | an instruction, cutting a shard, ending a batch, recovering from a checkpoint |
| system calls, hooks | `core/executor/src/syscalls/`, `hook.rs` | that of the executor | HINT_READ, WRITE, HALT, ENTER/EXIT UNCONSTRAINED, precompiles, COMMIT |
| execution records | `core/executor/src/record.rs` | events of one shard | `append`, `defer`, `split` |
| core pipeline | `core/machine/src/utils/prove.rs` | two channels, two turn counters, running public values, deferred events, mutex guards | checkpoint generator, workers, prover, joins |
| turns | `core/machine/src/utils/concurrency.rs` | mutex, condition variable, turn | `wait_for_turn`, `advance_turn` |
| core verifier | `prover/src/verify.rs` | none | the checks on the public values of the shard proofs |
| compress | `prover/src/lib.rs` | three channels in a cycle, three turn counters, layer bookkeeping | feeder, tracers, provers, next layer thread |
| program and key caches | `prover/src/lib.rs` | shared pointers, LRU cache, map of join programs, key cache per prover | program lookup, setup, drop |

The executor runs twice. The generator thread of the core pipeline runs it in
batches of shards and saves a checkpoint per batch; the workers replay the
checkpoints to get the records. The shard proofs of the pipeline are the input of
the verifier and of compress.

What is hard in this system: threads that finish out of order and must hand on
their results in order; mutex guards that live longer than they look; a cycle of
bounded channels; a replay that must repeat a run it sees only through a
checkpoint; events that move from record to record; caches keyed by something that
outlives its meaning; boundaries (the last batch, the halting instruction, a
partial batch, one or two shard proofs).

## Modules

| module | models | state and actions |
|---|---|---|
| `TurnOrder` | what a `TurnBasedSync` promises | items are handed out in order, each to one thread; the sections run one at a time, that of item i in the thread that has item i, after that of item i - 1 |
| `TurnBasedSync` | `concurrency.rs` | every lock, test, sleep, notification and spurious wake-up; refines `TurnOrder` |
| `TurnBasedSyncProofs` | | proofs for any number of threads and turns |
| `ExecutionRecord` | `record.rs` | operators `Defer`, `AppendRecord`, `Split`, with the chain of memory addresses |
| `ShardVerifier` | `SP1Prover::verify` | `Verify(proofs)`, one definition per loop of the function |
| `CorePipeline` | `prove_core_stream` | one action per blocking point of each thread; uses `ExecutionRecord` and `ShardVerifier` |
| `TreeReduction` | what compress promises | a bag of intervals that tile the inputs; adjacent ones are merged, at most `MaxArity` at a time |
| `CompressTree` | `SP1Prover::compress` | feeder, tracers, provers, next layer thread, join; refines `TreeReduction` |
| `PkCache` | `recursion_program`, `compress_program`, `deferred_program`, the key cache | the heap of programs with an allocator that reuses addresses, the pointers to them, the keys of each prover; the history `dropped` |
| `PkCacheProofs` | | proofs for any shapes, provers and cache size |
| `ExecutorMemory` | the access functions of `executor.rs` | operators on an executor record `rt`, composed as the code calls them |
| `Executor` | cycle, system calls, `execute_state`, `execute_record`, `recover` | a generator `gen` and a replaying executor `rep` |
| `MCCorePipeline`, `MCCompressTree`, `MCExecutor` | | small instances for TLC |

Abstractions. An event is its identity; a memory initialize or finalize event is
its address; a digest is 0 or 1; a proof is the record it proves
(`CorePipeline`) or the interval of leaves it covers (`CompressTree`). A word is a
pair of bits standing for bytes, which is enough to tell a byte store from a word
store. Memory that WRITE writes is one word, or nothing if x12 is zero; what goes to
stdout and stderr, and the deprecated hooks that an environment variable turns on, are
left out. One ALU operation, load, byte store and branch stand for their classes, one
register for x10 and x11. Trace generation, proving and setup are one step. In the
two pipelines a `TurnBasedSync` object is a counter: `Ordered` shows that the mutex
and the condition variable implement `TurnOrder`, and `TurnsFollowed` that
`CorePipeline`, with its counters, does so twice, once for the record turns and once
for the trace turns. `CompressTree` tests its counters in the same way (`IsTurn` is
the guard of `TurnOrder`'s `Enter`); its order is checked by `LayersInOrder` and
`InputsFollow`. The guards of the mutexes `state` and `deferred` are one lock, because
they are taken in the same section and dropped together. Indices count from 1.
Panics other than those of the program's failure and of `fix_shape`, and with them
sends on a channel whose receiver is gone, are not modelled.

In `CorePipeline` the executor is abstracted to what it hands over (`Executions`):
the shards of each batch, the batch with COMMIT, the memory events. The records it
makes of a batch (`TraceCheckpoint`) are those of the end of `Executor::execute`;
that a replay has the same shards as the run is `ReplayFaithful` of `Executor`.

## Runs

| run | shows |
|---|---|
| `turns` | `TurnBasedSync` excludes, orders, loses no wake-up, and every turn is taken |
| `core_pipeline` | no shard is lost, repeated or reordered (`Delivery`), shapes are announced in order, the proofs pass the verifier, each deferred event is proved once; both turn counters follow `TurnOrder`; the pipeline ends, with proofs, or with a panic if the program fails or a record has no shape |
| `compress` | layers do not mix, inputs keep their order, a proof marked complete covers everything, the result is complete, each step refines `TreeReduction`, and the cycle of channels does not deadlock |
| `pk_cache` | an input keeps its program through evictions and reuse of addresses; wrong keys can only be those of a program dropped at the same address; join programs always get their own keys |
| `executor` | replay repeats the run; accesses are ordered; the memory argument balances; CPU events form one run; public values differ from what the program hashed in two ways only; unconstrained blocks are undone, the record and the mode included, but for what they wrote to the streams |

The runs with `expect: violation` show, each in a small case, behaviour that a
comment or a doc describes differently; `PROJECT.json` quotes the lines:

| run | what happens | where |
|---|---|---|
| `core_halt_cut` | a shard cut at the halting instruction leaves a record that has no shape | `prove.rs:300` |
| `core_commit_boundary` | a batch boundary between COMMIT and HALT resets the committed digest | `executor.rs:378` |
| `compress_two_shards` | two shard proofs, no deferred proofs: the root is not marked complete | `lib.rs:1269` |
| `pk_cache_reuse` | a new program at the address of a dropped one gets its keys | `lib.rs:621` |
| `executor_unread_store` | a byte store into a hinted, never accessed word clears its other bytes | `executor.rs:1487` |
| `executor_outputs` | public values are not what the program hashed: a hinted word written out before it is read is zero, and a word written out in an unconstrained block stays | `write.rs:44`, `unconstrained.rs:34` |
| `executor_custom_hook` | a replay does not have the hooks of the caller | `executor.rs:378` |

`executor_outputs` has one program for each of its two cases; either alone violates
`PublicValuesHashed`. The models follow the code; whether these cases occur in practice depends on the
program, the options and the allocator, and none was run against the program.

The passing runs restrict what they consider, each restriction by name:

* `MCExecutions`: programs commit in the last batch. A shard cut at the halting
  instruction (`CutAtHalt`) is included, its panic being one outcome.
* `MCInstances`: not two shard proofs without deferred proofs.
* `HintsFresh`: a word is hinted before it is accessed; `HintReadSyscall` is "assuming
  the word is uninitialized" (`hint.rs:37`) and does not test it.
* `PackingAssumption`: memory events that are packed into the last record fit into one
  chunk. It holds for the options of the code (`opts.rs`: 1 << 17 against 1 << 18 and
  more); `ProofsVerify` says nothing about other options.

`pk_cache` has no such restriction: it checks what holds although addresses are
reused, and `pk_cache_reuse` shows what does not.

### Bounds

* `turns`: 3 threads, 5 turns, 2 spurious wake-ups (6 041 states): a thread can
  sleep, be woken for another turn and sleep again.
* `core_pipeline`: 2 workers, batches of 2 shards, up to 3 batches, two system
  calls with thresholds 1 and 2, memory chunks of 3 events, channels of capacity 1
  (110 162 states). Deferred shards and remainders occur in the middle and at the
  end, memory events are packed or not.
* `compress`: 2 tracers, 2 provers, channels of capacity 1, the code's batch sizes
  (2 in the first layer, then 3), up to 10 inputs in the first layer (22 813
  states). With 10 inputs a smaller channel of proofs does deadlock the cycle; with
  9 it does not, so 10 is what the liveness check needs.
* `pk_cache`: two lift shapes, one join and one other shape, four addresses, four
  inputs, a cache of one program (357 116 states): programs are evicted and dropped,
  and their addresses given to others while keys are cached under them.
* `executor`: all programs of up to three segments that meet `HintsFresh`, and some
  that fail or write to descriptors without a stream, `ShardSize` 16 (four clock ticks per instruction), batches of 1 or 2
  shards, one hint, one word of the memory image (276 689 states). A shard is cut
  by the clock, or by the number of memory events at every third instruction.

`executor` and `pk_cache` are checked without deadlock: a program that ends or
fails, and a finished set of inputs, stop.

### Fairness

Weak fairness for each thread (`WF` of the disjunction of its steps): the operating
system runs every thread that can run. Nothing makes a spurious wake-up happen. No
mutex is assumed fair: each thread needs each lock finitely often. Sends and
receives block while a channel is full or empty, so they need no more than weak
fairness either.

## Proofs

`TurnBasedSyncProofs`, for any set of threads, any `NumTurns` and `MaxSpurious`.
`TurnExclusion` is not inductive: it does not say why two workers cannot have the
same index. `Owned` adds that each busy worker has an index below `taken`, not
passed by the turn and not shared, that whoever is inside has the turn, and that
whoever sleeps does not. `OwnedInvariant` proves it together with `TypeOK`;
`TurnExclusionHolds` and `NoLostWakeupHolds` follow, and `OrderedHolds` shows that
each step is a step of `TurnOrder` or a stutter, with the items that the workers
have: a worker that entered for another item's turn would not refine it.

`PkCacheProofs`, for any shapes, addresses, provers, cache size and bounds, with an
allocator that may give a freed address to the next program. The inductive invariant
`Pointers` says that an address in the join map, in the queue or with a prover has its
program on the heap, that nothing was dropped at an address of the join map, and that
each cached or used key is explained: it is the key of the program now at that
address, or of one that was dropped there.
`PointersInvariant` proves it; `InputsKeepProgramHolds`, `StaleKeysDroppedHolds`
and `JoinKeysMatchHolds` follow. `KeysMatch` is not a theorem: `pk_cache_reuse` refutes it.

Both rest only on the named assumptions about constants in the modules. Liveness
(`EveryTurnTaken`, `Terminates` of both pipelines) and everything about `CorePipeline`,
`CompressTree` and `Executor` is model-checked only: liveness under fairness is out
of the prover's reach, and so is induction over the recursive functions
`LayersAbove` and `LayerSizes`.

## Not modelled

Field arithmetic, polynomial commitments, FRI and the constraints of the chips; the
recursion compiler; Groth16 and PLONK wrapping; curves; builders, command line and
generated code. `PROJECT.json` lists every part with the reason. Of the modelled
parts: deferred proof verification (VERIFY_SP1_PROOF), jumps, register x0, the search
for shapes, the shard log degree check of the verifier, and exit codes: HALT with a
non-zero code is an execution error (`executor.rs:1577`), which the pipeline model
has as a failing program.

## Plan

1. VERIFY_SP1_PROOF with the stream of proofs, and COMMIT (`Executor`).
2. `NetworkProver`: registration, nonces, requests, retries, deadlines and polling
   over an unreliable network (`sdk/src/network`).
3. `RecursionPublicValues`: how core, deferred, compress and root stitch public
   values (`recursion/circuit/src/machine`), so that each tree `CompressTree` builds
   from proofs the verifier accepts is accepted.
4. `RecursionRuntime`: write-once memory and multiplicities
   (`recursion/core/src/runtime`).
5. `MerkleTree` (`p3-merkle-tree`): heights, injection of shorter matrices, paths;
   commit and query phases of `p3-fri`.
6. `ShapeSearch` (`core/machine/src/shape`) and `ProverOpts` (`stark/src/opts.rs`):
   the options computed from the memory of the machine satisfy the assumptions that
   `CorePipeline` makes.
7. Proofs: `Delivery` and `ShapesInOrder` of `CorePipeline` from an invariant on turns
   and guards; `Reduces` of `CompressTree`; lemmas on `ExecutionRecord`.
