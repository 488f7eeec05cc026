---------------------------- MODULE CorePipeline ----------------------------
(***************************************************************************)
(* crates/core/machine/src/utils/prove.rs, prove_core_stream: one thread   *)
(* executes the program and sends a checkpoint per batch of shards; worker *)
(* threads replay the checkpoints, number the shards, move the deferred    *)
(* events into shards of their own and hand the records, in order, to the  *)
(* thread that proves them.  The two TurnBasedSync objects appear by what  *)
(* they promise (module TurnOrder): a thread passes wait_for_turn(i) when  *)
(* the turn is i.                                                          *)
(*                                                                         *)
(* The guards of the `state' and `deferred' mutexes are bound by `let' in  *)
(* the body of the loop, so a worker has them until its iteration ends:    *)
(* they are one lock here, `guards'.                                       *)
(***************************************************************************)
EXTENDS ExecutionRecord, FiniteSets

CONSTANTS
    Executions,         \* the executions considered, see Batch below
    Workers,            \* 0..opts.trace_gen_workers
    NoWorker,           \* the guards are free
    CheckpointsCapacity,        \* opts.checkpoints_channel_capacity
    RecordsCapacity,            \* opts.records_and_traces_channel_capacity
    ShardBatchSize,             \* opts.shard_batch_size
    CombineMemoryThreshold,     \* opts.split_opts.combine_memory_threshold
    PcStart, MaxShards          \* of the verifier

ASSUME PipelineAssumption ==
    /\ Workers # {} /\ NoWorker \notin Workers
    /\ CheckpointsCapacity \in Nat \ {0}
    /\ RecordsCapacity \in Nat \ {0}
    /\ ShardBatchSize \in Nat \ {0}
    /\ CombineMemoryThreshold \in Nat

\* Memory events that are few enough to be packed into the last record fit
\* into one chunk (opts.rs: 1 << 17 against 1 << 18 and more): split overwrites
\* the first addresses of last_record when there are more.
ASSUME PackingAssumption == CombineMemoryThreshold <= MemoryChunk + 1

INSTANCE ShardVerifier

VARIABLES
    execution,      \* the program that runs: a member of Executions
    generator,      \* pc of the checkpoint generator
    next_index,     \* `index' of the checkpoint generator
    checkpoints,    \* the checkpoint channel: indices of batches
    worker,         \* worker[w] : pc of the worker
    index,          \* index[w] : the batch worker w has
    records,        \* records[w] : the records of that batch
    record_turn,    \* p2_record_gen_sync
    trace_turn,     \* p2_trace_gen_sync
    guards,         \* who has the `state' and `deferred' mutexes
    state,          \* the public values of the shard numbered last
    deferred,       \* the record of deferred events
    traces,         \* the channel of (records, traces)
    prover,         \* pc of the phase 2 prover
    proving,        \* the batch it has
    proofs,         \* proof_tx : what it has sent
    shapes,         \* shape_and_done_tx : the shards announced
    main            \* pc of the thread that joins the others

generatorVars == <<generator, next_index, checkpoints>>
workerVars == <<worker, index, records>>
sharedVars == <<record_turn, trace_turn, guards, state, deferred>>
proverVars == <<traces, prover, proving, proofs>>
vars == <<execution, generatorVars, workerVars, sharedVars, proverVars, shapes, main>>
-----------------------------------------------------------------------------
(***************************************************************************)
(* What the executor hands to the pipeline.  An execution is               *)
(*   batches  : a sequence of batches, each a sequence of shards           *)
(*              [cpu, events], events[c] the number of precompile events;  *)
(*   commit   : the batch in which COMMIT is called (its digest is 1);     *)
(*   init, final : the addresses of the global memory events;              *)
(*   few_cycles  : num_cycles < 1 << 21;                                   *)
(*   fails    : the batch in which execution fails, or 0;                  *)
(*   shaped   : whether there is a shape_config.                           *)
(***************************************************************************)
NumBatches == Len(execution.batches)

IsDone(b) == b = NumBatches

ShardsBefore(b) == Len(FlattenSeq(SubSeq(execution.batches, 1, b - 1)))

CpuShards == Len(SelectSeq(FlattenSeq(execution.batches), LAMBDA s : s.cpu))

\* trace_checkpoint: the records that Executor::execute makes of a batch.  The
\* digest is the one at the end of the batch, in all its shards; the recovered
\* executor starts with default public values.  The memory events are in the
\* record that is pushed last.
TraceCheckpoint(b) ==
    LET batch == execution.batches[b]
        shard(i) == ShardsBefore(b) + i
        pc(i) == IF i < CpuShards THEN PcStart + i ELSE 0
        record(i) ==
          [NewRecord EXCEPT
            !.cpu = batch[i].cpu,
            !.public_values.execution_shard = shard(i),
            !.public_values.start_pc = IF batch[i].cpu THEN PcStart + shard(i) - 1 ELSE 0,
            !.public_values.next_pc = IF batch[i].cpu THEN pc(shard(i)) ELSE 0,
            !.public_values.committed_value_digest = IF execution.commit = b THEN 1 ELSE 0,
            !.precompile_events = [c \in SyscallCodes |->
                [k \in 1..batch[i].events[c] |-> <<shard(i), k>>]],
            !.initialize_events = IF IsDone(b) /\ i = Len(batch) THEN execution.init ELSE <<>>,
            !.finalize_events = IF IsDone(b) /\ i = Len(batch) THEN execution.final ELSE <<>>]
    IN  [i \in DOMAIN batch |-> record(i)]
-----------------------------------------------------------------------------
Init ==
    /\ execution \in Executions
    /\ generator = "execute"
    /\ next_index = 1
    /\ checkpoints = <<>>
    /\ worker = [w \in Workers |-> "recv"]
    /\ index = [w \in Workers |-> 0]
    /\ records = [w \in Workers |-> <<>>]
    /\ record_turn = 1
    /\ trace_turn = 1
    /\ guards = NoWorker
    /\ state = DefaultPublicValues
    /\ deferred = NewRecord
    /\ traces = <<>>
    /\ prover = "recv"
    /\ proving = <<>>
    /\ proofs = <<>>
    /\ shapes = <<>>
    /\ main = "join_generator"

\* The checkpoint generator: execute_state, and save the checkpoint.  An error
\* ends the thread and drops checkpoints_tx.
ExecuteState ==
    /\ generator = "execute"
    /\ generator' = IF execution.fails = next_index THEN "failed" ELSE "send"
    /\ UNCHANGED <<next_index, checkpoints, execution, workerVars, sharedVars, proverVars, shapes, main>>

\* checkpoints_tx.send blocks while the channel is full.
SendCheckpoint ==
    /\ generator = "send"
    /\ Len(checkpoints) < CheckpointsCapacity
    /\ checkpoints' = Append(checkpoints, next_index)
    /\ IF IsDone(next_index)
       THEN generator' = "finished" /\ UNCHANGED next_index
       ELSE generator' = "execute" /\ next_index' = next_index + 1
    /\ UNCHANGED <<execution, workerVars, sharedVars, proverVars, shapes, main>>

Goto(w, from, to) ==
    /\ worker[w] = from
    /\ worker' = [worker EXCEPT ![w] = to]

\* checkpoints_rx.lock().unwrap().recv(), then trace_checkpoint.
RecvCheckpoint(w) ==
    /\ Goto(w, "recv", "record_turn")
    /\ checkpoints # <<>>
    /\ index' = [index EXCEPT ![w] = Head(checkpoints)]
    /\ records' = [records EXCEPT ![w] = TraceCheckpoint(Head(checkpoints))]
    /\ checkpoints' = Tail(checkpoints)
    /\ UNCHANGED <<execution, generator, next_index, sharedVars, proverVars, shapes, main>>

\* The channel is empty and its sender has been dropped.
CheckpointsClosed(w) ==
    /\ Goto(w, "recv", "exited")
    /\ checkpoints = <<>>
    /\ generator \in {"finished", "failed"}
    /\ UNCHANGED <<execution, generatorVars, index, records, sharedVars, proverVars, shapes, main>>

\* Bug: the mutexes alone order the batches.
WaitNoTurn(w) ==
    /\ Goto(w, "record_turn", "lock")
    /\ \A v \in Workers : worker[v] \notin {"lock", "advance_record"}
    /\ UNCHANGED <<execution, generatorVars, index, records, sharedVars, proverVars, shapes, main>>

\* record_gen_sync.wait_for_turn(index)
WaitRecordTurn(w) ==
    /\ Goto(w, "record_turn", "lock")
    /\ record_turn = index[w]
    /\ UNCHANGED <<execution, generatorVars, index, records, sharedVars, proverVars, shapes, main>>
-----------------------------------------------------------------------------
\* The public values of the i-th CPU shard after the shard that has s.
CpuValues(s, i, pv) ==
    [s EXCEPT !.shard = @ + i,
              !.execution_shard = pv.execution_shard,
              !.start_pc = pv.start_pc,
              !.next_pc = pv.next_pc,
              !.committed_value_digest = pv.committed_value_digest,
              !.deferred_proofs_digest = pv.deferred_proofs_digest]

\* Bug: `state.start_pc = state.next_pc' forgotten.
DeferredValuesKeepingStart(s, i, pv) ==
    [s EXCEPT !.shard = @ + i,
              !.previous_init_addr = pv.previous_init_addr,
              !.last_init_addr = pv.last_init_addr,
              !.previous_finalize_addr = pv.previous_finalize_addr,
              !.last_finalize_addr = pv.last_finalize_addr]

\* The public values of the i-th shard of deferred events after s.
DeferredValues(s, i, pv) ==
    [s EXCEPT !.shard = @ + i,
              !.previous_init_addr = pv.previous_init_addr,
              !.last_init_addr = pv.last_init_addr,
              !.previous_finalize_addr = pv.previous_finalize_addr,
              !.last_finalize_addr = pv.last_finalize_addr,
              !.start_pc = s.next_pc]

LastValues(s, rs) == IF rs = <<>> THEN s ELSE Last(rs).public_values

\* The memory events are packed into the last record when they are few.
PackMemory(b, all) ==
    /\ IsDone(b)
    /\ execution.few_cycles
    /\ Len(all.initialize_events) < CombineMemoryThreshold
    /\ Len(all.finalize_events) < CombineMemoryThreshold

\* With the mutexes of `state' and `deferred': number the batch's shards, take
\* out the events to defer, split off the shards that are ready, number them.
\* The hash map of events is iterated in any order.
NumberRecords(w) ==
    /\ Goto(w, "lock", "advance_record")
    /\ guards = NoWorker
    /\ guards' = w
    /\ \E order \in SetToSeqs(SyscallCodes) :
       \E cpu \in {[i \in DOMAIN records[w] |->
                       [records[w][i] EXCEPT !.public_values = CpuValues(state, i, @)]]} :
       \E all \in {FoldLeft(AppendRecord, deferred, [i \in DOMAIN cpu |-> Defer(cpu[i])])} :
       \E split \in {Split(all, IsDone(index[w]), PackMemory(index[w], all),
                           [i \in DOMAIN cpu |-> Deferred(cpu[i])], order)} :
         LET last == LastValues(state, cpu)
             base == IF IsDone(index[w]) THEN last ELSE [last EXCEPT !.execution_shard = @ + 1]
             new == [i \in DOMAIN split.shards |->
                       [split.shards[i] EXCEPT !.public_values = DeferredValues(base, i, @)]]
         IN  /\ records' = [records EXCEPT ![w] = split.records \o new]
             /\ deferred' = split.deferred
             /\ state' = LastValues(base, new)
    /\ UNCHANGED <<execution, generatorVars, index, record_turn, trace_turn, proverVars, shapes, main>>

\* record_gen_sync.advance_turn()
AdvanceRecordTurn(w) ==
    /\ Goto(w, "advance_record", "fix_shape")
    /\ record_turn' = record_turn + 1
    /\ UNCHANGED <<execution, generatorVars, index, records, trace_turn, guards, state, deferred,
                   proverVars, shapes, main>>

\* CoreShapeConfig::fix_shape has shapes for records with CPU events, with
\* memory events, and with precompile events.
HasShape(r) ==
    \/ r.cpu
    \/ r.initialize_events # <<>> \/ r.finalize_events # <<>>
    \/ \E c \in SyscallCodes : r.precompile_events[c] # <<>>

\* Bug: the shapes are announced by a parallel iteration, in any order.
FixShapesParallel(w) ==
    /\ Goto(w, "fix_shape", "trace_turn")
    /\ shapes' = shapes \o [i \in DOMAIN records[w] |->
                    records[w][Len(records[w]) + 1 - i].public_values.shard]
    /\ UNCHANGED <<execution, generatorVars, index, records, sharedVars, proverVars, main>>

\* fix_shape(record).unwrap(), and announce the shapes on the shape channel.  A
\* worker that panics poisons the mutexes; only the last batch can have a
\* record without a shape, so no other worker still needs them.
FixShapes(w) ==
    /\ LET rs == records[w]
           shaped == \A i \in DOMAIN rs : HasShape(rs[i])
       IN  IF execution.shaped /\ ~shaped
           THEN Goto(w, "fix_shape", "panicked") /\ UNCHANGED shapes
           ELSE /\ Goto(w, "fix_shape", "trace_turn")
                /\ shapes' = IF execution.shaped
                             THEN shapes \o [i \in DOMAIN rs |-> rs[i].public_values.shard]
                             ELSE shapes
    /\ UNCHANGED <<execution, generatorVars, index, records, sharedVars, proverVars, main>>

\* trace_gen_sync.wait_for_turn(index), after the main traces are generated.
WaitTraceTurn(w) ==
    /\ Goto(w, "trace_turn", "send")
    /\ trace_turn = index[w]
    /\ UNCHANGED <<execution, generatorVars, index, records, sharedVars, proverVars, shapes, main>>

\* Send the first `size' records and go on after the first `drop'; the send
\* blocks while the channel is full.
SendChunk(w, size, drop) ==
    /\ worker[w] = "send"
    /\ records[w] # <<>>
    /\ Len(traces) < RecordsCapacity
    /\ traces' = Append(traces, SubSeq(records[w], 1, Min({size, Len(records[w])})))
    /\ records' = [records EXCEPT ![w] = SubSeq(@, drop + 1, Len(@))]
    /\ UNCHANGED <<execution, generatorVars, worker, index, sharedVars, prover, proving, proofs,
                   shapes, main>>

\* Bug: chunks of the wrong size.
SendRecordsLarge(w) == SendChunk(w, ShardBatchSize + 1, ShardBatchSize + 1)

\* Bug: a record is skipped between two chunks.
SendRecordsSkipping(w) == SendChunk(w, ShardBatchSize, ShardBatchSize + 1)

\* Send the next chunk of chunk_vec(records, shard_batch_size).
SendRecords(w) == SendChunk(w, ShardBatchSize, ShardBatchSize)

\* trace_gen_sync.advance_turn()
AdvanceTraceTurn(w) ==
    /\ Goto(w, "send", "end")
    /\ records[w] = <<>>
    /\ trace_turn' = trace_turn + 1
    /\ UNCHANGED <<execution, generatorVars, index, records, record_turn, guards, state, deferred,
                   proverVars, shapes, main>>

\* The end of the iteration drops the guards.
EndIteration(w) ==
    /\ Goto(w, "end", "recv")
    /\ guards' = NoWorker
    /\ UNCHANGED <<execution, generatorVars, index, records, record_turn, trace_turn, state,
                   deferred, proverVars, shapes, main>>
-----------------------------------------------------------------------------
WorkersGone == \A w \in Workers : worker[w] \in {"exited", "panicked"}

\* The phase 2 prover: the next batch; commit and open its records in parallel.
RecvRecords ==
    /\ prover = "recv"
    /\ traces # <<>>
    /\ proving' = Head(traces)
    /\ traces' = Tail(traces)
    /\ prover' = "prove"
    /\ UNCHANGED <<execution, generatorVars, workerVars, sharedVars, proofs, shapes, main>>

\* Send the batch of proofs, in the order of the records.
SendProofs ==
    /\ prover = "prove"
    /\ proofs' = proofs \o proving
    /\ proving' = <<>>
    /\ prover' = "recv"
    /\ UNCHANGED <<execution, generatorVars, workerVars, sharedVars, traces, shapes, main>>

\* Bug: the prover polls, and takes a closed channel for an empty one.
RecordsNeverClosed ==
    /\ prover = "recv"
    /\ traces = <<>>
    /\ UNCHANGED vars

\* Every sender has been dropped with its worker.
RecordsClosed ==
    /\ prover = "recv"
    /\ traces = <<>>
    /\ WorkersGone
    /\ prover' = "exited"
    /\ UNCHANGED <<execution, generatorVars, workerVars, sharedVars, traces, proving, proofs,
                   shapes, main>>

\* The main thread joins the generator, the workers and the prover; each join
\* unwraps.  A panic leaves the scope only when all threads have ended.
JoinGenerator ==
    /\ main = "join_generator"
    /\ \/ generator = "finished" /\ main' = "join_workers"
       \/ generator = "failed" /\ main' = "unwinding"
    /\ UNCHANGED <<execution, generatorVars, workerVars, sharedVars, proverVars, shapes>>

JoinWorkers ==
    /\ main = "join_workers"
    /\ WorkersGone
    /\ main' = IF \E w \in Workers : worker[w] = "panicked" THEN "unwinding" ELSE "join_prover"
    /\ UNCHANGED <<execution, generatorVars, workerVars, sharedVars, proverVars, shapes>>

JoinProver ==
    /\ prover = "exited"
    /\ \/ main = "join_prover" /\ main' = "returned"
       \/ main = "unwinding" /\ WorkersGone /\ main' = "panicked"
    /\ UNCHANGED <<execution, generatorVars, workerVars, sharedVars, proverVars, shapes>>

Ended == main \in {"returned", "panicked"} /\ UNCHANGED vars

GeneratorStep == ExecuteState \/ SendCheckpoint

WorkerStep(w) ==
    \/ RecvCheckpoint(w)
    \/ CheckpointsClosed(w)
    \/ WaitRecordTurn(w)
    \/ NumberRecords(w)
    \/ AdvanceRecordTurn(w)
    \/ FixShapes(w)
    \/ WaitTraceTurn(w)
    \/ SendRecords(w)
    \/ AdvanceTraceTurn(w)
    \/ EndIteration(w)

ProverStep == RecvRecords \/ SendProofs \/ RecordsClosed

MainStep == JoinGenerator \/ JoinWorkers \/ JoinProver

Next ==
    \/ GeneratorStep
    \/ \E w \in Workers : WorkerStep(w)
    \/ ProverStep
    \/ MainStep
    \/ Ended

\* Every thread runs when it can.
Spec ==
    /\ Init /\ [][Next]_vars
    /\ WF_vars(GeneratorStep)
    /\ \A w \in Workers : WF_vars(WorkerStep(w))
    /\ WF_vars(ProverStep)
    /\ WF_vars(MainStep)
-----------------------------------------------------------------------------
RecordOK(r) ==
    /\ r.cpu \in BOOLEAN
    /\ r.public_values \in [DOMAIN DefaultPublicValues -> Nat]
    /\ DOMAIN r.precompile_events = SyscallCodes

TypeOK ==
    /\ execution \in Executions
    /\ generator \in {"execute", "send", "finished", "failed"}
    /\ next_index \in 1..NumBatches
    /\ Len(checkpoints) <= CheckpointsCapacity
    /\ worker \in [Workers -> {"recv", "exited", "record_turn", "lock", "advance_record",
                               "fix_shape", "panicked", "trace_turn", "send", "end"}]
    /\ index \in [Workers -> 0..NumBatches]
    /\ \A w \in Workers : \A i \in DOMAIN records[w] : RecordOK(records[w][i])
    /\ record_turn \in 1..(NumBatches + 1)
    /\ trace_turn \in 1..(NumBatches + 1)
    /\ guards \in Workers \union {NoWorker}
    /\ RecordOK(deferred)
    /\ Len(traces) <= RecordsCapacity
    /\ \A i \in DOMAIN traces : Len(traces[i]) \in 1..ShardBatchSize
    /\ prover \in {"recv", "prove", "exited"}
    /\ main \in {"join_generator", "join_workers", "join_prover", "returned", "unwinding", "panicked"}

\* What the numbering of shards has produced and where it is: proved, being
\* proved, queued, or still with the worker that has the guards.
Numbered ==
    proofs \o proving \o FlattenSeq(traces)
    \o (IF guards = NoWorker THEN <<>> ELSE records[guards])

\* prove_core_stream loses, repeats and reorders no shard: at every moment the
\* records on their way to the proofs carry the shard numbers 1, 2, ... without
\* a gap, up to the number in `state', whichever workers handled the batches.
Delivery ==
    /\ Len(Numbered) = state.shard
    /\ ShardsCount(Numbered)

\* The shapes are announced in the order of the shards, although nothing but
\* the mutex guards held to the end of the iteration orders the sends.
ShapesInOrder == \A i \in DOMAIN shapes : shapes[i] = i

\* When prove_core returns proofs, SP1Prover::verify accepts their public values.
ProofsVerify == main = "returned" => Verify(proofs)

AllEvents == {<<c, s, k>> : c \in SyscallCodes, s \in 1..CpuShards, k \in 1..9}

HasEvent(e) ==
    LET shards == FlattenSeq(execution.batches)
    IN  e[2] \in DOMAIN shards /\ e[3] <= shards[e[2]].events[e[1]]

ProofsOf(e) ==
    {<<i, j>> \in (DOMAIN proofs) \X (1..9) :
        /\ j \in DOMAIN proofs[i].precompile_events[e[1]]
        /\ proofs[i].precompile_events[e[1]][j] = <<e[2], e[3]>>}

\* Moving events between records (defer, append, split) loses and repeats
\* none: each precompile event of the execution is proved once, in a shard
\* with no CPU, and each memory event once.
EventsProvedOnce ==
    main = "returned" =>
        /\ \A e \in AllEvents : Cardinality(ProofsOf(e)) = IF HasEvent(e) THEN 1 ELSE 0
        /\ \A i \in DOMAIN proofs : proofs[i].cpu => proofs[i].precompile_events = NoEvents
        /\ FlattenSeq([i \in DOMAIN proofs |-> proofs[i].initialize_events]) = SortedByAddr(execution.init)
        /\ FlattenSeq([i \in DOMAIN proofs |-> proofs[i].finalize_events]) = SortedByAddr(execution.final)

\* fix_shape(record).unwrap(): every record that is to be proved has a shape.
EveryRecordHasShape ==
    \A w \in Workers : worker[w] = "fix_shape" /\ execution.shaped =>
        \A i \in DOMAIN records[w] : HasShape(records[w][i])

MaxBatches == Max({Len(e.batches) : e \in Executions})

\* The batches received from the checkpoint channel, counted from 0 as in the code.
Received ==
    (IF generator = "finished" THEN NumBatches ELSE next_index - 1) - Len(checkpoints)

ItemOf == [w \in Workers |-> IF index[w] = 0 THEN 0 ELSE index[w] - 1]

RecordTurns == INSTANCE TurnOrder WITH
    NumTurns <- MaxBatches,
    taken <- Received,
    item <- ItemOf,
    has <- {w \in Workers : worker[w] \in {"record_turn", "lock", "advance_record"}},
    finished <- record_turn - 1,
    inside <- {w \in Workers : worker[w] \in {"lock", "advance_record"}}

TraceTurns == INSTANCE TurnOrder WITH
    NumTurns <- MaxBatches,
    taken <- Received,
    item <- ItemOf,
    has <- {w \in Workers : worker[w] \notin {"recv", "exited", "end"}},
    finished <- trace_turn - 1,
    inside <- {w \in Workers : worker[w] = "send"}

\* prove_core_stream uses both TurnBasedSync objects as module TurnOrder has it:
\* batches are numbered, and their records sent to the prover, one batch at a
\* time in the order of the checkpoints, by the worker that received each.
TurnsFollowed == RecordTurns!Spec /\ TraceTurns!Spec

\* The pipeline comes to an end: no thread waits forever for a turn, a guard or
\* a channel.  It returns proofs unless the program failed or a worker panicked,
\* and then it panics.
Terminates ==
    <>(main = IF execution.fails # 0 \/ (\E w \in Workers : worker[w] = "panicked")
              THEN "panicked" ELSE "returned")
====
