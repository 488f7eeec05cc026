------------------------------ MODULE Executor ------------------------------
(***************************************************************************)
(* crates/core/executor/src/executor.rs: a program is executed twice.  The *)
(* executor `gen' runs it in batches of shards and saves for each batch a  *)
(* checkpoint (execute_state); the executor `rep' is recovered from the    *)
(* checkpoint and runs the batch again to record its events                *)
(* (execute_record, called by trace_checkpoint).  A replay depends on its  *)
(* checkpoint only, so here it follows its batch at once.                  *)
(*                                                                         *)
(* A program is a sequence of instructions [op, addr, to].  One register   *)
(* stands for the operands x10 and x11; x5 is the system call register,    *)
(* and x12 has the length of what WRITE writes: a word, or nothing.        *)
(***************************************************************************)
EXTENDS ExecutorMemory

CONSTANTS
    X10, X5, X12,       \* three registers
    Programs,           \* the programs to run, each with its input and options:
                        \* [code, input, hooks, max_cycles, shard_batch_size]
    ShardSize,          \* opts.shard_size * 4
    MaxSyscallCycles,
    ShapeCheckFrequency,
    LocalMemLimit       \* more local memory events than this fit no shape

ASSUME ExecutorAssumption ==
    /\ {X10, X5, X12} \subseteq Registers
    /\ ShardSize \in Nat /\ MaxSyscallCycles \in Nat /\ LocalMemLimit \in Nat
    /\ ShapeCheckFrequency \in Nat \ {0}

VARIABLES
    program,        \* the program that is run
    gen,            \* the executor that makes the checkpoints
    start,          \* gen at the start of the batch
    rep,            \* the executor that replays the batch
    phase,
    proved          \* the records of the replayed batches

vars == <<program, gen, start, rep, phase, proved>>

DefaultHook == "default hook"
HookAnswer == <<1, 1>>

Fail(rt, why) == [rt EXCEPT !.status = why]

-----------------------------------------------------------------------------
(* The instructions.  Each gives the executor before the program counter   *)
(* and the clock move on.                                                  *)

\* alu_rw, with the result of some operation on the operand.
AluWrite(rt, b) == Write(rt, X10, A, <<1 - b[1], b[2]>>)

Alu(rt) == AluWrite(Read(rt, X10, B), Peek(rt, X10))

\* Write the word a, just read, to the register.
LoadWrite(rt, a) == Write(rt, X10, A, Peek(rt, a))

Load(rt, a) == LoadWrite(Read(Read(rt, X10, B), a, Memory), a)

\* SB: the other byte is the one `word' shows.
StoreByte(rt, a) == Write(Peeked(rt, a), a, Memory, <<Peek(rt, X10)[1], Peek(rt, a)[2]>>)

Store(rt, a) == StoreByte(Read(Read(rt, X10, B), X10, A), a)

Branch(rt) == Read(rt, X5, A)

\* ADDI: set the length for a WRITE.
LoadImmediate(rt) == Write(rt, X12, A, <<1, 0>>)

\* The guest's hasher reads a word of the output.
Hashed(rt, w) == [rt EXCEPT !.hashed = IF rt.unconstrained THEN @ ELSE Append(@, w)]

Hash(rt, a) == Hashed(Load(rt, a), OrElse(rt.memory[a], [value |-> OrElse(rt.uninitialized[a], Zero)]).value)

HintRead(rt, a) ==
    IF rt.input_stream = <<>> THEN Fail(rt, "input exhausted")
    ELSE IF IsSome(rt.uninitialized[a]) THEN Fail(rt, "initialized already")
    ELSE [rt EXCEPT !.input_stream = Tail(@),
                    !.uninitialized_checkpoint = OrInsert(@, a, FALSE),
                    !.uninitialized[a] = Some(Head(rt.input_stream))]

\* The bytes of a WRITE: x12 tells how many, and they are peeked, not read.
\* (An empty hint would be an entry of the stream; no program here writes one.)
PeekedBuffer(rt, a) ==
    IF Peek(rt, X12) = Zero THEN Peeked(rt, X12) ELSE Peeked(Peeked(rt, X12), a)

Buffer(rt, a) == IF Peek(rt, X12) = Zero THEN <<>> ELSE <<Peek(rt, a)>>

Outputs(rt, a) ==
    [i \in DOMAIN Buffer(rt, a) |-> [unread |-> rt.memory[a] = None, block |-> rt.unconstrained]]

\* Bug: public values are put in front, as hints are.
WriteToFront(rt, fd, a) ==
    LET r == PeekedBuffer(rt, a) IN
    IF fd = "public values"
    THEN [r EXCEPT !.public_values_stream = Buffer(rt, a) \o @, !.outputs = Outputs(rt, a) \o @]
    ELSE [r EXCEPT !.input_stream = (IF fd = "hint" THEN Buffer(rt, a) ELSE <<HookAnswer>>) \o @]

\* WriteSyscall.  What goes to stdout and stderr is printed or logged, and an
\* unknown descriptor is warned of; a reserved one panics.
WriteTo(rt, fd, a) ==
    LET r == PeekedBuffer(rt, a) IN
    CASE fd \in {"stdout", "stderr"} -> r
      [] fd = "reserved" -> Fail(r, "reserved file descriptor")
      [] fd = "public values" ->
            [r EXCEPT !.public_values_stream = @ \o Buffer(rt, a), !.outputs = @ \o Outputs(rt, a)]
      [] fd = "hint" -> [r EXCEPT !.input_stream = Buffer(rt, a) \o @]
      [] fd \in rt.hooks -> [r EXCEPT !.input_stream = <<HookAnswer>> \o @]
      [] OTHER -> r

EnterUnconstrained(rt) ==
    [rt EXCEPT !.unconstrained = TRUE,
               !.fork = Some([global_clk |-> rt.global_clk, clk |-> rt.clk, pc |-> rt.pc,
                              memory_diff |-> EmptyMap, record |-> rt.record, mode |-> rt.mode,
                              before |-> rt]),
               !.record = EmptyRecord,
               !.mode = "Simple"]

\* Bug: the clock of the block stays.
ExitUnconstrainedLate(rt) ==
    LET fork == rt.fork[1]
        restored == [a \in Addresses |-> OrElse(fork.memory_diff[a], rt.memory[a])]
    IN  [rt EXCEPT !.global_clk = fork.global_clk, !.pc = fork.pc,
                   !.memory = restored, !.record = fork.record, !.mode = fork.mode,
                   !.unconstrained = FALSE, !.fork = None]

\* memory_diff[a] is None, or the record a had (which may be None again).
ExitUnconstrained(rt) ==
    LET fork == rt.fork[1]
        restored == [a \in Addresses |-> OrElse(fork.memory_diff[a], rt.memory[a])]
    IN  IF ~rt.unconstrained THEN rt
        ELSE [rt EXCEPT !.global_clk = fork.global_clk, !.clk = fork.clk, !.pc = fork.pc,
                        !.memory = restored, !.record = fork.record, !.mode = fork.mode,
                        !.unconstrained = FALSE, !.fork = None]

Syscalls == {"KECCAK", "HINT_READ", "WRITE", "ENTER", "EXIT", "HALT"}

Syscall(rt, i) ==
    CASE i.op = "KECCAK" -> Precompile(rt, i.addr)
      [] i.op = "HINT_READ" -> HintRead(rt, i.addr)
      [] i.op = "WRITE" -> WriteTo(rt, i.to, i.addr)
      [] i.op = "ENTER" -> EnterUnconstrained(rt)
      [] i.op = "EXIT" -> ExitUnconstrained(rt)
      [] i.op = "HALT" -> rt

\* execute_ecall: peek x5, read the operands, run the system call, write x5.
EcallArguments(rt) == Read(Read(Peeked(rt, X5), X10, C), X10, B)

\* rt is the executor after the system call, x5 what was peeked before it.
EcallResult(rt, i, x5) ==
    IF rt.status # "running" THEN rt
    ELSE Write(IF i.op = "EXIT" THEN Peeked(rt, X10) ELSE rt, X5, A,
               CASE i.op = "ENTER" -> <<1, 0>> [] i.op = "EXIT" -> Zero [] OTHER -> x5)

Ecall(rt, i) ==
    IF rt.unconstrained /\ i.op \notin {"EXIT", "WRITE"}
    THEN Fail(EcallArguments(rt), "InvalidSyscallUsage")
    ELSE EcallResult(Syscall(EcallArguments(rt), i), i, Peek(rt, X5))

-----------------------------------------------------------------------------
(* One cycle.                                                              *)

Instruction(rt, i) ==
    CASE i.op = "ALU" -> Alu(rt)
      [] i.op = "LOAD" -> Load(rt, i.addr)
      [] i.op = "STORE" -> Store(rt, i.addr)
      [] i.op = "BRANCH" -> Branch(rt)
      [] i.op = "LI" -> LoadImmediate(rt)
      [] i.op = "HASH" -> Hash(rt, i.addr)
      [] i.op \in Syscalls -> Ecall(rt, i)

\* rt is the executor after the instruction: leaving an unconstrained block
\* continues behind the instruction that entered it.
NextPc(rt, i) ==
    CASE i.op = "HALT" -> 0
      [] i.op = "BRANCH" /\ Peek(rt, X5) = Zero -> i.to
      [] OTHER -> rt.pc + 1

\* Bug: the event of a branch that is taken has the next instruction.
RetireStraight(rt, i) ==
    IF rt.status # "running" THEN rt
    ELSE [rt EXCEPT !.record.cpu = IF rt.mode = "Trace"
                                   THEN Append(@, [pc |-> rt.pc, next_pc |-> rt.pc + 1]) ELSE @,
                    !.pc = NextPc(rt, i),
                    !.clk = @ + (IF i.op = "KECCAK" THEN 1 ELSE 0) + 4,
                    !.global_clk = @ + 1]

\* Emit the CPU event of the instruction, move pc and clk.
Retire(rt, i) ==
    IF rt.status # "running" THEN rt
    ELSE [rt EXCEPT !.record.cpu = IF rt.mode = "Trace"
                                   THEN Append(@, [pc |-> rt.pc, next_pc |-> NextPc(rt, i)]) ELSE @,
                    !.pc = NextPc(rt, i),
                    !.clk = @ + (IF i.op = "KECCAK" THEN 1 ELSE 0) + 4,
                    !.global_clk = @ + 1]

ExecuteInstruction(rt, i) == Retire(Instruction(rt, i), i)

CutShard(rt) ==
    \/ MaxSyscallCycles + rt.clk >= ShardSize
    \/ rt.global_clk % ShapeCheckFrequency = 0 /\ rt.local_mem > LocalMemLimit

\* Bug: the new shard keeps the number of the old one.
StartSameShard(rt) == BumpRecord([rt EXCEPT !.clk = 0])

\* Bug: the clock goes on.
StartShardLate(rt) == BumpRecord([rt EXCEPT !.shard = @ + 1])

StartShard(rt) == BumpRecord([rt EXCEPT !.shard = @ + 1, !.clk = 0])

Done(rt) == rt.pc \notin DOMAIN program.code

EndShard(rt) == IF ~rt.unconstrained /\ CutShard(rt) THEN StartShard(rt) ELSE rt

CheckLimits(rt) ==
    IF IsSome(rt.max_cycles) /\ rt.global_clk >= rt.max_cycles[1] THEN Fail(rt, "ExceededCycleLimit")
    ELSE IF Done(rt) /\ rt.unconstrained THEN Fail(rt, "EndInUnconstrained")
    ELSE rt

EndCycle(rt) == IF rt.status # "running" THEN rt ELSE CheckLimits(EndShard(rt))

ExecuteCycle(rt) == EndCycle(ExecuteInstruction(rt, program.code[rt.pc]))

-----------------------------------------------------------------------------
(* execute, execute_state and execute_record.                              *)

\* The loop of execute ends.
BatchOver(rt) == Done(rt) \/ rt.shard = start.shard + program.shard_batch_size

BeginExecute(rt) == IF rt.global_clk = 0 THEN Initialize(rt) ELSE rt

\* The end of execute.  Only the replay emits global memory events.
EndExecute(rt, emit) ==
    IF ~Done(rt) THEN rt ELSE BumpRecord(IF emit THEN Postprocess(rt) ELSE rt)

\* The memory of the checkpoint: what the batch touched, as it was before; if
\* the program is done, all of the memory.
CheckpointMemory(rt) ==
    [a \in Addresses |->
        IF Done(rt) THEN OrElse(rt.memory_checkpoint[a], rt.memory[a])
        ELSE OrElse(rt.memory_checkpoint[a], None)]

CheckpointUninitialized(rt) ==
    [a \in Addresses |->
        IF Done(rt) THEN (IF rt.uninitialized_checkpoint[a] = Some(FALSE) THEN None
                          ELSE rt.uninitialized[a])
        ELSE IF rt.uninitialized_checkpoint[a] = Some(TRUE) THEN rt.uninitialized[a] ELSE None]

\* Executor::recover, from the state that execute_state cloned.
Recover(rt) ==
    [NewExecutor(start.input_stream, {DefaultHook}, None) EXCEPT
        !.pc = start.pc, !.shard = start.shard, !.clk = start.clk, !.global_clk = start.global_clk,
        !.public_values_stream = start.public_values_stream,
        !.memory = CheckpointMemory(rt),
        !.uninitialized = CheckpointUninitialized(rt)]

BeginCheckpoint ==
    /\ phase = "begin"
    /\ start' = gen
    /\ gen' = BeginExecute([gen EXCEPT !.memory_checkpoint = EmptyMap,
                                       !.mode = "Checkpoint", !.accesses = <<>>])
    /\ phase' = "checkpoint"
    /\ UNCHANGED <<program, rep, proved>>

CheckpointCycle ==
    /\ phase = "checkpoint" /\ ~BatchOver(gen)
    /\ gen' = ExecuteCycle(gen)
    /\ phase' = IF gen'.status = "running" THEN phase ELSE "failed"
    /\ UNCHANGED <<program, start, rep, proved>>

\* The checkpoint is sent, and a worker recovers an executor from it.
EndCheckpoint ==
    /\ phase = "checkpoint" /\ BatchOver(gen)
    /\ gen' = [EndExecute(gen, FALSE) EXCEPT !.memory_checkpoint = EmptyMap,
                                             !.uninitialized_checkpoint = EmptyMap,
                                             !.records = IF Done(gen) THEN @ ELSE <<>>]
    /\ rep' = BeginExecute(Recover(gen))
    /\ phase' = "record"
    /\ UNCHANGED <<program, start, proved>>

RecordCycle ==
    /\ phase = "record" /\ rep.status = "running" /\ ~BatchOver(rep)
    /\ rep' = ExecuteCycle(rep)
    /\ UNCHANGED <<program, gen, start, phase, proved>>

EndRecord ==
    /\ phase = "record" /\ rep.status = "running" /\ BatchOver(rep)
    /\ rep' = EndExecute(rep, TRUE)
    /\ proved' = proved \o rep'.records
    /\ phase' = IF Done(gen) THEN "done" ELSE "begin"
    /\ UNCHANGED <<program, gen, start>>

Init ==
    /\ program \in Programs
    /\ gen = NewExecutor(program.input, {DefaultHook} \union program.hooks, program.max_cycles)
    /\ start = gen
    /\ rep = NewExecutor(<<>>, {DefaultHook}, None)
    /\ phase = "begin"
    /\ proved = <<>>

Next == BeginCheckpoint \/ CheckpointCycle \/ EndCheckpoint \/ RecordCycle \/ EndRecord

Spec == Init /\ [][Next]_vars

-----------------------------------------------------------------------------
(* Properties.                                                             *)

Values == (0..1) \X (0..1)
MemoryRecords == [value : Values, shard : Nat, timestamp : Nat]

\* Type invariant.  The clock stays below the shard size: a shard is cut before
\* an instruction could need a larger timestamp.  Inside an unconstrained block,
\* which is never cut, it may pass it.
ExecutorOK(rt) ==
    /\ rt.pc \in 0..(Len(program.code) + 1)
    /\ rt.shard \in Nat \ {0} /\ rt.global_clk \in Nat /\ rt.local_mem \in Nat
    /\ rt.unconstrained \/ rt.clk < ShardSize \/ rt.status # "running"
    /\ rt.mode \in {"Checkpoint", "Trace", "Simple"}
    /\ rt.unconstrained = IsSome(rt.fork)
    /\ \A a \in Addresses :
          /\ IsSome(rt.memory[a]) => rt.memory[a][1].value \in Values
          /\ IsSome(rt.memory[a]) /\ ~rt.unconstrained => rt.memory[a][1] \in MemoryRecords
          /\ IsSome(rt.uninitialized[a]) => rt.uninitialized[a][1] \in Values

TypeOK ==
    /\ ExecutorOK(gen) /\ ExecutorOK(rep)
    /\ phase \in {"begin", "checkpoint", "record", "done", "failed"}

\* The replay of a batch (execute_record on the recovered checkpoint) does what
\* the generator did (execute_state): it never fails, makes the same accesses
\* with the same previous values and timestamps, cuts the shards at the same
\* places, and ends with the same streams and, in the last batch, the same
\* memory (a hint of zero is no different from no hint).  The checkpoint has only
\* what the batch touched, so all that a batch depends on must be in it.
ReplayFaithful ==
    phase = "record" =>
        /\ rep.status = "running"
        /\ IsPrefix(rep.accesses, gen.accesses)
        /\ BatchOver(rep) =>
              /\ rep.accesses = gen.accesses
              /\ rep.pc = gen.pc /\ rep.shard = gen.shard /\ rep.clk = gen.clk
              /\ rep.global_clk = gen.global_clk
              /\ rep.input_stream = gen.input_stream
              /\ rep.public_values_stream = gen.public_values_stream
              /\ Done(gen) =>
                    /\ rep.memory = gen.memory
                    /\ \A a \in Addresses : OrElse(rep.uninitialized[a], Zero)
                                              = OrElse(gen.uninitialized[a], Zero)

\* Every access of an address is later than the one before it, counting shards
\* first and the clock within a shard: the memory argument compares (shard,
\* timestamp) pairs.
Earlier(r, s) == r.shard < s.shard \/ (r.shard = s.shard /\ r.timestamp < s.timestamp)

AccessesOrdered ==
    \A rt \in {gen, rep} : \A i \in DOMAIN rt.accesses :
        Earlier(rt.accesses[i].prev, rt.accesses[i].cur)

AllOf(field) == UNION {{[shard |-> i] @@ [event |-> e] : e \in proved[i][field]} : i \in DOMAIN proved}

At(a, r) == [addr |-> a] @@ r

\* When all batches are replayed, the memory argument of the whole proof
\* balances: each (address, value, shard, timestamp) that an initialize event,
\* the memory image, or a local event of a CPU shard or of a precompile leaves
\* is taken up by exactly one local or finalize event, and nothing else is.
MemoryBalanced ==
    phase = "done" =>
        LET events == {[precompile |-> FALSE] @@ e : e \in AllOf("local")}
                      \union {[precompile |-> TRUE] @@ e : e \in AllOf("precompile")}
            fresh(v) == [value |-> v, shard |-> 0, timestamp |-> 0]
            left == {At(e.event.addr, e.event.final) : e \in events}
                    \union {At(e.event.addr, fresh(e.event.value)) : e \in AllOf("initialize")}
                    \union {At(a, fresh(Image[a])) : a \in DOMAIN Image}
            taken == {At(e.event.addr, e.event.initial) : e \in events}
            finals == {e.event : e \in AllOf("finalize")}
        IN  /\ left = taken \union finals
            /\ taken \intersect finals = {}
            /\ Cardinality(taken) = Cardinality(events)

CpuEvents == FlattenSeq([i \in DOMAIN proved |-> proved[i].cpu])

\* The CPU events of all records, put one after the other, are one run of the
\* program from its first instruction to its end; an unconstrained block is a
\* single event of it.
EventsChained ==
    /\ \A i \in 1..(Len(CpuEvents) - 1) : CpuEvents[i].next_pc = CpuEvents[i + 1].pc
    /\ CpuEvents # <<>> => CpuEvents[1].pc = 1
    /\ phase = "done" => CpuEvents # <<>> /\ Last(CpuEvents).next_pc \notin DOMAIN program.code

LeavesBlock(rt, after) == rt.unconstrained /\ after.status = "running" /\ ~after.unconstrained

\* rt is the executor before the EXIT and `before' that of the ENTER: of the
\* block one CPU event and one write, of x5, are left.
Undone(rt, after) ==
    LET before == rt.fork[1].before
        x5 == Last(after.accesses)
        traced == before.mode = "Trace"
        event == [pc |-> before.pc, next_pc |-> before.pc + 1]
        record == [before.record EXCEPT !.cpu = IF traced THEN Append(@, event) ELSE @]
        local == IF traced THEN LocalEvent(before.local, X5, x5.prev, x5.cur) ELSE before.local
        resumed == [before EXCEPT !.pc = @ + 1, !.clk = @ + 4, !.global_clk = @ + 1,
                                  !.record = record, !.local = local]
        next == IF CutShard(resumed) THEN StartShard(resumed) ELSE resumed
    IN
    /\ \A a \in Addresses \ {X5} : after.memory[a] = before.memory[a]
    /\ x5.prev = OrElse(before.memory[X5], [value |-> Zero, shard |-> 0, timestamp |-> 0])
    /\ Front(after.accesses) = before.accesses
    /\ after.uninitialized = before.uninitialized
    /\ <<after.pc, after.global_clk, after.clk, after.shard, after.mode>>
          = <<next.pc, next.global_clk, next.clk, next.shard, next.mode>>
    /\ <<after.record, after.records, after.local, after.syscall_local, after.local_mem>>
          = <<next.record, next.records, next.local, next.syscall_local, next.local_mem>>
    /\ <<after.input_stream, after.public_values_stream>>
          = <<rt.input_stream, rt.public_values_stream>>

\* Leaving an unconstrained block undoes all that the block did to the memory,
\* the hints, the clocks, the counters, the mode and the record of events, also
\* when the shard is cut right behind it; what it wrote to the streams stays.
UnconstrainedUndone ==
    [][/\ LeavesBlock(gen, gen') => Undone(gen, gen')
       /\ LeavesBlock(rep, rep') => Undone(rep, rep')]_vars

\* The public values that the executor collects (WriteSyscall) are the bytes
\* that the program hashes for its digest (syscall_write in zkvm/entrypoint),
\* in the same order, although the one peeks and the other loads.
PublicValuesHashed == phase = "done" => gen.public_values_stream = gen.hashed

\* There are two ways only in which the public values and the hashed bytes part,
\* over all batches and replays: what a block writes is not undone with the hash
\* of it, and a hinted word that no instruction has accessed is taken for zero.
PublicValuesExplained ==
    phase = "done" =>
        LET how == [i \in DOMAIN gen.public_values_stream |->
                       [value |-> gen.public_values_stream[i]] @@ gen.outputs[i]]
            outside == SelectSeq(how, LAMBDA o : ~o.block)
        IN  /\ Len(outside) = Len(gen.hashed)
            /\ \A i \in DOMAIN outside :
                  outside[i].value = IF outside[i].unread THEN Zero ELSE gen.hashed[i]

\* A byte store keeps the other bytes that the word had: the value it writes
\* (execute_store) differs from the previous value of its own access record in
\* the stored byte only, as the AIR of the memory instructions demands.
BytesKept ==
    [][(/\ CheckpointCycle
        /\ program.code[gen.pc].op = "STORE" /\ ~gen.unconstrained)
       => Last(gen'.accesses).cur.value[2] = Last(gen'.accesses).prev.value[2]]_vars
=============================================================================
