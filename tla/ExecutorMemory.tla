--------------------------- MODULE ExecutorMemory ---------------------------
(***************************************************************************)
(* crates/core/executor/src/executor.rs: how the executor `rt' reads and   *)
(* writes registers and memory, in its three modes, and what it records on *)
(* the way: the checkpoint of the batch, the changes of an unconstrained   *)
(* block, the local memory events of the shard.                            *)
(*                                                                         *)
(* A word is a pair of bytes.  An option is a sequence of length at most   *)
(* one.  rt.accesses, rt.hashed and rt.outputs are histories: the accesses *)
(* a proof is about, the words the program hashed as its output, and how   *)
(* each word of public_values_stream was written.                          *)
(***************************************************************************)
EXTENDS Naturals, Sequences, SequencesExt, FiniteSets

CONSTANTS
    Registers, Words,   \* addresses of registers and of main memory
    Image               \* Image[a] : the words of the program's memory image

ASSUME MemoryAssumption == Registers \intersect Words = {} /\ DOMAIN Image \subseteq Words

Addresses == Registers \union Words
Zero == <<0, 0>>
None == <<>>
Some(x) == <<x>>
IsSome(o) == o # None
OrElse(o, x) == IF IsSome(o) THEN o[1] ELSE x

\* entry(a).or_insert(x) for a map m whose values are options.
OrInsert(m, a, x) == IF IsSome(m[a]) THEN m ELSE [m EXCEPT ![a] = Some(x)]

EmptyMap == [a \in Addresses |-> None]
EmptyRecord == [cpu |-> <<>>, local |-> {}, precompile |-> {}, initialize |-> {}, finalize |-> {}]

\* ExecutionState::new, and the fields Executor::with_context sets.
NewExecutor(input, hooks, max_cycles) ==
    [pc |-> 1, shard |-> 1, clk |-> 0, global_clk |-> 0,
     memory |-> EmptyMap, uninitialized |-> EmptyMap,
     input_stream |-> input, public_values_stream |-> <<>>,
     mode |-> "Trace", unconstrained |-> FALSE, fork |-> None, hooks |-> hooks,
     max_cycles |-> max_cycles,
     memory_checkpoint |-> EmptyMap, uninitialized_checkpoint |-> EmptyMap,
     local |-> EmptyMap, syscall_local |-> EmptyMap, local_mem |-> 0,
     record |-> EmptyRecord, records |-> <<>>, status |-> "running",
     accesses |-> <<>>, hashed |-> <<>>, outputs |-> <<>>]

\* initialize: load the memory image.
Initialize(rt) ==
    [rt EXCEPT !.clk = 0,
               !.memory = [a \in Addresses |->
                   IF a \in DOMAIN Image THEN Some([value |-> Image[a], shard |-> 0, timestamp |-> 0])
                   ELSE @[a]]]

-----------------------------------------------------------------------------
Checkpointing(rt) == rt.mode = "Checkpoint" \/ rt.unconstrained

\* Bug: the last state that was seen stays, not the first.
SaveLastToCheckpoint(rt, a) ==
    IF Checkpointing(rt) THEN [rt EXCEPT !.memory_checkpoint[a] = Some(rt.memory[a])] ELSE rt

\* Remember what a had when the batch first touched it.
SaveToCheckpoint(rt, a) ==
    IF Checkpointing(rt) THEN [rt EXCEPT !.memory_checkpoint = OrInsert(@, a, rt.memory[a])] ELSE rt

\* register(r) and word(a): the value, without an access.  Memory that was only
\* hinted has no record yet, and reads as zero.
Peek(rt, a) == IF IsSome(rt.memory[a]) THEN rt.memory[a][1].value ELSE Zero

Peeked(rt, a) == SaveToCheckpoint(rt, a)

\* In an unconstrained block: remember what leaving the block restores.
SaveToFork(rt, a) ==
    IF rt.unconstrained
    THEN [rt EXCEPT !.fork[1].memory_diff = OrInsert(@, a, rt.memory[a])] ELSE rt

\* The first access to a gives it the hinted value, or zero.
Materialize(rt, a) ==
    LET value == OrElse(rt.uninitialized[a], Zero)
    IN  IF IsSome(rt.memory[a]) THEN rt
        ELSE [rt EXCEPT
                !.uninitialized_checkpoint = OrInsert(@, a, value # Zero),
                !.memory[a] = Some([value |-> value, shard |-> 0, timestamp |-> 0])]

\* Begin or extend the local memory event of a.
LocalEvent(events, a, prev, cur) ==
    [events EXCEPT ![a] = Some([initial |-> IF IsSome(@) THEN @[1].initial ELSE prev, final |-> cur])]

\* What an access leaves behind: the new record of a, and if a proof is about
\* the access, its count and its part of the local event.  Registers are not
\* counted in local_mem.
Record(rt, a, cur, syscall) ==
    LET prev == rt.memory[a][1]
        counted == ~rt.unconstrained /\ a \in Words /\ (prev.shard # rt.shard \/ syscall)
        traced == ~rt.unconstrained /\ rt.mode = "Trace"
    IN  [rt EXCEPT
           !.memory[a] = Some(cur),
           !.local_mem = IF counted THEN @ + 1 ELSE @,
           !.local = IF traced /\ ~syscall THEN LocalEvent(@, a, prev, cur) ELSE @,
           !.syscall_local = IF traced /\ syscall THEN LocalEvent(@, a, prev, cur) ELSE @,
           !.accesses = IF rt.unconstrained THEN @
                        ELSE Append(@, [addr |-> a, prev |-> prev, cur |-> cur])]

Stamp(rt, a, ts, new, syscall) ==
    Record(rt, a, [value |-> OrElse(new, rt.memory[a][1].value), shard |-> rt.shard, timestamp |-> ts],
           syscall)

\* mr, mw, rr, rw and their traced forms: access a at time ts.  `new' is the
\* value written, or None for a read; `syscall' tells whether a SyscallContext
\* makes the access.
Access(rt, a, ts, new, syscall) ==
    Stamp(Materialize(SaveToFork(SaveToCheckpoint(rt, a), a), a), a, ts, new, syscall)

Read(rt, a, position) == Access(rt, a, rt.clk + position, None, FALSE)
Write(rt, a, position, v) == Access(rt, a, rt.clk + position, Some(v), FALSE)

\* MemoryAccessPosition
Memory == 0
C == 1
B == 2
A == 3

-----------------------------------------------------------------------------
Events(m) == {[addr |-> a] @@ m[a][1] : a \in {b \in Addresses : IsSome(m[b])}}

\* Bug: the CPU's event for a word goes on across the system call.
SyscallPostprocessKeeping(rt) ==
    [rt EXCEPT !.syscall_local = EmptyMap, !.record.precompile = @ \union Events(rt.syscall_local)]

\* SyscallContext::postprocess, and the precompile event that takes its result:
\* the CPU's event for a word ends where the system call takes the word over.
SyscallPostprocess(rt) ==
    LET taken == {a \in Addresses : IsSome(rt.syscall_local[a])}
    IN  [rt EXCEPT
           !.local = [a \in Addresses |-> IF a \in taken THEN None ELSE @[a]],
           !.syscall_local = EmptyMap,
           !.record.local = @ \union {e \in Events(rt.local) : e.addr \in taken},
           !.record.precompile = @ \union Events(rt.syscall_local)]

\* A system call of a precompile, as KECCAK_PERMUTE: read the word at clk, write
\* it at clk + 1.
Permute(w) == <<w[2], 1 - w[1]>>
WritePermuted(rt, a) == Access(rt, a, rt.clk + 1, Some(Permute(Peek(rt, a))), TRUE)

Precompile(rt, a) == SyscallPostprocess(WritePermuted(Access(rt, a, rt.clk, None, TRUE), a))

\* bump_record: the open local events go into the record, which is pushed.
BumpRecord(rt) ==
    [rt EXCEPT !.local_mem = 0,
               !.local = EmptyMap,
               !.record = EmptyRecord,
               !.records = Append(@, [rt.record EXCEPT !.local = @ \union Events(rt.local)])]

\* postprocess, when the global memory events are emitted.
Postprocess(rt) ==
    LET touched == {a \in Addresses : IsSome(rt.memory[a])}
    IN  [rt EXCEPT
           !.record.initialize = {[addr |-> a, value |-> OrElse(rt.uninitialized[a], Zero)] :
                                     a \in touched \ DOMAIN Image},
           !.record.finalize = {[addr |-> a] @@ rt.memory[a][1] : a \in touched}]
=============================================================================
