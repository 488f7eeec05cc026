--------------------------- MODULE MCCorePipeline ---------------------------
(***************************************************************************)
(* Small executions for CorePipeline: two shards to a batch, at most three *)
(* batches, two system calls with precompile events.                       *)
(***************************************************************************)
EXTENDS CorePipeline

MCThreshold == [c \in SyscallCodes |-> IF c = "KECCAK_PERMUTE" THEN 1 ELSE 2]

Cpu(k, o) == [cpu |-> TRUE, events |-> [c \in SyscallCodes |-> IF c = "KECCAK_PERMUTE" THEN k ELSE o]]

\* The record that is pushed after a shard was cut at the halting instruction.
Trailing == [cpu |-> FALSE, events |-> [c \in SyscallCodes |-> 0]]

Shards == {Cpu(0, 0), Cpu(1, 0), Cpu(0, 1)}

FullBatches == {<<a, b>> : a \in {Cpu(0, 0), Cpu(0, 1)}, b \in {Cpu(0, 1), Cpu(1, 1)}}

LastBatches == {<<a>> : a \in Shards} \union {<<Cpu(0, 0), Cpu(0, 1)>>}

Batches ==
    {<<z>> : z \in LastBatches}
    \union {<<a, z>> : a \in FullBatches, z \in LastBatches}
    \union {<<a, b, z>> : a \in {<<Cpu(0, 1), Cpu(1, 1)>>}, b \in FullBatches, z \in {<<Cpu(0, 0)>>}}

\* Memory events that fit into one chunk, or not.
Memory(few) == IF few THEN [init |-> <<0, 2>>, final |-> <<0, 2, 1>>]
               ELSE [init |-> <<0, 3, 2, 1>>, final |-> <<0, 7, 4, 5, 2, 6, 3, 1>>]

Execution(batches, commit, few, fails, shaped) ==
    [batches |-> batches, commit |-> commit, few_cycles |-> TRUE, fails |-> fails, shaped |-> shaped,
     init |-> Memory(few).init, final |-> Memory(few).final]

Long == {b \in Batches : Len(b) = 3}

\* A shard is cut at the halting instruction.
CutAtHalt == <<<<Cpu(0, 1), Cpu(1, 1)>>, <<Cpu(0, 0), Trailing>>>>

\* Programs that commit their output in the last batch: some end, some fail, and
\* some leave a last record that has no shape.
MCExecutions ==
    {Execution(b, Len(b), few, 0, TRUE) : b \in Batches, few \in BOOLEAN}
    \union {Execution(b, Len(b), TRUE, f, TRUE) : b \in Long, f \in 1..3}
    \union {Execution(CutAtHalt, 2, few, 0, shaped) : few, shaped \in BOOLEAN}

\* The batch ends between COMMIT and HALT.
CommitEarly == {Execution(<<<<Cpu(0, 0), Cpu(0, 0)>>, <<Cpu(0, 0)>>>>, 1, TRUE, 0, FALSE)}

HaltCutExecutions == {Execution(CutAtHalt, 2, FALSE, 0, TRUE)}
=============================================================================
