----------------------------- MODULE MCExecutor -----------------------------
(***************************************************************************)
(* Small programs for Executor.  "m" is in the memory image; "h" is fresh  *)
(* memory, into which hints are read.                                      *)
(***************************************************************************)
EXTENDS Executor

MCImage == [a \in {"m"} |-> <<1, 0>>]

I(op, a) == <<[op |-> op, addr |-> a, to |-> 0]>>
WriteFd(fd, a) == I("LI", "x12") \o <<[op |-> "WRITE", addr |-> a, to |-> fd]>>
Alus == I("ALU", "x10") \o I("ALU", "x10") \o I("ALU", "x10")
Output(a) == WriteFd("public values", a) \o I("HASH", a)

\* A block: enter, skip the body when x5 is zero, the body, leave.
Block(body) == [block |-> TRUE, code |-> body]
Plain(code) == [block |-> FALSE, code |-> code]

\* The code of a segment that starts at pc.
CodeAt(segment, pc) ==
    IF ~segment.block THEN segment.code
    ELSE I("ENTER", "x10")
         \o <<[op |-> "BRANCH", addr |-> "x5", to |-> pc + 3 + Len(segment.code)]>>
         \o segment.code \o I("EXIT", "x10")

Link(code, segment) == code \o CodeAt(segment, Len(code) + 1)

\* At most three segments.
Assemble(segments) ==
    CASE Len(segments) = 1 -> Link(<<>>, segments[1])
      [] Len(segments) = 2 -> Link(Link(<<>>, segments[1]), segments[2])
      [] Len(segments) = 3 -> Link(Link(Link(<<>>, segments[1]), segments[2]), segments[3])

PlainSegments ==
    {Plain(I(op, a)) : op \in {"LOAD", "STORE", "KECCAK"}, a \in {"m", "h"}}
    \union {Plain(Alus), Plain(I("HINT_READ", "h")), Plain(Output("m")), Plain(Output("h"))}

Blocks ==
    {Block(I(op, a)) : op \in {"LOAD", "STORE"}, a \in {"m", "h"}}
    \union {Block(I("STORE", "h") \o WriteFd("hint", "h")),
            Block(I("LOAD", "h") \o WriteFd(DefaultHook, "m")),
            Block(Output("m"))}

\* Memory is not read or written before it is hinted.
HintsFresh(segments) ==
    \A j \in DOMAIN segments :
        segments[j].code = I("HINT_READ", "h") =>
            \A i \in 1..(j - 1) : segments[i].block \/ segments[i].code \in
                {I("LOAD", "m"), I("STORE", "m"), I("KECCAK", "m"), Alus, Output("m")}

Program(segments, hooks, max_cycles, batch) ==
    [code |-> Assemble(segments) \o I("HALT", "x10"), input |-> <<<<0, 1>>>>,
     hooks |-> hooks, max_cycles |-> max_cycles, shard_batch_size |-> batch]

Sequences == UNION {[1..n -> PlainSegments \union Blocks] : n \in 1..3}

\* Programs that fail: a system call in a block, the end of the program in a
\* block, too many cycles, a reserved file descriptor, no input.
FailingPrograms ==
    {Program(<<Block(I("KECCAK", "m"))>>, {}, None, 1),
     Program(<<Plain(WriteFd("reserved", "m"))>>, {}, None, 1),
     Program(<<Plain(I("ALU", "x10")), Plain(I("LOAD", "m"))>>, {}, Some(2), 1),
     [code |-> I("ENTER", "x10") \o I("ALU", "x10"), input |-> <<>>, hooks |-> {}, max_cycles |-> None,
      shard_batch_size |-> 1],
     [code |-> I("HINT_READ", "h") \o I("HALT", "x10"), input |-> <<>>, hooks |-> {}, max_cycles |-> None,
      shard_batch_size |-> 1]}

\* Programs that write to descriptors without a stream.
PrintingPrograms ==
    {Program(<<Plain(I("HINT_READ", "h")), Plain(WriteFd(fd, "h")), Plain(I("LOAD", "h"))>>, {}, None, batch) :
        fd \in {"stdout", "unknown"}, batch \in 1..2}

MCPrograms ==
    FailingPrograms \union PrintingPrograms
    \union {Program(s, {}, None, batch) :
               s \in {t \in Sequences : HintsFresh(t)}, batch \in 1..2}

\* The program stores a byte into a hinted word that it has not read.
UnreadStore == {Program(<<Plain(I("HINT_READ", "h")), Plain(I("STORE", "h"))>>, {}, None, 1)}

\* The program writes out a hinted word that it has not read, or in a block.
UnhashedOutputs ==
    {Program(<<Plain(I("HINT_READ", "h")), Plain(Output("h"))>>, {}, None, 1),
     Program(<<Block(Output("m"))>>, {}, None, 1)}

\* The program reads the answer of a hook that the caller registered.
CustomHook ==
    {[Program(<<Plain(WriteFd("custom hook", "m")), Plain(I("HINT_READ", "h")), Plain(I("LOAD", "h"))>>,
              {"custom hook"}, None, 2) EXCEPT !.input = <<>>]}
=============================================================================
