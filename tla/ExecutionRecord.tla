--------------------------- MODULE ExecutionRecord ---------------------------
(***************************************************************************)
(* crates/core/executor/src/record.rs: the record of one shard, and how    *)
(* the events that are too expensive for a CPU shard are moved into shards *)
(* of their own (defer, append, split).  An event is only its identity; a  *)
(* memory initialize or finalize event is its address.                     *)
(***************************************************************************)
EXTENDS Naturals, Sequences, SequencesExt

CONSTANTS
    SyscallCodes,       \* the system calls that have precompile events
    Threshold,          \* Threshold[c] : events of c per shard (SplitOpts)
    MemoryChunk         \* opts.memory : memory events per shard

ASSUME SplitOptsAssumption ==
    /\ Threshold \in [SyscallCodes -> Nat \ {0}]
    /\ MemoryChunk \in Nat \ {0}

\* PublicValues::default(): the digests and the addresses are zero.
DefaultPublicValues ==
    [shard |-> 0, execution_shard |-> 0, start_pc |-> 0, next_pc |-> 0,
     committed_value_digest |-> 0, deferred_proofs_digest |-> 0,
     previous_init_addr |-> 0, last_init_addr |-> 0,
     previous_finalize_addr |-> 0, last_finalize_addr |-> 0]

NoEvents == [c \in SyscallCodes |-> <<>>]

\* ExecutionRecord::new
NewRecord ==
    [cpu |-> FALSE, public_values |-> DefaultPublicValues,
     precompile_events |-> NoEvents, initialize_events |-> <<>>, finalize_events |-> <<>>]

PrecompileRecord(c, events) ==
    [NewRecord EXCEPT !.precompile_events[c] = events]

\* defer: the new record that takes the events, and what is left of the old one.
Defer(r) ==
    [NewRecord EXCEPT !.precompile_events = r.precompile_events,
                      !.initialize_events = r.initialize_events,
                      !.finalize_events = r.finalize_events]

Deferred(r) ==
    [r EXCEPT !.precompile_events = NoEvents,
              !.initialize_events = <<>>,
              !.finalize_events = <<>>]

\* append, for the events a deferred record can have.
AppendRecord(r, other) ==
    [r EXCEPT
       !.precompile_events = [c \in SyscallCodes |-> @[c] \o other.precompile_events[c]],
       !.initialize_events = @ \o other.initialize_events,
       !.finalize_events = @ \o other.finalize_events]

-----------------------------------------------------------------------------
\* slice::chunks_exact(n), its remainder(), and slice::chunks(n).
ChunksExact(s, n) == [k \in 1..(Len(s) \div n) |-> SubSeq(s, (k - 1) * n + 1, k * n)]

Remainder(s, n) == SubSeq(s, Len(s) - (Len(s) % n) + 1, Len(s))

NumChunks(s) == (Len(s) + MemoryChunk - 1) \div MemoryChunk

\* Bug: at the end of the program the remainder is forgotten.
PrecompileShardsExact(c, events, last) ==
    LET full == ChunksExact(events, Threshold[c])
    IN  [k \in DOMAIN full |-> PrecompileRecord(c, full[k])]

\* The shards of one system call: the full chunks, and at the end of the
\* program the remainder, which comes first.
PrecompileShards(c, events, last) ==
    LET rest == Remainder(events, Threshold[c])
        full == ChunksExact(events, Threshold[c])
    IN  (IF last /\ rest # <<>> THEN <<PrecompileRecord(c, rest)>> ELSE <<>>)
        \o [k \in DOMAIN full |-> PrecompileRecord(c, full[k])]

SortedByAddr(s) == SortSeq(s, LAMBDA a, b : a < b)

\* The address bits carried from one memory shard to the next: the last
\* address among the first k chunks, zero before the first event.
LastAddr(s, k) ==
    LET n == Min({k * MemoryChunk, Len(s)}) IN IF n = 0 THEN 0 ELSE s[n]

\* The events of the chunks from..to.
Chunks(s, from, to) ==
    SubSeq(s, (from - 1) * MemoryChunk + 1, Min({to * MemoryChunk, Len(s)}))

\* Put the memory events of the chunks from..to into the record r, one chunk
\* after the other: the addresses that stay are those of the last chunk.
WithMemoryEvents(r, init, final, from, to) ==
    [r EXCEPT
       !.initialize_events = @ \o Chunks(init, from, to),
       !.finalize_events = @ \o Chunks(final, from, to),
       !.public_values.previous_init_addr = LastAddr(init, to - 1),
       !.public_values.last_init_addr = LastAddr(init, to),
       !.public_values.previous_finalize_addr = LastAddr(final, to - 1),
       !.public_values.last_finalize_addr = LastAddr(final, to)]

\* split(last, last_record, opts).  `order' is the order in which the hash map
\* of precompile events is iterated; `records' are the shards of the batch, of
\* which the last one is last_record when `pack' holds.  The result is the
\* deferred record that stays, the batch's records, and the new shards.
Split(deferred, last, pack, records, order) ==
    LET precompile == FlattenSeq([i \in DOMAIN order |->
                          PrecompileShards(order[i], deferred.precompile_events[order[i]], last)])
        kept  == [c \in SyscallCodes |->
                     IF last THEN <<>>
                     ELSE Remainder(deferred.precompile_events[c], Threshold[c])]
        init  == SortedByAddr(deferred.initialize_events)
        final == SortedByAddr(deferred.finalize_events)
        chunks == IF last THEN Max({NumChunks(init), NumChunks(final)}) ELSE 0
        packed == last /\ pack /\ precompile = <<>> /\ chunks > 0
    IN  [deferred |-> [deferred EXCEPT !.precompile_events = kept,
                                       !.initialize_events = IF last THEN init ELSE @,
                                       !.finalize_events = IF last THEN final ELSE @],
         records |-> IF packed
                     THEN [records EXCEPT ![Len(records)] =
                              WithMemoryEvents(@, init, final, 1, chunks)]
                     ELSE records,
         shards |-> IF packed THEN precompile
                    ELSE precompile \o [k \in 1..chunks |->
                            WithMemoryEvents(NewRecord, init, final, k, k)]]
=============================================================================
