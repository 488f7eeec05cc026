---------------------------- MODULE ShardVerifier ----------------------------
(***************************************************************************)
(* crates/prover/src/verify.rs, SP1Prover::verify: what the public values  *)
(* of the shard proofs of one execution must satisfy.  A shard proof is    *)
(* the record it proves; each check below is one loop of the function.     *)
(* The proofs of the single shards (machine().verify) are not modelled.    *)
(***************************************************************************)
EXTENDS Naturals, Sequences

CONSTANTS PcStart,      \* vk.pc_start
          MaxShards     \* 1 << 16

\* The value a field had in the previous shard; `first' for the first one.
Previous(proofs, i, field, first) ==
    IF i = 1 THEN first ELSE proofs[i - 1].public_values[field]

CpuShardsUpTo(proofs, i) == Len(SelectSeq(SubSeq(proofs, 1, i), LAMBDA p : p.cpu))

FirstShardHasCpu(proofs) == proofs[1].cpu

ShardsCount(proofs) ==
    \A i \in DOMAIN proofs : proofs[i].public_values.shard = i

ExecutionShardsCount(proofs) ==
    \A i \in DOMAIN proofs :
        proofs[i].cpu => proofs[i].public_values.execution_shard = CpuShardsUpTo(proofs, i)

ProgramCounterChain(proofs) ==
    \A i \in DOMAIN proofs :
        LET pv == proofs[i].public_values IN
        /\ pv.start_pc = Previous(proofs, i, "next_pc", PcStart)
        /\ ~proofs[i].cpu => pv.start_pc = pv.next_pc
        /\ proofs[i].cpu => pv.start_pc # 0
        /\ i = Len(proofs) => pv.next_pc = 0

AddressChain(proofs) ==
    \A i \in DOMAIN proofs :
        LET pv == proofs[i].public_values IN
        /\ pv.previous_init_addr = Previous(proofs, i, "last_init_addr", 0)
        /\ pv.previous_finalize_addr = Previous(proofs, i, "last_finalize_addr", 0)
        /\ proofs[i].initialize_events = <<>> => pv.previous_init_addr = pv.last_init_addr
        /\ proofs[i].finalize_events = <<>> => pv.previous_finalize_addr = pv.last_finalize_addr

DigestKept(proofs, digest) ==
    \A i \in DOMAIN proofs :
        LET prev == Previous(proofs, i, digest, 0) IN
        (prev # 0 \/ ~proofs[i].cpu) => proofs[i].public_values[digest] = prev

Verify(proofs) ==
    /\ proofs # <<>>
    /\ FirstShardHasCpu(proofs)
    /\ ShardsCount(proofs)
    /\ ExecutionShardsCount(proofs)
    /\ ProgramCounterChain(proofs)
    /\ AddressChain(proofs)
    /\ DigestKept(proofs, "committed_value_digest")
    /\ DigestKept(proofs, "deferred_proofs_digest")
    /\ Len(proofs) <= MaxShards
=============================================================================
