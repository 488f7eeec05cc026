--------------------------- MODULE MCCompressTree ---------------------------
(***************************************************************************)
(* Instances of CompressTree: one to three layers, with and without        *)
(* deferred proofs, with partial batches at every layer.                   *)
(***************************************************************************)
EXTENDS CompressTree

\* <<0, 2>> has a run of its own.
MCInstances == {<<0, 1>>, <<1, 1>>, <<0, 3>>, <<0, 5>>, <<0, 8>>, <<3, 7>>, <<2, 18>>}

TwoShards == {<<0, 2>>}
=============================================================================
