---------------------------- MODULE CompressTree ----------------------------
(***************************************************************************)
(* crates/prover/src/lib.rs, SP1Prover::compress: the shard proofs and the *)
(* deferred proofs of one execution are reduced to one proof by a tree of  *)
(* recursion proofs.  A feeder thread sends the inputs of the first layer, *)
(* tracers make records and traces of the inputs, provers prove them, and  *)
(* one thread makes the inputs of the next layer from the proofs and sends *)
(* them to the tracers: the channels form a cycle.  The TurnBasedSync      *)
(* objects appear by what they promise (module TurnOrder).                 *)
(*                                                                         *)
(* A proof is the interval of leaves it covers, and its is_complete flag:  *)
(* the leaves are the deferred proofs followed by the shard proofs.        *)
(* Indices count from 1 (from 0 in the code).                              *)
(***************************************************************************)
EXTENDS Naturals, Sequences, SequencesExt, FiniteSets

CONSTANTS
    Instances,          \* pairs <<deferred proofs, shard proofs>>
    Tracers, Provers,   \* trace_gen_workers and shard_batch_size threads
    InputsCapacity,     \* recursion_opts.checkpoints_channel_capacity
    TracesCapacity,     \* recursion_opts.records_and_traces_channel_capacity
    ReduceBatchSize,    \* REDUCE_BATCH_SIZE
    FirstLayerBatchSize \* first_layer_batch_size

ASSUME CompressAssumption ==
    /\ Instances \subseteq Nat \X (Nat \ {0})
    /\ Tracers # {} /\ Provers # {}
    /\ InputsCapacity \in Nat \ {0} /\ TracesCapacity \in Nat \ {0}
    /\ ReduceBatchSize \in Nat \ {0, 1}
    /\ FirstLayerBatchSize \in Nat \ {0}

VARIABLES
    instance,       \* the proofs to compress
    feeder,         \* the first layer input the feeder sends next
    input_turn, record_turn, proofs_turn,   \* the three TurnBasedSync objects
    inputs,         \* channel of inputs [index, height, proofs, complete, passthrough]
    tracer, tracing,    \* tracer[w] : pc, tracing[w] : its input
    traces,         \* channel of traced inputs
    prover, proving,    \* prover[p] : pc, proving[p] : its input
    proofs,         \* channel of proofs [index, height, lo, hi, complete]
    next,           \* pc of the thread that makes the inputs of the next layer
    count, batch, received, sending,    \* its variables
    main, result    \* the thread that joins the others, and what it returns

turnVars == <<input_turn, record_turn, proofs_turn>>
tracerVars == <<tracer, tracing>>
proverVars == <<prover, proving>>
nextVars == <<next, count, batch, received, sending>>
mainVars == <<main, result>>
vars == <<instance, feeder, turnVars, inputs, tracerVars, traces, proverVars, proofs, nextVars, mainVars>>
-----------------------------------------------------------------------------
\* Bug: nobody waits.
AnyTurn(turn, index) == TRUE

\* wait_for_turn(index) returns.
IsTurn(turn, index) == turn = index

DivCeil(n, d) == (n + d - 1) \div d

NumDeferred == instance[1]
NumShards == instance[2]
NumLeaves == NumDeferred + NumShards
NumDeferredInputs == DivCeil(NumDeferred, FirstLayerBatchSize)

\* Bug: the deferred proofs are forgotten.
CompleteWithoutDeferred == NumShards = 1

\* is_complete of the inputs of the first layer.
FirstLayerIsComplete == NumShards = 1 /\ NumDeferred = 0

\* The chunks of the deferred proofs (never complete), then those of the shard
\* proofs, all complete or all not.
GetFirstLayerInputs ==
    LET chunk(from, n, k, complete) ==
            [lo |-> from + (k - 1) * FirstLayerBatchSize + 1,
             hi |-> from + Min({k * FirstLayerBatchSize, n}),
             complete |-> complete]
    IN  [k \in 1..NumDeferredInputs |-> chunk(0, NumDeferred, k, FALSE)]
        \o [k \in 1..DivCeil(NumShards, FirstLayerBatchSize) |->
               chunk(NumDeferred, NumShards, k, FirstLayerIsComplete)]

NumFirstLayerInputs == Len(GetFirstLayerInputs)

\* expected_height: the loop that counts the layers above the first two.
LayersAbove[n \in Nat] ==
    IF n > ReduceBatchSize THEN 1 + LayersAbove[DivCeil(n, ReduceBatchSize)] ELSE 0

\* Bug: the first layer is not counted.
ExpectedHeightShort == LayersAbove[NumFirstLayerInputs]

ExpectedHeight ==
    (IF NumFirstLayerInputs = 1 THEN 0 ELSE 1) + LayersAbove[NumFirstLayerInputs]

\* expected_at_height: the number of proofs of each layer.
LayerSizes[n \in Nat] ==
    IF n > 1 THEN <<n>> \o LayerSizes[DivCeil(n, ReduceBatchSize)] ELSE <<n>>

ExpectedAtHeight(h) == LayerSizes[NumFirstLayerInputs][h + 1]

\* Bug: the channel of proofs is as small as the others.
OneProof == 1

\* The capacity of the channel of proofs.
ProofsCapacity == NumFirstLayerInputs * 2

NoInput == [index |-> 0, height |-> 0, proofs |-> <<>>, complete |-> FALSE, passthrough |-> FALSE]

Init ==
    /\ instance \in Instances
    /\ feeder = 1
    /\ input_turn = 1 /\ record_turn = 1 /\ proofs_turn = 1
    /\ inputs = <<>> /\ traces = <<>> /\ proofs = <<>>
    /\ tracer = [w \in Tracers |-> "recv"]
    /\ tracing = [w \in Tracers |-> NoInput]
    /\ prover = [p \in Provers |-> "recv"]
    /\ proving = [p \in Provers |-> NoInput]
    /\ next = IF ExpectedHeight = 0 THEN "exited" ELSE "recv"
    /\ count = NumFirstLayerInputs + 1
    /\ batch = <<>> /\ sending = <<>>
    /\ received = [h \in 0..(Len(LayerSizes[NumFirstLayerInputs]) - 1) |-> 0]
    /\ main = "join"
    /\ result = <<>>
-----------------------------------------------------------------------------
\* The feeder: wait for the turn, send one input of the first layer, advance.
\* Nobody else can send in this turn, so the three are one step.
Feed ==
    /\ feeder <= NumFirstLayerInputs
    /\ IsTurn(input_turn, feeder)
    /\ Len(inputs) < InputsCapacity
    /\ inputs' = Append(inputs, [index |-> feeder, height |-> 0, passthrough |-> FALSE,
                                 proofs |-> <<GetFirstLayerInputs[feeder]>>,
                                 complete |-> GetFirstLayerInputs[feeder].complete])
    /\ input_turn' = input_turn + 1
    /\ feeder' = feeder + 1
    /\ UNCHANGED <<instance, record_turn, proofs_turn, tracerVars, traces, proverVars, proofs,
                   nextVars, mainVars>>

\* A tracer takes an input; if it is not passed through, it runs the recursion
\* program and generates the traces.
RecvInput(w) ==
    /\ tracer[w] = "recv"
    /\ inputs # <<>>
    /\ tracing' = [tracing EXCEPT ![w] = Head(inputs)]
    /\ inputs' = Tail(inputs)
    /\ tracer' = [tracer EXCEPT ![w] = "send"]
    /\ UNCHANGED <<instance, feeder, turnVars, traces, proverVars, proofs, nextVars, mainVars>>

\* record_and_trace_sync.wait_for_turn(index), and send.
SendTraces(w) ==
    /\ tracer[w] = "send"
    /\ IsTurn(record_turn, tracing[w].index)
    /\ Len(traces) < TracesCapacity
    /\ traces' = Append(traces, tracing[w])
    /\ tracing' = [tracing EXCEPT ![w] = NoInput]
    /\ tracer' = [tracer EXCEPT ![w] = "advance"]
    /\ UNCHANGED <<instance, feeder, turnVars, inputs, proverVars, proofs, nextVars, mainVars>>

AdvanceRecordTurn(w) ==
    /\ tracer[w] = "advance"
    /\ record_turn' = record_turn + 1
    /\ tracer' = [tracer EXCEPT ![w] = "recv"]
    /\ UNCHANGED <<instance, feeder, input_turn, proofs_turn, inputs, tracing, traces, proverVars, proofs,
                   nextVars, mainVars>>

\* The senders of inputs are the feeder and the next layer thread.
InputsClosed(w) ==
    /\ tracer[w] = "recv"
    /\ inputs = <<>>
    /\ feeder > NumFirstLayerInputs
    /\ next = "exited"
    /\ tracer' = [tracer EXCEPT ![w] = "exited"]
    /\ UNCHANGED <<instance, feeder, turnVars, inputs, tracing, traces, proverVars, proofs,
                   nextVars, mainVars>>

\* A prover takes an input and proves it.
RecvTraces(p) ==
    /\ prover[p] = "recv"
    /\ traces # <<>>
    /\ proving' = [proving EXCEPT ![p] = Head(traces)]
    /\ traces' = Tail(traces)
    /\ prover' = [prover EXCEPT ![p] = "send"]
    /\ UNCHANGED <<instance, feeder, turnVars, inputs, tracerVars, proofs, nextVars, mainVars>>

\* Bug: only the first proof of the input is verified.
ProofOfFirst(in) ==
    [index |-> in.index, height |-> in.height,
     lo |-> in.proofs[1].lo, hi |-> in.proofs[1].hi,
     complete |-> IF in.passthrough THEN in.proofs[1].complete ELSE in.complete]

\* The proof of an input: of the leaves of its proofs, with the input's
\* is_complete.  A proof that is passed through stays as it is.
ProofOf(in) ==
    [index |-> in.index, height |-> in.height,
     lo |-> in.proofs[1].lo, hi |-> Last(in.proofs).hi,
     complete |-> IF in.passthrough THEN in.proofs[1].complete ELSE in.complete]

\* prover_sync.wait_for_turn(index), and send.
SendProof(p) ==
    /\ prover[p] = "send"
    /\ IsTurn(proofs_turn, proving[p].index)
    /\ Len(proofs) < ProofsCapacity
    /\ proofs' = Append(proofs, ProofOf(proving[p]))
    /\ proving' = [proving EXCEPT ![p] = NoInput]
    /\ prover' = [prover EXCEPT ![p] = "advance"]
    /\ UNCHANGED <<instance, feeder, turnVars, inputs, tracerVars, traces, nextVars, mainVars>>

AdvanceProofsTurn(p) ==
    /\ prover[p] = "advance"
    /\ proofs_turn' = proofs_turn + 1
    /\ prover' = [prover EXCEPT ![p] = "recv"]
    /\ UNCHANGED <<instance, feeder, input_turn, record_turn, inputs, tracerVars, traces, proving,
                   proofs, nextVars, mainVars>>

TracesClosed(p) ==
    /\ prover[p] = "recv"
    /\ traces = <<>>
    /\ \A w \in Tracers : tracer[w] = "exited"
    /\ prover' = [prover EXCEPT ![p] = "exited"]
    /\ UNCHANGED <<instance, feeder, turnVars, inputs, tracerVars, traces, proving, proofs,
                   nextVars, mainVars>>
-----------------------------------------------------------------------------
\* All proofs of the height of the batch have been received.
LayerComplete(b, r) ==
    LET h == b[1].height IN h \in DOMAIN r /\ r[h] = ExpectedAtHeight(h)

\* Bug: a full batch waits for one proof more.
ReadyLate(b, r) ==
    LET older == SelectSeq(b, LAMBDA q : q.height = b[1].height)
    IN  IF Len(older) < Len(b) THEN Len(older)
        ELSE IF Len(b) > ReduceBatchSize \/ LayerComplete(b, r) THEN Len(b)
        ELSE 0

\* How much of the batch to send on: the proofs of the older layer if there are
\* two, all if the batch is full or the layer is complete, else none.
Ready(b, r) ==
    LET older == SelectSeq(b, LAMBDA q : q.height = b[1].height)
    IN  IF Len(older) < Len(b) THEN Len(older)
        ELSE IF Len(b) >= ReduceBatchSize \/ LayerComplete(b, r) THEN Len(b)
        ELSE 0

\* The next layer thread receives a proof.  (The channel cannot be closed here:
\* the provers stop after the tracers, and the tracers after this thread.)
RecvProof ==
    /\ next = "recv"
    /\ proofs # <<>>
    /\ LET q == Head(proofs)
           r == [received EXCEPT ![q.height] = @ + 1]
           b == Append(batch, q)
           n == Ready(b, r)
       IN  /\ received' = r
           /\ sending' = SubSeq(b, 1, n)
           /\ batch' = SubSeq(b, n + 1, Len(b))
           /\ next' = IF n = 0 THEN "recv" ELSE "send"
    /\ proofs' = Tail(proofs)
    /\ UNCHANGED <<instance, feeder, turnVars, inputs, tracerVars, traces, proverVars, count, mainVars>>

\* send_batch: wait for the turn of this input, and send it.  One proof alone
\* is passed through.
SendBatch ==
    /\ next = "send"
    /\ IsTurn(input_turn, count)
    /\ Len(inputs) < InputsCapacity
    /\ LET height == sending[1].height + 1 IN
       inputs' = Append(inputs, [index |-> count, height |-> height,
                                 passthrough |-> Len(sending) = 1,
                                 proofs |-> [i \in DOMAIN sending |->
                                     [lo |-> sending[i].lo, hi |-> sending[i].hi,
                                      complete |-> sending[i].complete]],
                                 complete |-> height = ExpectedHeight])
    /\ next' = "advance"
    /\ UNCHANGED <<instance, feeder, turnVars, tracerVars, traces, proverVars, proofs, count, batch,
                   received, sending, mainVars>>

\* Bug: the thread goes on when it has sent the root.
AdvanceInputTurnForever ==
    /\ next = "advance"
    /\ input_turn' = input_turn + 1
    /\ count' = count + 1
    /\ next' = "recv"
    /\ sending' = <<>>
    /\ UNCHANGED <<instance, feeder, record_turn, proofs_turn, inputs, tracerVars, traces, proverVars,
                   proofs, batch, received, mainVars>>

\* The thread ends when what it has sent is the root.
AdvanceInputTurn ==
    /\ next = "advance"
    /\ input_turn' = input_turn + 1
    /\ count' = count + 1
    /\ next' = IF sending[1].height + 1 = ExpectedHeight THEN "exited" ELSE "recv"
    /\ sending' = <<>>
    /\ UNCHANGED <<instance, feeder, record_turn, proofs_turn, inputs, tracerVars, traces, proverVars,
                   proofs, batch, received, mainVars>>

\* Join the provers and the next layer thread, and receive the root.
JoinProvers ==
    /\ main = "join"
    /\ \A p \in Provers : prover[p] = "exited"
    /\ next = "exited"
    /\ proofs # <<>>
    /\ result' = <<Head(proofs)>>
    /\ proofs' = Tail(proofs)
    /\ main' = "returned"
    /\ UNCHANGED <<instance, feeder, turnVars, inputs, tracerVars, traces, proverVars, nextVars>>

Ended == main = "returned" /\ UNCHANGED vars

TracerStep(w) == RecvInput(w) \/ SendTraces(w) \/ AdvanceRecordTurn(w) \/ InputsClosed(w)

ProverStep(p) == RecvTraces(p) \/ SendProof(p) \/ AdvanceProofsTurn(p) \/ TracesClosed(p)

NextLayerStep == RecvProof \/ SendBatch \/ AdvanceInputTurn

Next ==
    \/ Feed
    \/ \E w \in Tracers : TracerStep(w)
    \/ \E p \in Provers : ProverStep(p)
    \/ NextLayerStep
    \/ JoinProvers
    \/ Ended

\* Every thread runs when it can.
Spec ==
    /\ Init /\ [][Next]_vars
    /\ WF_vars(Feed)
    /\ \A w \in Tracers : WF_vars(TracerStep(w))
    /\ \A p \in Provers : WF_vars(ProverStep(p))
    /\ WF_vars(NextLayerStep)
    /\ WF_vars(JoinProvers)
-----------------------------------------------------------------------------
LiveInputs ==
    ToSet(inputs) \union ToSet(traces)
    \union {in \in {tracing[w] : w \in Tracers} \union {proving[p] : p \in Provers} : in # NoInput}

LiveProofs ==
    ToSet(proofs) \union ToSet(batch) \union ToSet(result)
    \union (IF next = "send" THEN ToSet(sending) ELSE {})

InputOK(in) ==
    /\ in.index \in 0..(count + 1)
    /\ in.height \in 0..ExpectedHeight
    /\ Len(in.proofs) <= ReduceBatchSize
    /\ \A i \in DOMAIN in.proofs : in.proofs[i].lo \in 1..NumLeaves /\ in.proofs[i].hi \in 1..NumLeaves

TypeOK ==
    /\ instance \in Instances
    /\ feeder \in 1..(NumFirstLayerInputs + 1)
    /\ {input_turn, record_turn, proofs_turn} \subseteq 1..(count + 1)
    /\ Len(inputs) <= InputsCapacity /\ Len(traces) <= TracesCapacity /\ Len(proofs) <= ProofsCapacity
    /\ tracer \in [Tracers -> {"recv", "send", "advance", "exited"}]
    /\ prover \in [Provers -> {"recv", "send", "advance", "exited"}]
    /\ \A in \in LiveInputs : InputOK(in)
    /\ \A q \in LiveProofs : q.height \in 0..ExpectedHeight /\ q.lo \in 1..NumLeaves /\ q.hi \in 1..NumLeaves
    /\ next \in {"recv", "send", "advance", "exited"}
    /\ Len(batch) < ReduceBatchSize /\ Len(sending) <= ReduceBatchSize
    /\ \A h \in DOMAIN received : received[h] <= ExpectedAtHeight(h)
    /\ main \in {"join", "returned"}

\* The proofs of a sequence, and of a family of inputs, each with its place.
Placed(place, seq) == {<<place, i, [lo |-> seq[i].lo, hi |-> seq[i].hi]>> : i \in DOMAIN seq}

PlacedInputs(place, family) == UNION {Placed(<<place, x>>, family[x].proofs) : x \in DOMAIN family}

\* Every proof there is, wherever it is: not sent by the feeder yet, part of an
\* input that waits or is being traced or proved, or with the next layer thread.
AllProofs ==
    Placed(<<"feeder">>, SubSeq(GetFirstLayerInputs, feeder, NumFirstLayerInputs))
    \union PlacedInputs("inputs", inputs) \union PlacedInputs("tracing", tracing)
    \union PlacedInputs("traces", traces) \union PlacedInputs("proving", proving)
    \union Placed(<<"proofs">>, proofs) \union Placed(<<"batch">>, batch)
    \union Placed(<<"sending">>, IF next = "send" THEN sending ELSE <<>>)
    \union Placed(<<"result">>, result)

\* The leaves they cover, with multiplicity.
Trees ==
    CHOOSE bag \in {[t \in {q[3] : q \in all} |-> Cardinality({q \in all : q[3] = t})] :
                       all \in {AllProofs}} : TRUE

T == INSTANCE TreeReduction WITH MaxArity <- ReduceBatchSize, leaves <- NumLeaves, trees <- Trees

\* compress starts from proofs that cover each leaf once, and whatever the
\* tracers and provers do when, it only ever replaces two or more neighbouring
\* proofs by one proof of the same leaves: the channels, the batches and the
\* pass-through of a single proof lose none and use none twice.
Reduces == T!Spec

\* The proofs of one compress input follow each other, as the compress program
\* asserts of their public values.
InputsFollow ==
    \A in \in LiveInputs : \A i \in 1..(Len(in.proofs) - 1) : in.proofs[i].hi + 1 = in.proofs[i + 1].lo

\* Proofs reach the next layer thread one layer after the other, so that the
\* count of a layer (expected_at_height) tells when its last, partial batch has
\* to be sent on; and the root never comes back to the thread.
LayersInOrder ==
    /\ \A h \in DOMAIN received :
          h > 0 /\ received[h] > 0 => received[h - 1] = ExpectedAtHeight(h - 1)
    /\ \A q \in ToSet(batch \o sending) : q.height < ExpectedHeight

\* A proof that says it is complete covers every leaf.
CompleteIsWhole == \A q \in LiveProofs : q.complete => q.lo = 1 /\ q.hi = NumLeaves

\* compress returns one proof of all the leaves, and verify_compressed will
\* find it complete.
ResultWhole ==
    main = "returned" => /\ result[1].lo = 1 /\ result[1].hi = NumLeaves
                         /\ result[1].complete
                         /\ proofs = <<>>

\* compress returns, although its channels are bounded and form a cycle.
Terminates == <>(main = "returned")
=============================================================================
