------------------------------- MODULE PkCache -------------------------------
(***************************************************************************)
(* crates/prover/src/lib.rs: the recursion programs of one compress call   *)
(* and the keys its provers set up for them.  Programs are shared pointers *)
(* (Arc): lift programs are kept in an LRU cache, join programs in a map   *)
(* made at start-up, deferred programs (and join programs whose shape is   *)
(* not in the map) are compiled for each input.  Every prover caches the   *)
(* keys under the address of the program, without keeping the program.     *)
(***************************************************************************)
EXTENDS Naturals, Sequences, SequencesExt, FiniteSets

CONSTANTS
    LiftShapes,         \* shapes of core inputs
    JoinShapes,         \* shapes in join_programs_map
    OtherShapes,        \* shapes of deferred inputs, and joins not in the map
    Addresses,          \* where the allocator can put a program
    Provers,
    CacheSize,          \* core_cache_size
    MaxInputs,          \* how many inputs are compressed
    MaxQueue            \* programs between the tracers and the provers

ASSUME PkCacheAssumption ==
    /\ "free" \notin LiftShapes \union JoinShapes \union OtherShapes
    /\ CacheSize \in Nat \ {0} /\ MaxQueue \in Nat \ {0} /\ MaxInputs \in Nat

Free == "free"
Shapes == LiftShapes \union JoinShapes \union OtherShapes

VARIABLES
    heap,       \* heap[a] : the program at address a, or Free
    dropped,    \* history: <<a, s>> for every program s dropped at address a
    lift_lru,   \* lift_programs_lru: addresses, most recently used first
    join_map,   \* join_map[s] : the address of the join program of shape s
    queue,      \* traced inputs: [shape, addr], addr pointing to the program
    inputs,     \* inputs so far
    proving,    \* proving[p] : the input prover p has, a set of at most one
    pk_cache,   \* pk_cache[p][a] : the program whose keys are cached under a, or Free
    pk          \* pk[p] : the program whose keys prover p proves with

vars == <<heap, dropped, lift_lru, join_map, queue, inputs, proving, pk_cache, pk>>

\* SP1Prover::uninitialized makes the join programs.
Init ==
    /\ join_map \in {f \in [JoinShapes -> Addresses] : \A s, t \in JoinShapes : f[s] = f[t] => s = t}
    /\ heap = [a \in Addresses |->
                 IF \E s \in JoinShapes : join_map[s] = a
                 THEN CHOOSE s \in JoinShapes : join_map[s] = a ELSE Free]
    /\ dropped = {}
    /\ lift_lru = <<>>
    /\ queue = <<>>
    /\ inputs = 0
    /\ proving = [p \in Provers |-> {}]
    /\ pk_cache = [p \in Provers |-> [a \in Addresses |-> Free]]
    /\ pk = [p \in Provers |-> Free]

\* Bug: the inputs in the channel point to their programs weakly.
KeptByCaches(a, lru, q, proven) ==
    \/ a \in ToSet(lru)
    \/ \E s \in JoinShapes : join_map[s] = a
    \/ \E p \in Provers : \E x \in proven[p] : x.addr = a

\* Bug: join programs are kept only while they are in use.
KeptByUse(a, lru, q, proven) ==
    \/ a \in ToSet(lru)
    \/ \E i \in DOMAIN q : q[i].addr = a
    \/ \E p \in Provers : \E x \in proven[p] : x.addr = a

\* The program at a is kept as long as some Arc points to it: in a cache of
\* programs, with a traced input, or with a prover.  The caches of keys have none.
Kept(a, lru, q, proven) ==
    \/ a \in ToSet(lru)
    \/ \E i \in DOMAIN q : q[i].addr = a
    \/ \E s \in JoinShapes : join_map[s] = a
    \/ \E p \in Provers : \E x \in proven[p] : x.addr = a

\* Drop what is not kept of the programs on the heap h.
Drop(h, lru, q, proven) ==
    /\ heap' = [a \in Addresses |-> IF Kept(a, lru, q, proven) THEN h[a] ELSE Free]
    /\ dropped' = dropped \union
          {<<a, h[a]>> : a \in {b \in Addresses : h[b] # Free /\ ~ Kept(b, lru, q, proven)}}

\* Where Arc::new can put a program: the allocator reuses what has been freed.
Available == {a \in Addresses : heap[a] = Free}

\* The program of shape s, at address a, goes to the provers with its input.
Enqueue(s, a, h, lru) ==
    /\ inputs < MaxInputs
    /\ Len(queue) < MaxQueue
    /\ inputs' = inputs + 1
    /\ queue' = Append(queue, [shape |-> s, addr |-> a])
    /\ lift_lru' = lru
    /\ Drop(h, lru, queue', proving)
    /\ UNCHANGED <<join_map, proving, pk_cache, pk>>

\* Bug: nothing drops out.
TouchedUnbounded(a) == <<a>> \o SelectSeq(lift_lru, LAMBDA b : b # a)

\* The cache after a hit or an insertion of a: the oldest entry drops out.
Touched(a) ==
    LET lru == <<a>> \o SelectSeq(lift_lru, LAMBDA b : b # a)
    IN  SubSeq(lru, 1, Min({Len(lru), CacheSize}))

\* recursion_program(input): get_or_insert.
RecursionProgram(s) ==
    LET hits == {a \in Addresses : a \in ToSet(lift_lru) /\ heap[a] = s}
    IN  \/ \E a \in hits : Enqueue(s, a, heap, Touched(a))
        \/ /\ hits = {}
           /\ \E a \in Available : Enqueue(s, a, [heap EXCEPT ![a] = s], Touched(a))

\* compress_program(input), for a shape in the map.
CompressProgram(s) == Enqueue(s, join_map[s], heap, lift_lru)

\* deferred_program(input), and compress_program for other shapes: Arc::new.
FreshProgram(s) == \E a \in Available : Enqueue(s, a, [heap EXCEPT ![a] = s], lift_lru)

\* Bug: a prover that has set up any key takes it for the program's.
AnyKey(p, a) == IF \E b \in Addresses : pk_cache[p][b] # Free
                THEN CHOOSE s \in Shapes : \E b \in Addresses : pk_cache[p][b] = s
                ELSE heap[a]

\* The keys prover p uses for the program at address a: the cached ones, or
\* those of a setup.
KeyFor(p, a) == IF pk_cache[p][a] = Free THEN heap[a] ELSE pk_cache[p][a]

\* A prover takes an input, and looks the keys of its program up or sets them up.
StartProof(p) ==
    /\ proving[p] = {}
    /\ queue # <<>>
    /\ LET a == Head(queue).addr IN
       /\ proving' = [proving EXCEPT ![p] = {Head(queue)}]
       /\ pk' = [pk EXCEPT ![p] = KeyFor(p, a)]
       /\ pk_cache' = [pk_cache EXCEPT ![p][a] = KeyFor(p, a)]
    /\ queue' = Tail(queue)
    /\ UNCHANGED <<heap, dropped, lift_lru, join_map, inputs>>

\* The proof is sent; the program and the record that points to it are dropped.
EndProof(p) ==
    /\ proving[p] # {}
    /\ proving' = [proving EXCEPT ![p] = {}]
    /\ pk' = [pk EXCEPT ![p] = Free]
    /\ Drop(heap, lift_lru, queue, proving')
    /\ UNCHANGED <<lift_lru, join_map, queue, inputs, pk_cache>>

Next ==
    \/ \E s \in LiftShapes : RecursionProgram(s)
    \/ \E s \in JoinShapes : CompressProgram(s)
    \/ \E s \in OtherShapes : FreshProgram(s)
    \/ \E p \in Provers : StartProof(p) \/ EndProof(p)

Spec == Init /\ [][Next]_vars
-----------------------------------------------------------------------------
\* The LRU cache has one program per shape and at most CacheSize of them.
TypeOK ==
    /\ heap \in [Addresses -> Shapes \union {Free}]
    /\ dropped \subseteq Addresses \X Shapes
    /\ \A a \in ToSet(lift_lru) : heap[a] \in LiftShapes
    /\ \A i, j \in DOMAIN lift_lru : heap[lift_lru[i]] = heap[lift_lru[j]] => i = j
    /\ Len(lift_lru) <= CacheSize
    /\ \A p \in Provers : Cardinality(proving[p]) <= 1
    /\ pk \in [Provers -> Shapes \union {Free}]

\* An input keeps its program from the tracer to the end of its proof: whatever
\* the LRU cache evicts and the allocator reuses meanwhile, the address that
\* came with the input has the program of the input's shape.
InputsKeepProgram ==
    /\ \A i \in DOMAIN queue : heap[queue[i].addr] = queue[i].shape
    /\ \A p \in Provers : \A x \in proving[p] : heap[x.addr] = x.shape

\* "Programs with the same shape share the same Arc, so pointer equality is
\* correct": a prover proves a program with that program's keys.
KeysMatch == \A p \in Provers : \A x \in proving[p] : pk[p] = x.shape

\* The only way to the wrong keys is an address handed out again: keys that are
\* not those of the program belong to one that was dropped at its address.
StaleKeysDropped ==
    \A p \in Provers : \A x \in proving[p] : pk[p] # x.shape => <<x.addr, pk[p]>> \in dropped

\* join_programs_map holds its programs as long as there are provers, so the
\* compress proofs of shapes in the map are always made with their own keys.
JoinKeysMatch ==
    \A p \in Provers : \A x \in proving[p] :
        (\E s \in JoinShapes : x.addr = join_map[s]) => pk[p] = x.shape
=============================================================================
