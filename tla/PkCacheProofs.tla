---------------------------- MODULE PkCacheProofs ----------------------------
(***************************************************************************)
(* What the caches of programs and of keys guarantee over an allocator     *)
(* that reuses addresses, for any number of provers, shapes and addresses  *)
(* and any size of the LRU cache.  The inductive invariant is Pointers: an *)
(* Arc that is still held keeps its program on the heap, and a cached key  *)
(* is that of the program at its address or of one dropped there.          *)
(***************************************************************************)
EXTENDS PkCache, TLAPS

USE PkCacheAssumption DEF Free, Shapes

Programs == [shape : Shapes, addr : Addresses]

Types ==
    /\ heap \in [Addresses -> Shapes \union {Free}]
    /\ join_map \in [JoinShapes -> Addresses]
    /\ queue \in Seq(Programs)
    /\ proving \in [Provers -> SUBSET Programs]
    /\ pk \in [Provers -> Shapes \union {Free}]
    /\ pk_cache \in [Provers -> [Addresses -> Shapes \union {Free}]]

\* A key cached for address a, or used for the program there, is explained by
\* the program s at a or by one that was dropped at a.
Explained(k, a, s) == k = s \/ <<a, k>> \in dropped

Pointers ==
    /\ Types
    /\ InputsKeepProgram
    /\ \A s \in JoinShapes : heap[join_map[s]] = s
    /\ \A s \in JoinShapes, k \in Shapes : <<join_map[s], k>> \notin dropped
    /\ \A p \in Provers, a \in Addresses :
          pk_cache[p][a] # Free => Explained(pk_cache[p][a], a, heap[a])
    /\ \A p \in Provers : \A x \in proving[p] :
          pk[p] \in Shapes /\ Explained(pk[p], x.addr, x.shape)

\* SP1Prover::uninitialized leaves no pointer dangling and no key cached.
LEMMA PointersInit == Init => Pointers
  <1> SUFFICES ASSUME Init PROVE Pointers
    OBVIOUS
  <1>1. join_map \in [JoinShapes -> Addresses]
        /\ \A s \in JoinShapes : heap[join_map[s]] = s
    BY DEF Init
  <1>2. heap \in [Addresses -> Shapes \union {Free}]
    BY DEF Init
  <1>3. Types
    BY <1>1, <1>2 DEF Init, Types
  <1>4. InputsKeepProgram
    BY DEF Init, InputsKeepProgram
  <1>5. QED
    BY <1>1, <1>3, <1>4 DEF Init, Pointers

\* What Drop does to the heap and to the history of dropped programs: it keeps
\* what Kept names, and whatever goes is recorded.
LEMMA DropKeeps ==
    ASSUME NEW h \in [Addresses -> Shapes \union {Free}], NEW lru, NEW q, NEW proven,
           Drop(h, lru, q, proven)
    PROVE  /\ heap' \in [Addresses -> Shapes \union {Free}]
           /\ \A a \in Addresses : Kept(a, lru, q, proven) => heap'[a] = h[a]
           /\ \A a \in Addresses : h[a] # Free => heap'[a] = h[a] \/ <<a, h[a]>> \in dropped'
           /\ \A a \in Addresses, k \in Shapes :
                 <<a, k>> \in dropped' => <<a, k>> \in dropped \/ ~ Kept(a, lru, q, proven)
           /\ dropped \subseteq dropped'
  <1>1. heap' = [a \in Addresses |-> IF Kept(a, lru, q, proven) THEN h[a] ELSE Free]
    BY DEF Drop
  <1>2. dropped' = dropped \union
          {<<a, h[a]>> : a \in {b \in Addresses : h[b] # Free /\ ~ Kept(b, lru, q, proven)}}
    BY DEF Drop
  <1>3. /\ heap' \in [Addresses -> Shapes \union {Free}]
        /\ \A a \in Addresses : Kept(a, lru, q, proven) => heap'[a] = h[a]
    BY <1>1
  <1>4. \A a \in Addresses : h[a] # Free => heap'[a] = h[a] \/ <<a, h[a]>> \in dropped'
    BY <1>1, <1>2
  <1>5. \A a \in Addresses, k \in Shapes :
            <<a, k>> \in dropped' => <<a, k>> \in dropped \/ ~ Kept(a, lru, q, proven)
    BY <1>2
  <1>6. QED
    BY <1>2, <1>3, <1>4, <1>5

\* Dropping programs keeps the invariant, if the new pointers (q, proven) are
\* right about the heap h, and h has the programs of the old one: those it has
\* beside them are at addresses that were free.
LEMMA DropKeepsPointers ==
    ASSUME Pointers,
           NEW h \in [Addresses -> Shapes \union {Free}], NEW lru,
           \A a \in Addresses : heap[a] # Free => h[a] = heap[a],
           queue' \in Seq(Programs), proving' \in [Provers -> SUBSET Programs],
           \A i \in DOMAIN queue' : h[queue'[i].addr] = queue'[i].shape,
           \A p \in Provers : \A x \in proving'[p] : h[x.addr] = x.shape,
           \A p \in Provers : \A x \in proving'[p] : x \in proving[p] /\ pk'[p] = pk[p],
           pk' \in [Provers -> Shapes \union {Free}],
           UNCHANGED <<join_map, pk_cache>>,
           Drop(h, lru, queue', proving')
    PROVE  Pointers'
  <1>1. PICK q, proven : q = queue' /\ proven = proving'
    OBVIOUS
  <1>2. Drop(h, lru, q, proven)
    BY <1>1
  <1>3. /\ heap' \in [Addresses -> Shapes \union {Free}]
        /\ \A a \in Addresses : Kept(a, lru, q, proven) => heap'[a] = h[a]
        /\ \A a \in Addresses : h[a] # Free => heap'[a] = h[a] \/ <<a, h[a]>> \in dropped'
        /\ \A a \in Addresses, k \in Shapes :
              <<a, k>> \in dropped' => <<a, k>> \in dropped \/ ~ Kept(a, lru, q, proven)
        /\ dropped \subseteq dropped'
    BY <1>2, DropKeeps
  <1>4. /\ \A i \in DOMAIN q : q[i].addr \in Addresses /\ Kept(q[i].addr, lru, q, proven)
        /\ \A p \in Provers : \A x \in proven[p] :
              x.addr \in Addresses /\ Kept(x.addr, lru, q, proven)
        /\ \A s \in JoinShapes :
              join_map[s] \in Addresses /\ Kept(join_map[s], lru, q, proven)
    <2>1. q \in Seq(Programs) /\ proven \in [Provers -> SUBSET Programs]
      BY <1>1
    <2>2. \A x \in Programs : x.addr \in Addresses
      BY DEF Programs
    <2>3. \A i \in DOMAIN q : q[i] \in Programs
      BY <2>1
    <2>4. \A i \in DOMAIN q : q[i].addr \in Addresses /\ Kept(q[i].addr, lru, q, proven)
      BY <2>2, <2>3 DEF Kept
    <2>5. \A p \in Provers : \A x \in proven[p] :
              x.addr \in Addresses /\ Kept(x.addr, lru, q, proven)
      BY <2>1, <2>2 DEF Kept
    <2>6. \A s \in JoinShapes :
              join_map[s] \in Addresses /\ Kept(join_map[s], lru, q, proven)
      BY DEF Kept, Pointers, Types
    <2>7. QED
      BY <2>4, <2>5, <2>6
  <1>5. Types'
    BY <1>3 DEF Pointers, Types
  <1>6. InputsKeepProgram'
    BY <1>1, <1>3, <1>4 DEF InputsKeepProgram
  <1>7. \A s \in JoinShapes : heap'[join_map'[s]] = s
    <2> SUFFICES ASSUME NEW s \in JoinShapes PROVE heap'[join_map[s]] = s
      OBVIOUS
    <2>1. join_map[s] \in Addresses /\ heap[join_map[s]] = s /\ s # Free
      BY DEF Pointers, Types
    <2>2. QED
      BY <2>1, <1>3, <1>4
  <1>8. \A s \in JoinShapes, k \in Shapes : <<join_map'[s], k>> \notin dropped'
    BY <1>3, <1>4 DEF Pointers
  <1>9. \A p \in Provers, a \in Addresses :
          pk_cache'[p][a] # Free => Explained(pk_cache[p][a], a, heap[a])'
    <2> SUFFICES ASSUME NEW p \in Provers, NEW a \in Addresses, pk_cache[p][a] # Free
                 PROVE  pk_cache[p][a] = heap'[a] \/ <<a, pk_cache[p][a]>> \in dropped'
      BY DEF Explained
    <2>1. CASE pk_cache[p][a] = heap[a]
      BY <2>1, <1>3
    <2>2. CASE <<a, pk_cache[p][a]>> \in dropped
      BY <2>2, <1>3
    <2>3. QED
      BY <2>1, <2>2 DEF Pointers, Explained
  <1>10. \A p \in Provers : \A x \in proving'[p] :
           pk'[p] \in Shapes /\ Explained(pk[p], x.addr, x.shape)'
    BY <1>3 DEF Pointers, Explained
  <1>11. QED
    BY <1>5, <1>6, <1>7, <1>8, <1>9, <1>10 DEF Pointers

\* Handing a program to the provers keeps the invariant: it is on the heap, at
\* an address that had it already or was free.
LEMMA EnqueueKeeps ==
    ASSUME Pointers, NEW s \in Shapes, NEW a \in Addresses,
           NEW h \in [Addresses -> Shapes \union {Free}], NEW lru,
           h[a] = s, \A b \in Addresses : heap[b] # Free => h[b] = heap[b],
           Enqueue(s, a, h, lru)
    PROVE  Pointers'
  <1>1. /\ queue' = Append(queue, [shape |-> s, addr |-> a])
        /\ UNCHANGED <<join_map, proving, pk_cache, pk>>
        /\ Drop(h, lru, queue', proving)
    BY DEF Enqueue
  <1>2. [shape |-> s, addr |-> a] \in Programs
    BY DEF Programs
  <1>3. \A x \in Programs : x.addr \in Addresses /\ x.shape \in Shapes /\ x.shape # Free
    BY DEF Programs
  <1>4. /\ queue' \in Seq(Programs)
        /\ \A i \in DOMAIN queue' :
              \/ queue'[i] = [shape |-> s, addr |-> a]
              \/ i \in DOMAIN queue /\ queue'[i] = queue[i]
    BY <1>1, <1>2 DEF Pointers, Types
  <1>5. \A i \in DOMAIN queue' : h[queue'[i].addr] = queue'[i].shape
    <2> SUFFICES ASSUME NEW i \in DOMAIN queue' PROVE h[queue'[i].addr] = queue'[i].shape
      OBVIOUS
    <2>1. CASE queue'[i] = [shape |-> s, addr |-> a]
      BY <2>1
    <2>2. CASE i \in DOMAIN queue /\ queue'[i] = queue[i]
      <3>1. queue[i] \in Programs /\ heap[queue[i].addr] = queue[i].shape
        BY <2>2 DEF Pointers, Types, InputsKeepProgram
      <3>2. QED
        BY <2>2, <3>1, <1>3
    <2>3. QED
      BY <1>4, <2>1, <2>2
  <1>6. proving' \in [Provers -> SUBSET Programs] /\ pk' \in [Provers -> Shapes \union {Free}]
    BY <1>1 DEF Pointers, Types
  <1>7. \A p \in Provers : \A x \in proving'[p] :
            h[x.addr] = x.shape /\ x \in proving[p] /\ pk'[p] = pk[p]
    <2> SUFFICES ASSUME NEW p \in Provers, NEW x \in proving[p] PROVE h[x.addr] = x.shape
      BY <1>1
    <2>1. x \in Programs /\ heap[x.addr] = x.shape
      BY DEF Pointers, Types, InputsKeepProgram
    <2>2. QED
      BY <2>1, <1>3
  <1>8. Drop(h, lru, queue', proving')
    BY <1>1
  <1>9. QED
    BY <1>1, <1>4, <1>5, <1>6, <1>7, <1>8, DropKeepsPointers

\* Taking an input and looking up or setting up the keys of its program keeps
\* the invariant: keys found under its address are explained.
LEMMA StartProofKeeps ==
    ASSUME Pointers, NEW p \in Provers, StartProof(p)
    PROVE  Pointers'
  <1> DEFINE x == Head(queue)
             k == KeyFor(p, x.addr)
  <1>1. /\ x \in Programs /\ heap[x.addr] = x.shape
        /\ Tail(queue) \in Seq(Programs)
        /\ \A i \in DOMAIN Tail(queue) : i + 1 \in DOMAIN queue /\ Tail(queue)[i] = queue[i + 1]
    BY DEF StartProof, Pointers, Types, InputsKeepProgram
  <1>2. x.addr \in Addresses /\ x.shape \in Shapes /\ x.shape # Free
    BY <1>1 DEF Programs
  <1>3. /\ proving' = [proving EXCEPT ![p] = {x}]
        /\ pk' = [pk EXCEPT ![p] = k]
        /\ pk_cache' = [pk_cache EXCEPT ![p][x.addr] = k]
        /\ queue' = Tail(queue)
        /\ UNCHANGED <<heap, dropped, join_map>>
    BY DEF StartProof
  <1>4. k \in Shapes /\ Explained(k, x.addr, x.shape)
    <2>1. CASE pk_cache[p][x.addr] = Free
      BY <1>1, <1>2, <2>1 DEF KeyFor, Explained
    <2>2. CASE pk_cache[p][x.addr] # Free
      <3>1. k = pk_cache[p][x.addr]
        BY <2>2 DEF KeyFor
      <3>2. k \in Shapes
        BY <1>2, <2>2, <3>1 DEF Pointers, Types
      <3>3. Explained(k, x.addr, heap[x.addr])
        BY <1>2, <2>2, <3>1 DEF Pointers
      <3>4. QED
        BY <1>1, <3>2, <3>3
    <2>3. QED
      BY <2>1, <2>2
  <1> HIDE DEF x, k
  <1>5. Types'
    BY <1>1, <1>2, <1>3, <1>4 DEF Pointers, Types
  <1>6. InputsKeepProgram'
    BY <1>1, <1>3 DEF Pointers, Types, InputsKeepProgram
  <1>7. \A r \in Provers, a \in Addresses :
            pk_cache'[r][a] # Free => Explained(pk_cache[r][a], a, heap[a])'
    <2> SUFFICES ASSUME NEW r \in Provers, NEW a \in Addresses, pk_cache'[r][a] # Free
                 PROVE  pk_cache'[r][a] = heap[a] \/ <<a, pk_cache'[r][a]>> \in dropped
      BY <1>3 DEF Explained
    <2>1. CASE r = p /\ a = x.addr
      <3>1. pk_cache'[r][a] = k
        BY <1>3, <2>1 DEF Pointers, Types
      <3>2. QED
        BY <1>1, <1>4, <2>1, <3>1 DEF Explained
    <2>2. CASE ~ (r = p /\ a = x.addr)
      <3>1. pk_cache'[r][a] = pk_cache[r][a]
        BY <1>3, <2>2 DEF Pointers, Types
      <3>2. QED
        BY <3>1 DEF Pointers, Explained
    <2>3. QED
      BY <2>1, <2>2
  <1>8. \A r \in Provers : \A y \in proving'[r] :
            pk'[r] \in Shapes /\ Explained(pk[r], y.addr, y.shape)'
    <2> SUFFICES ASSUME NEW r \in Provers, NEW y \in proving'[r]
                 PROVE  pk'[r] \in Shapes
                        /\ (pk'[r] = y.shape \/ <<y.addr, pk'[r]>> \in dropped)
      BY <1>3 DEF Explained
    <2>1. CASE r = p
      <3>1. y = x /\ pk'[r] = k
        BY <1>3, <2>1 DEF Pointers, Types
      <3>2. QED
        BY <1>4, <3>1 DEF Explained
    <2>2. CASE r # p
      <3>1. y \in proving[r] /\ pk'[r] = pk[r]
        BY <1>3, <2>2 DEF Pointers, Types
      <3>2. QED
        BY <3>1 DEF Pointers, Explained
    <2>3. QED
      BY <2>1, <2>2
  <1>9. QED
    BY <1>3, <1>5, <1>6, <1>7, <1>8 DEF Pointers

\* The end of a proof keeps the invariant, also when it drops the program.
LEMMA EndProofKeeps ==
    ASSUME Pointers, NEW p \in Provers, EndProof(p)
    PROVE  Pointers'
  <1>1. /\ proving' = [proving EXCEPT ![p] = {}]
        /\ pk' = [pk EXCEPT ![p] = Free]
        /\ UNCHANGED <<join_map, queue, pk_cache>>
        /\ Drop(heap, lift_lru, queue, proving')
    BY DEF EndProof
  <1>2. PICK h, lru : h = heap /\ lru = lift_lru
    OBVIOUS
  <1>3. h \in [Addresses -> Shapes \union {Free}] /\ Drop(h, lru, queue', proving')
    BY <1>1, <1>2 DEF Pointers, Types
  <1>4. /\ queue' \in Seq(Programs) /\ proving' \in [Provers -> SUBSET Programs]
        /\ pk' \in [Provers -> Shapes \union {Free}]
    BY <1>1 DEF Pointers, Types
  <1>5. \A r \in Provers : \A x \in proving'[r] : x \in proving[r] /\ pk'[r] = pk[r]
    <2> SUFFICES ASSUME NEW r \in Provers, NEW x \in proving'[r]
                 PROVE  x \in proving[r] /\ pk'[r] = pk[r]
      OBVIOUS
    <2>1. r # p
      BY <1>1 DEF Pointers, Types
    <2>2. QED
      BY <1>1, <2>1 DEF Pointers, Types
  <1>6. /\ \A i \in DOMAIN queue' : h[queue'[i].addr] = queue'[i].shape
        /\ \A r \in Provers : \A x \in proving'[r] : h[x.addr] = x.shape
    <2>1. \A i \in DOMAIN queue' : h[queue'[i].addr] = queue'[i].shape
      <3>1. queue' = queue
        BY <1>1
      <3>2. QED
        BY <1>2, <3>1 DEF Pointers, InputsKeepProgram
    <2>2. \A r \in Provers : \A x \in proving'[r] : h[x.addr] = x.shape
      BY <1>2, <1>5 DEF Pointers, InputsKeepProgram
    <2>3. QED
      BY <2>1, <2>2
  <1>7. \A a \in Addresses : heap[a] # Free => h[a] = heap[a]
    BY <1>2
  <1>8. QED
    BY <1>1, <1>3, <1>4, <1>5, <1>6, <1>7, DropKeepsPointers, Zenon

\* Over any allocator that hands out free addresses, compress keeps its pointers
\* and its cached keys explained.
THEOREM PointersInvariant == Spec => []Pointers
  <1>1. Pointers /\ [Next]_vars => Pointers'
    <2> SUFFICES ASSUME Pointers, [Next]_vars PROVE Pointers'
      OBVIOUS
    <2>1. ASSUME NEW s \in Shapes, NEW a \in Available, NEW lru,
                 Enqueue(s, a, [heap EXCEPT ![a] = s], lru)
          PROVE  Pointers'
      <3>1. a \in Addresses /\ heap[a] = Free
        BY DEF Available
      <3>2. PICK h : h = [heap EXCEPT ![a] = s]
        BY Zenon
      <3>3. /\ h \in [Addresses -> Shapes \union {Free}]
            /\ h[a] = s
            /\ \A b \in Addresses : heap[b] # Free => h[b] = heap[b]
        BY <3>1, <3>2 DEF Pointers, Types
      <3>4. Enqueue(s, a, h, lru)
        BY <2>1, <3>2
      <3>5. QED
        BY <3>1, <3>3, <3>4, EnqueueKeeps
    <2>2. ASSUME NEW a \in Addresses, NEW s \in Shapes, heap[a] = s, NEW lru,
                 Enqueue(s, a, heap, lru)
          PROVE  Pointers'
      <3>1. PICK h : h = heap
        OBVIOUS
      <3>2. /\ h \in [Addresses -> Shapes \union {Free}]
            /\ h[a] = s
            /\ \A b \in Addresses : heap[b] # Free => h[b] = heap[b]
            /\ Enqueue(s, a, h, lru)
        BY <2>2, <3>1 DEF Pointers, Types
      <3>3. QED
        BY <3>2, EnqueueKeeps
    <2>3. ASSUME NEW s \in LiftShapes, RecursionProgram(s) PROVE Pointers'
      <3>1. CASE \E a \in Addresses : heap[a] = s /\ Enqueue(s, a, heap, Touched(a))
        BY <3>1, <2>2
      <3>2. CASE \E a \in Available : Enqueue(s, a, [heap EXCEPT ![a] = s], Touched(a))
        BY <3>2, <2>1
      <3>3. QED
        BY <2>3, <3>1, <3>2 DEF RecursionProgram
    <2>4. ASSUME NEW s \in JoinShapes, CompressProgram(s) PROVE Pointers'
      BY <2>4, <2>2 DEF CompressProgram, Pointers, Types
    <2>5. ASSUME NEW s \in OtherShapes, FreshProgram(s) PROVE Pointers'
      BY <2>5, <2>1 DEF FreshProgram
    <2>6. CASE UNCHANGED vars
      BY <2>6 DEF vars, Pointers, Types, InputsKeepProgram, Explained
    <2>7. QED
      BY <2>3, <2>4, <2>5, <2>6, StartProofKeeps, EndProofKeeps DEF Next
  <1>2. QED
    BY PointersInit, <1>1, PTL DEF Spec

\* An input has its program until it is proved, however the LRU cache evicts and
\* the allocator reuses addresses.
THEOREM InputsKeepProgramHolds == Spec => []InputsKeepProgram
  <1>1. Pointers => InputsKeepProgram
    BY DEF Pointers
  <1>2. QED
    BY PointersInvariant, <1>1, PTL

\* A prover with the wrong keys has those of a program dropped at the address.
THEOREM StaleKeysDroppedHolds == Spec => []StaleKeysDropped
  <1>1. Pointers => StaleKeysDropped
    BY DEF Pointers, Explained, StaleKeysDropped
  <1>2. QED
    BY PointersInvariant, <1>1, PTL

\* The programs of join_programs_map are always proved with their own keys.
THEOREM JoinKeysMatchHolds == Spec => []JoinKeysMatch
  <1>1. Pointers => JoinKeysMatch
    <2> SUFFICES ASSUME Pointers, NEW p \in Provers, NEW x \in proving[p],
                        NEW s \in JoinShapes, x.addr = join_map[s]
                 PROVE  pk[p] = x.shape
      BY DEF JoinKeysMatch
    <2>1. pk[p] \in Shapes /\ Explained(pk[p], x.addr, x.shape)
      BY DEF Pointers
    <2>2. <<x.addr, pk[p]>> \notin dropped
      BY <2>1 DEF Pointers
    <2>3. QED
      BY <2>1, <2>2 DEF Explained
  <1>2. QED
    BY PointersInvariant, <1>1, PTL
=============================================================================
