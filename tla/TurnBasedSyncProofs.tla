------------------------- MODULE TurnBasedSyncProofs -------------------------
(***************************************************************************)
(* TurnBasedSync is correct for any number of threads and of turns.  The   *)
(* argument is Owned: the items between recv and advance_turn have         *)
(* distinct owners, so the one whose item equals current_turn is alone.    *)
(***************************************************************************)
EXTENDS TurnBasedSync, TLAPS

USE WorkersAssumption, NumTurnsAssumption, MaxSpuriousAssumption

\* The variables of TurnBasedSync keep their types: in particular neither the
\* turn nor the number of received items passes the number of items.
LEMMA TypeAndOwnedInit == Init => TypeOK /\ Owned
  BY DEF Init, TypeOK, Owned, Busy, InSection

\* Every step of a worker keeps TypeOK and Owned.
LEMMA StepKeepsOwned ==
    ASSUME NEW w \in Workers, TypeOK, Owned, Step(w) \/ SpuriousWakeup(w)
    PROVE  TypeOK' /\ Owned'
  <1> USE DEF TypeOK, Owned, Busy, InSection, Goto
  <1>1. CASE Recv(w)
    BY <1>1 DEF Recv
  <1>2. CASE LockInWait(w)
    BY <1>2 DEF LockInWait
  <1>3. CASE Sleep(w)
    BY <1>3 DEF Sleep
  <1>4. CASE TakeTurn(w)
    BY <1>4 DEF TakeTurn
  <1>5. CASE Awake(w)
    BY <1>5 DEF Awake
  <1>6. CASE LockInAdvance(w)
    BY <1>6 DEF LockInAdvance
  <1>7. CASE Advance(w)
    BY <1>7 DEF Advance, NotifyAll
  <1>8. CASE SpuriousWakeup(w)
    BY <1>8 DEF SpuriousWakeup
  <1>9. QED
    BY <1>1, <1>2, <1>3, <1>4, <1>5, <1>6, <1>7, <1>8 DEF Step

\* Owned and the types hold in every reachable state.
THEOREM OwnedInvariant == Spec => [](TypeOK /\ Owned)
  <1>1. TypeOK /\ Owned /\ [Next]_vars => TypeOK' /\ Owned'
    <2> SUFFICES ASSUME TypeOK, Owned, [Next]_vars
                 PROVE  TypeOK' /\ Owned'
      OBVIOUS
    <2>1. CASE \E w \in Workers : Step(w) \/ SpuriousWakeup(w)
      BY <2>1, StepKeepsOwned
    <2>2. CASE UNCHANGED vars
      BY <2>2 DEF vars, TypeOK, Owned, Busy, InSection
    <2>3. QED
      BY <2>1, <2>2 DEF Next, Terminated
  <1>2. QED
    BY TypeAndOwnedInit, <1>1, PTL DEF Spec

\* Between wait_for_turn and advance_turn there is never more than one thread,
\* and the turn stays with it.
THEOREM TurnExclusionHolds == Spec => []TurnExclusion
  <1>1. TypeOK /\ Owned => TurnExclusion
    BY DEF TypeOK, Owned, TurnExclusion, Busy, InSection
  <1>2. QED
    BY OwnedInvariant, <1>1, PTL

\* No thread sleeps in cv.wait through its own turn.
THEOREM NoLostWakeupHolds == Spec => []NoLostWakeup
  <1>1. TypeOK /\ Owned => NoLostWakeup
    <2> SUFFICES ASSUME TypeOK, Owned, NEW w \in sleeping
                 PROVE  index[w] > current_turn
      BY DEF NoLostWakeup
    <2>1. w \in Workers /\ index[w] \in Nat /\ current_turn \in Nat
      BY DEF TypeOK
    <2>2. Busy(w) /\ index[w] # current_turn
      BY DEF Owned, Busy
    <2>3. current_turn <= index[w]
      BY <2>1, <2>2 DEF Owned
    <2>4. QED
      BY <2>1, <2>2, <2>3
  <1>2. QED
    BY OwnedInvariant, <1>1, PTL

\* The state TurnOrder sees.
Has == {w \in Workers : Busy(w)}

Inside == {w \in Workers : InSection(w)}

\* Every step of a worker is a step of TurnOrder or leaves its variables alone:
\* recv takes the next item, the return of wait_for_turn enters the section of
\* the worker's own item, advance_turn leaves it.
LEMMA StepRefines ==
    ASSUME NEW w \in Workers, TypeOK, Owned, Step(w) \/ SpuriousWakeup(w)
    PROVE  Abstract!Next \/ UNCHANGED <<taken, index, Has, current_turn, Inside>>
  <1> USE DEF TypeOK, Busy, InSection, Goto, Has, Inside
  <1>1. CASE Recv(w)
    <2>1. w \notin Has /\ Has' = Has \union {w} /\ Inside' = Inside
      BY <1>1 DEF Recv
    <2>2. Abstract!Take(w)
      BY <1>1, <2>1 DEF Recv, Abstract!Take
    <2>3. QED
      BY <2>2 DEF Abstract!Next
  <1>2. CASE LockInWait(w) \/ Sleep(w) \/ Awake(w) \/ LockInAdvance(w) \/ SpuriousWakeup(w)
    <2>1. Has' = Has /\ Inside' = Inside
      BY <1>2 DEF LockInWait, Sleep, Awake, LockInAdvance, SpuriousWakeup
    <2>2. UNCHANGED <<taken, index, current_turn>>
      BY <1>2 DEF LockInWait, Sleep, Awake, LockInAdvance, SpuriousWakeup
    <2>3. QED
      BY <2>1, <2>2
  <1>3. CASE TakeTurn(w)
    <2>1. Inside = {}
      BY <1>3 DEF TakeTurn, Owned
    <2>2. Inside' = {w} /\ w \in Has /\ Has' = Has
      BY <1>3, <2>1 DEF TakeTurn
    <2>3. Abstract!Enter(w)
      BY <1>3, <2>1, <2>2 DEF TakeTurn, Abstract!Enter
    <2>4. QED
      BY <2>3 DEF Abstract!Next
  <1>4. CASE Advance(w)
    <2>1. Inside = {w}
      BY <1>4 DEF Advance, Owned
    <2>2. Inside' = {} /\ Has' = Has \ {w}
      BY <1>4, <2>1 DEF Advance
    <2>3. Abstract!Leave(w)
      BY <1>4, <2>1, <2>2 DEF Advance, Abstract!Leave
    <2>4. QED
      BY <2>3 DEF Abstract!Next
  <1>5. QED
    BY <1>1, <1>2, <1>3, <1>4 DEF Step

\* The mutex and the condition variable implement TurnOrder for any number of
\* threads and of items: wait_for_turn(i) lets the thread that received item i
\* through, after the sections of all the items before i and alone.
THEOREM OrderedHolds == Spec => Ordered
  <1>1. Init => Abstract!Init
    BY DEF Init, Abstract!Init, Busy, InSection
  <1>2. TypeOK /\ Owned /\ [Next]_vars => [Abstract!Next]_Abstract!vars
    <2> SUFFICES ASSUME TypeOK, Owned, [Next]_vars
                 PROVE  Abstract!Next
                        \/ UNCHANGED <<taken, index, Has, current_turn, Inside>>
      BY DEF Abstract!vars, Has, Inside
    <2>1. CASE \E w \in Workers : Step(w) \/ SpuriousWakeup(w)
      BY <2>1, StepRefines
    <2>2. CASE UNCHANGED vars
      BY <2>2 DEF vars, Has, Inside, Busy, InSection
    <2>3. QED
      BY <2>1, <2>2 DEF Next, Terminated
  <1>3. QED
    BY OwnedInvariant, <1>1, <1>2, PTL DEF Spec, Ordered, Abstract!Spec
=============================================================================
