---------------------------- MODULE TurnBasedSync ----------------------------
(***************************************************************************)
(* crates/core/machine/src/utils/concurrency.rs: the Mutex<usize> and the  *)
(* Condvar by which the worker threads of prove_core_stream and of         *)
(* SP1Prover::compress put their results back in order.  A worker takes    *)
(* the next item from a shared channel, and then calls                     *)
(*     wait_for_turn(index); <ordered section>; advance_turn().            *)
(* The mutex is explicit: that the test of the turn and going to sleep are *)
(* one step for the other threads is what keeps a wake-up from being lost. *)
(***************************************************************************)
EXTENDS Naturals

CONSTANTS Workers,      \* the threads
          NoWorker,     \* not a thread: the mutex is free
          NumTurns,     \* how many items the channel delivers
          MaxSpurious   \* bound on the Condvar's spurious wake-ups

ASSUME WorkersAssumption == Workers # {} /\ NoWorker \notin Workers
ASSUME NumTurnsAssumption == NumTurns \in Nat
ASSUME MaxSpuriousAssumption == MaxSpurious \in Nat

VARIABLES
    current_turn,       \* the value the mutex guards
    holder,             \* the thread that has the mutex, or NoWorker
    sleeping,           \* the threads blocked in cv.wait
    taken,              \* the items received from the channel so far
    index,              \* index[w] : the item worker w received last
    pc,                 \* where worker w is
    spurious            \* spurious wake-ups so far

vars == <<current_turn, holder, sleeping, taken, index, pc, spurious>>

Init ==
    /\ current_turn = 0
    /\ holder = NoWorker
    /\ sleeping = {}
    /\ taken = 0
    /\ index = [w \in Workers |-> 0]
    /\ pc = [w \in Workers |-> "recv"]
    /\ spurious = 0

Goto(w, from, to) ==
    /\ pc[w] = from
    /\ pc' = [pc EXCEPT ![w] = to]

\* Bug: two workers receive without the lock and get the same item.
RecvUnlocked(w) ==
    /\ Goto(w, "recv", "wait_lock")
    /\ taken < NumTurns
    /\ index' = [index EXCEPT ![w] = taken]
    /\ taken' \in {taken, taken + 1}
    /\ UNCHANGED <<current_turn, holder, sleeping, spurious>>

\* Bug: receiving after the channel has been closed.
RecvPastClose(w) ==
    /\ Goto(w, "recv", "wait_lock")
    /\ index' = [index EXCEPT ![w] = taken]
    /\ taken' = taken + 1
    /\ UNCHANGED <<current_turn, holder, sleeping, spurious>>

\* { checkpoints_rx.lock().unwrap().recv() }: items come out in order.
Recv(w) ==
    /\ Goto(w, "recv", "wait_lock")
    /\ taken < NumTurns
    /\ index' = [index EXCEPT ![w] = taken]
    /\ taken' = taken + 1
    /\ UNCHANGED <<current_turn, holder, sleeping, spurious>>

\* wait_for_turn: self.current_turn.lock(), also on the way out of cv.wait.
LockInWait(w) ==
    /\ Goto(w, "wait_lock", "test")
    /\ holder = NoWorker
    /\ holder' = w
    /\ UNCHANGED <<current_turn, sleeping, taken, index, spurious>>

\* wait_for_turn: the loop test fails; cv.wait unlocks and sleeps at once.
Sleep(w) ==
    /\ Goto(w, "test", "asleep")
    /\ current_turn # index[w]
    /\ holder' = NoWorker
    /\ sleeping' = sleeping \union {w}
    /\ UNCHANGED <<current_turn, taken, index, spurious>>

\* Bug: a mutex around the section in place of the turns: whoever comes first
\* enters alone, not the thread whose turn it is.
TakeAnyTurn(w) ==
    /\ Goto(w, "test", "inside")
    /\ \A v \in Workers : pc[v] \notin {"inside", "advance"}
    /\ holder' = NoWorker
    /\ UNCHANGED <<current_turn, sleeping, taken, index, spurious>>

\* wait_for_turn returns, dropping the guard.
TakeTurn(w) ==
    /\ Goto(w, "test", "inside")
    /\ current_turn = index[w]
    /\ holder' = NoWorker
    /\ UNCHANGED <<current_turn, sleeping, taken, index, spurious>>

\* Bug: `if` in place of `while`, the turn is not tested again.
AwakeWithoutRetest(w) ==
    /\ Goto(w, "asleep", "inside")
    /\ w \notin sleeping
    /\ UNCHANGED <<current_turn, holder, sleeping, taken, index, spurious>>

\* A notified sleeper leaves cv.wait and competes for the mutex again.
Awake(w) ==
    /\ Goto(w, "asleep", "wait_lock")
    /\ w \notin sleeping
    /\ UNCHANGED <<current_turn, holder, sleeping, taken, index, spurious>>

\* cv.wait may return without a notification.
SpuriousWakeup(w) ==
    /\ spurious < MaxSpurious
    /\ w \in sleeping
    /\ sleeping' = sleeping \ {w}
    /\ spurious' = spurious + 1
    /\ UNCHANGED <<current_turn, holder, taken, index, pc>>

\* advance_turn: lock.
LockInAdvance(w) ==
    /\ Goto(w, "inside", "advance")
    /\ holder = NoWorker
    /\ holder' = w
    /\ UNCHANGED <<current_turn, sleeping, taken, index, spurious>>

\* Bug: notify_one.
NotifyOne ==
    IF sleeping = {} THEN UNCHANGED sleeping
    ELSE \E w \in sleeping : sleeping' = sleeping \ {w}

\* Bug: no notification at all.
NotifyNobody == UNCHANGED sleeping

\* self.cv.notify_all()
NotifyAll == sleeping' = {}

\* advance_turn: *turn += 1; cv.notify_all(); the guard is dropped on return.
\* Then the worker's loop comes round to recv.
Advance(w) ==
    /\ Goto(w, "advance", "recv")
    /\ current_turn' = current_turn + 1
    /\ NotifyAll
    /\ holder' = NoWorker
    /\ UNCHANGED <<taken, index, spurious>>

Step(w) ==
    \/ Recv(w)
    \/ LockInWait(w)
    \/ Sleep(w)
    \/ TakeTurn(w)
    \/ Awake(w)
    \/ LockInAdvance(w)
    \/ Advance(w)

Finished == current_turn = NumTurns /\ \A w \in Workers : pc[w] = "recv"

\* The channel is closed: every worker breaks out of its loop.
Terminated == Finished /\ UNCHANGED vars

Next ==
    \/ \E w \in Workers : Step(w) \/ SpuriousWakeup(w)
    \/ Terminated

\* The operating system runs every thread that can run.  Nothing makes a
\* spurious wake-up happen, and the mutex is not assumed to be fair: every
\* thread needs it finitely often only.
Spec == Init /\ [][Next]_vars /\ \A w \in Workers : WF_vars(Step(w))

-----------------------------------------------------------------------------
TypeOK ==
    /\ current_turn \in 0..NumTurns
    /\ holder \in Workers \union {NoWorker}
    /\ sleeping \in SUBSET Workers
    /\ taken \in 0..NumTurns
    /\ index \in [Workers -> 0..NumTurns]
    /\ pc \in [Workers -> {"recv", "wait_lock", "test", "asleep", "inside", "advance"}]
    /\ spurious \in 0..MaxSpurious

InSection(w) == pc[w] \in {"inside", "advance"}

\* Between wait_for_turn and advance_turn there is at most one thread, and
\* the turn cannot have passed on while it is there.
TurnExclusion ==
    /\ \A v, w \in Workers : InSection(v) /\ InSection(w) => v = w
    /\ \A w \in Workers : InSection(w) => index[w] = current_turn

\* No lost wake-up: while a thread sleeps although it is its turn, somebody is
\* still going to notify it; with advance_turn as the only notifier this
\* means that nobody sleeps through its own turn.
NoLostWakeup == \A w \in sleeping : index[w] > current_turn

\* The inductive invariant behind the properties above: a worker between recv
\* and the end of advance_turn owns an item nobody else owns, and no turn is
\* ever ahead of an item that is still owned.
Busy(w) == pc[w] # "recv"

Owned ==
    /\ current_turn <= taken
    /\ \A w \in Workers : Busy(w) => current_turn <= index[w] /\ index[w] < taken
    /\ \A v, w \in Workers : Busy(v) /\ Busy(w) /\ index[v] = index[w] => v = w
    /\ \A w \in Workers : InSection(w) => index[w] = current_turn
    /\ \A w \in sleeping : pc[w] = "asleep" /\ index[w] # current_turn

\* TurnBasedSync implements TurnOrder: whoever leaves wait_for_turn(i) is the
\* thread that received item i, every item before i has been through its section,
\* and nobody else is inside.
Abstract == INSTANCE TurnOrder WITH
    item <- index,
    has <- {w \in Workers : Busy(w)},
    finished <- current_turn,
    inside <- {w \in Workers : InSection(w)}

Ordered == Abstract!Spec

\* Every item gets its turn: the pipeline is never left waiting on itself.
EveryTurnTaken == <>(current_turn = NumTurns)
=============================================================================
