------------------------------ MODULE TurnOrder ------------------------------
(***************************************************************************)
(* What TurnBasedSync promises to the proving pipelines.  The items 0, 1,  *)
(* 2, ... are handed out in order, each to one thread; the thread that has *)
(* item i runs the ordered section of item i; and the sections run one at  *)
(* a time, that of item i + 1 after that of item i, whatever thread got    *)
(* which item.                                                             *)
(***************************************************************************)
EXTENDS Naturals

CONSTANTS Workers,      \* the threads
          NumTurns      \* how many items there are

VARIABLES taken,        \* number of items handed out
          item,         \* item[w] : the item w got last
          has,          \* the threads that have an item to work on
          finished,     \* number of ordered sections that have been left
          inside        \* the threads inside an ordered section

vars == <<taken, item, has, finished, inside>>

Init ==
    /\ taken = 0
    /\ item = [w \in Workers |-> 0]
    /\ has = {}
    /\ finished = 0
    /\ inside = {}

\* A thread without work gets the next item.
Take(w) ==
    /\ w \notin has
    /\ taken < NumTurns
    /\ taken' = taken + 1
    /\ item' = [item EXCEPT ![w] = taken]
    /\ has' = has \union {w}
    /\ UNCHANGED <<finished, inside>>

\* The thread that has the first item not finished enters its section.
Enter(w) ==
    /\ w \in has
    /\ item[w] = finished
    /\ inside = {}
    /\ inside' = {w}
    /\ UNCHANGED <<taken, item, has, finished>>

\* The thread inside is done with its item and hands the turn on.
Leave(w) ==
    /\ inside = {w}
    /\ inside' = {}
    /\ has' = has \ {w}
    /\ finished' = finished + 1
    /\ UNCHANGED <<taken, item>>

Next == \E w \in Workers : Take(w) \/ Enter(w) \/ Leave(w)

Spec == Init /\ [][Next]_vars
=============================================================================
