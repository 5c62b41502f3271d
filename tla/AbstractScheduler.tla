-------------------------- MODULE AbstractScheduler --------------------------
(***************************************************************************)
(* What the scheduler promises, without pointers: one running task, a FIFO *)
(* of tasks that wait for the processor, and a set of suspended tasks.     *)
(* A task is in at most one of the three places and never disappears.      *)
(*                                                                         *)
(* defined is FALSE once the implementation has been driven outside the    *)
(* conditions it supports; nothing is promised from then on.               *)
(***************************************************************************)
EXTENDS Integers, Sequences

CONSTANT Tasks

VARIABLES running, ready, suspended, defined

vars == <<running, ready, suspended, defined>>

Waiting == {ready[i] : i \in DOMAIN ready}

Init ==
    /\ running \in Tasks
    /\ ready = << >>
    /\ suspended = {}
    /\ defined = TRUE

(* The task at the front of the queue q gets the processor.                 *)
Dispatch(q) ==
    /\ q # << >>
    /\ running' = Head(q)
    /\ ready' = Tail(q)

(* The running task goes to the back of the queue.                          *)
Rotate ==
    /\ defined
    /\ Dispatch(Append(ready, running))
    /\ UNCHANGED <<suspended, defined>>

SuspendRunning ==
    /\ defined
    /\ Dispatch(ready)
    /\ suspended' = suspended \cup {running}
    /\ UNCHANGED defined

(* The running task suspends the one that would have run next.              *)
SuspendNextInLine ==
    /\ defined
    /\ ready # << >>
    /\ suspended' = suspended \cup {Head(ready)}
    /\ ready' = Tail(ready)
    /\ UNCHANGED <<running, defined>>

(* A task nobody knew queues up behind everybody else.                      *)
Arrive(t) ==
    /\ defined
    /\ t \notin Waiting \cup suspended \cup {running}
    /\ ready' = Append(ready, t)
    /\ UNCHANGED <<running, suspended, defined>>

Undefined == defined' = FALSE

Next ==
    \/ Rotate
    \/ SuspendRunning
    \/ SuspendNextInLine
    \/ \E t \in Tasks : Arrive(t)
    \/ Undefined

Spec == Init /\ [][Next]_vars

=============================================================================
