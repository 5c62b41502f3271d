----------------------------- MODULE MCScheduler -----------------------------
(***************************************************************************)
(* Scheduler shown to implement AbstractScheduler.  The abstract queue is  *)
(* read off the pointers: start at the head, follow nextInQueue count      *)
(* times.  A new task arrives at the moment its enqueue begins.            *)
(***************************************************************************)
EXTENDS Scheduler

Walk(m) ==
    LET at[i \in 1 .. m.q.count] ==
            IF i = 1 THEN m.q.head ELSE m.next[at[i - 1]]
    IN  at

Abs == INSTANCE AbstractScheduler WITH
    running   <- curtcb,
    ready     <- IF Sound THEN Walk(PendingReady) ELSE << >>,
    suspended <- {t \in Tasks : status[t] = "SUSP"},
    defined   <- Sound

(* The scheduler is a FIFO dispatcher over three disjoint places as long as *)
(* it is not driven into one of the three breaches.                         *)
ImplementsFIFO == Abs!Spec

=============================================================================
