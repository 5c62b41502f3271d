------------------------------ MODULE TaskQueue ------------------------------
(***************************************************************************)
(* The doubly linked task queues of kernel/muxx_taskqueues.c.  A queue is  *)
(* a header [head, tail, count] (h/queues.h) threaded through two fields   *)
(* of every task control block, nextInQueue and prevInQueue; both queues   *)
(* share those fields, so a task fits in one queue at a time.  Operators   *)
(* here are pure: they map a queue memory m = [q, next, prev] to the       *)
(* memory the C function leaves behind.                                    *)
(*                                                                         *)
(* NULL belongs to the domain of next and prev because the code does       *)
(* follow null pointers (qGetTask on an empty queue): NULL's fields are    *)
(* the words of low memory at the field offsets of a TCB at address 0.     *)
(***************************************************************************)
EXTENDS Integers

CONSTANTS
    MAX_TASKS,   \* slots of the task control table (h/CONFIG.s)
    NULL         \* the null task pointer

ASSUME TaskTableAssumption ==
    /\ MAX_TASKS \in Nat \ {0}
    /\ NULL \notin 0 .. MAX_TASKS - 1

Tasks == 0 .. MAX_TASKS - 1
Ptr   == Tasks \cup {NULL}

Queue  == [head : Ptr, tail : Ptr, count : Nat]
Field  == [Ptr -> Ptr]
QueueMem == [q : Queue, next : Field, prev : Field]

EmptyQueue == [head |-> NULL, tail |-> NULL, count |-> 0]

-----------------------------------------------------------------------------
(* Mutant of qAddTask: the new last task does not point back.               *)
qAddTask_NoBackLink(m, t) ==
    IF m.q.count # 0
    THEN [q    |-> [head |-> m.q.head, tail |-> t, count |-> m.q.count + 1],
          next |-> [m.next EXCEPT ![m.q.tail] = t, ![t] = NULL],
          prev |-> m.prev]
    ELSE [q    |-> [head |-> t, tail |-> t, count |-> 1],
          next |-> [m.next EXCEPT ![t] = NULL],
          prev |-> [m.prev EXCEPT ![t] = NULL]]

(* Mutant of qAddTask: a well formed insertion at the wrong end.            *)
qAddTask_AtHead(m, t) ==
    IF m.q.count # 0
    THEN [q    |-> [head |-> t, tail |-> m.q.tail, count |-> m.q.count + 1],
          next |-> [m.next EXCEPT ![t] = m.q.head],
          prev |-> [m.prev EXCEPT ![m.q.head] = t, ![t] = NULL]]
    ELSE [q    |-> [head |-> t, tail |-> t, count |-> 1],
          next |-> [m.next EXCEPT ![t] = NULL],
          prev |-> [m.prev EXCEPT ![t] = NULL]]

(* muxx_qAddTask called with interrupts off: append t.                      *)
qAddTask(m, t) ==
    IF m.q.count # 0
    THEN [q    |-> [head |-> m.q.head, tail |-> t, count |-> m.q.count + 1],
          next |-> [m.next EXCEPT ![m.q.tail] = t, ![t] = NULL],
          prev |-> [m.prev EXCEPT ![t] = m.q.tail]]
    ELSE [q    |-> [head |-> t, tail |-> t, count |-> 1],
          next |-> [m.next EXCEPT ![t] = NULL],
          prev |-> [m.prev EXCEPT ![t] = NULL]]

(* muxx_qAddTask called with interrupts on (creprc): one assignment at a    *)
(* time, in the order of the source.  A statement name says what the call   *)
(* executes next; "done" is the return.                                     *)
FirstStmt(m) == IF m.q.count # 0 THEN "link" ELSE "head"

NextStmt ==
    [link  |-> "back",  back   |-> "end",    end    |-> "count",
     count |-> "tail",  tail   |-> "done",
     head  |-> "tail0", tail0  |-> "count0", count0 |-> "back0",
     back0 |-> "end0",  end0   |-> "done"]

AddStmts == {"link", "back", "end", "count", "tail",
             "head", "tail0", "count0", "back0", "end0"}

(* The effect of one assignment of qAddTask(queue, t); last is the local    *)
(* variable that holds the tail read on entry.                              *)
AddStmt(s, m, t, last) ==
    [q    |-> [head  |-> IF s = "head" THEN t ELSE m.q.head,
               tail  |-> IF s \in {"tail", "tail0"} THEN t ELSE m.q.tail,
               count |-> IF s = "count" THEN m.q.count + 1
                         ELSE IF s = "count0" THEN 1 ELSE m.q.count],
     next |-> IF s = "link" THEN [m.next EXCEPT ![last] = t]
              ELSE IF s \in {"end", "end0"} THEN [m.next EXCEPT ![t] = NULL]
              ELSE m.next,
     prev |-> IF s = "back" THEN [m.prev EXCEPT ![t] = last]
              ELSE IF s = "back0" THEN [m.prev EXCEPT ![t] = NULL]
              ELSE m.prev]

(* What the call still has to do from statement s on, done at once.         *)
AddRest(s, m, t, last) ==
    IF s \in {"link", "back", "end", "count", "tail"}
    THEN [q    |-> [head  |-> m.q.head,
                    tail  |-> t,
                    count |-> IF s = "tail" THEN m.q.count ELSE m.q.count + 1],
          next |-> IF s = "link" THEN [m.next EXCEPT ![last] = t, ![t] = NULL]
                   ELSE IF s \in {"back", "end"} THEN [m.next EXCEPT ![t] = NULL]
                   ELSE m.next,
          prev |-> IF s \in {"link", "back"} THEN [m.prev EXCEPT ![t] = last]
                                             ELSE m.prev]
    ELSE [q    |-> [head  |-> IF s = "head" THEN t ELSE m.q.head,
                    tail  |-> IF s \in {"head", "tail0"} THEN t ELSE m.q.tail,
                    count |-> IF s \in {"back0", "end0"} THEN m.q.count ELSE 1],
          next |-> [m.next EXCEPT ![t] = NULL],
          prev |-> IF s = "end0" THEN m.prev ELSE [m.prev EXCEPT ![t] = NULL]]

-----------------------------------------------------------------------------
(* Mutant of qGetTask: a queue of two or more is taken from its tail.       *)
qGetTask_Tail(m) ==
    LET t == IF m.q.count > 0 THEN m.q.tail ELSE NULL
        l == m.prev[t]
    IN  [task |-> t,
         mem  |-> [q    |-> IF m.q.count > 1
                            THEN [head |-> m.q.head, tail |-> l, count |-> m.q.count - 1]
                            ELSE EmptyQueue,
                   next |-> IF m.q.count > 1 THEN [m.next EXCEPT ![l] = NULL] ELSE m.next,
                   prev |-> [m.prev EXCEPT ![t] = NULL]]]

(* muxx_qGetTask: unlink the head.  On an empty queue the result is NULL    *)
(* and the two final assignments go through the null pointer.               *)
qGetTask(m) ==
    LET t  == IF m.q.count > 0 THEN m.q.head ELSE NULL
        h  == m.next[t]
        q1 == IF m.q.count > 1
              THEN [head |-> h, tail |-> m.q.tail, count |-> m.q.count - 1]
              ELSE IF m.q.count = 1 THEN EmptyQueue ELSE m.q
        p1 == IF m.q.count > 1 THEN [m.prev EXCEPT ![h] = NULL] ELSE m.prev
    IN  [task |-> t,
         mem  |-> [q    |-> q1,
                   next |-> [m.next EXCEPT ![t] = NULL],
                   prev |-> [p1 EXCEPT ![t] = NULL]]]

-----------------------------------------------------------------------------
(* muxx_qRemoveTask.  The search loop starts at the head and follows        *)
(* nextInQueue until it stands on t or on NULL; Visits(m, t, x) says it     *)
(* stands on x at some point.  On a cyclic chain it may do neither and      *)
(* never end.                                                               *)
Visits(m, t, x) ==
    \A S \in SUBSET Ptr :
        (m.q.head \in S /\ \A y \in S \ {t, NULL} : m.next[y] \in S) => x \in S

SearchEnds(m, t) == m.q.count = 0 \/ Visits(m, t, t) \/ Visits(m, t, NULL)

(* The unlinking assignments.  For a task with a predecessor the first one  *)
(* stores the successor into the removed task's own prevInQueue, and the    *)
(* next one reads that field again (p1 is what it finds); the predecessor's *)
(* nextInQueue is never assigned.                                           *)
Unlink(m, t) ==
    LET p  == m.prev[t]
        n  == m.next[t]
        p1 == IF p # NULL THEN n ELSE NULL
    IN  [q    |-> [head  |-> IF p # NULL THEN m.q.head ELSE n,
                   tail  |-> IF n # NULL THEN m.q.tail ELSE p1,
                   count |-> m.q.count - 1],
         next |-> [m.next EXCEPT ![t] = NULL],
         prev |-> IF n # NULL THEN [m.prev EXCEPT ![n] = p1, ![t] = NULL]
                              ELSE [m.prev EXCEPT ![t] = NULL]]

qRemoveTask(m, t) ==
    IF m.q.count # 0 /\ Visits(m, t, t) THEN Unlink(m, t) ELSE m

-----------------------------------------------------------------------------
(* What a queue should look like: threaded through exactly the tasks of s.  *)

Injective(s) == \A i, j \in DOMAIN s : s[i] = s[j] => i = j

(* The candidate contents of a queue whose header claims n tasks.           *)
Contents(n) == [1 .. n -> Tasks]

Threads(m, s) ==
    /\ s \in Contents(m.q.count)
    /\ Injective(s)
    /\ m.q.count = 0 => m.q = EmptyQueue
    /\ m.q.count > 0 =>
         /\ m.q.head = s[1]           /\ m.prev[s[1]] = NULL
         /\ m.q.tail = s[m.q.count]   /\ m.next[s[m.q.count]] = NULL
    /\ \A i \in 1 .. m.q.count - 1 :
         /\ m.next[s[i]] = s[i + 1]
         /\ m.prev[s[i + 1]] = s[i]

Elems(s) == {s[i] : i \in DOMAIN s}

=============================================================================
