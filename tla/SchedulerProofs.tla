--------------------------- MODULE SchedulerProofs ---------------------------
(***************************************************************************)
(* The scheduler's invariants, for every size of the task table, every     *)
(* quantum and every set of handlers.  The first part is about the queue   *)
(* operations of muxx_taskqueues.c on a well formed queue.                 *)
(***************************************************************************)
EXTENDS MCScheduler, TLAPS, WellFoundedInduction, SequenceTheorems

(* Entering qAddTask with all its statements ahead is calling it at once.   *)
LEMMA AddRestFirst ==
    ASSUME NEW m \in QueueMem, NEW t \in Tasks
    PROVE  AddRest(FirstStmt(m), m, t, m.q.tail) = qAddTask(m, t)
  BY DEF AddRest, FirstStmt, qAddTask, QueueMem, Queue

(* Executing one statement leaves the outcome of the whole call unchanged.  *)
LEMMA AddRestStep ==
    ASSUME NEW m \in QueueMem, NEW t \in Tasks, NEW last \in Ptr,
           NEW s \in AddStmts
    PROVE  IF NextStmt[s] = "done"
           THEN AddStmt(s, m, t, last) = AddRest(s, m, t, last)
           ELSE /\ NextStmt[s] \in AddStmts
                /\ AddRest(NextStmt[s], AddStmt(s, m, t, last), t, last)
                     = AddRest(s, m, t, last)
  <1> USE DEF AddStmts, NextStmt, AddStmt, AddRest, QueueMem, Queue, Field
  <1>1. CASE s = "link"
    BY <1>1
  <1>2. CASE s = "back"
    BY <1>2
  <1>3. CASE s = "end"
    BY <1>3
  <1>4. CASE s = "count"
    BY <1>4
  <1>5. CASE s = "tail"
    BY <1>5
  <1>6. CASE s = "head"
    BY <1>6
  <1>7. CASE s = "tail0"
    BY <1>7
  <1>8. CASE s = "count0"
    BY <1>8
  <1>9. CASE s = "back0"
    BY <1>9
  <1>10. CASE s = "end0"
    BY <1>10
  <1> QED
    BY <1>1, <1>2, <1>3, <1>4, <1>5, <1>6, <1>7, <1>8, <1>9, <1>10

(* One statement of qAddTask keeps the types of the header and the links.   *)
LEMMA AddStmtType ==
    ASSUME NEW m \in QueueMem, NEW t \in Tasks, NEW last \in Ptr,
           NEW s \in AddStmts
    PROVE  AddStmt(s, m, t, last) \in QueueMem
  BY DEF AddStmts, AddStmt, QueueMem, Queue, Field, Ptr

(* So does the rest of the call.                                            *)
LEMMA AddRestType ==
    ASSUME NEW m \in QueueMem, NEW t \in Tasks, NEW last \in Ptr,
           NEW s \in AddStmts
    PROVE  AddRest(s, m, t, last) \in QueueMem
  BY DEF AddStmts, AddRest, QueueMem, Queue, Field, Ptr

(* A whole call of qAddTask keeps the types.                                *)
LEMMA AddType ==
    ASSUME NEW m \in QueueMem, NEW t \in Tasks
    PROVE  qAddTask(m, t) \in QueueMem
  BY DEF qAddTask, QueueMem, Queue, Field, Ptr

(* qGetTask keeps the types and returns a task or NULL.                     *)
LEMMA GetType ==
    ASSUME NEW m \in QueueMem
    PROVE  qGetTask(m).task \in Ptr /\ qGetTask(m).mem \in QueueMem
  BY DEF qGetTask, QueueMem, Queue, Field, Ptr, EmptyQueue

(* qRemoveTask keeps the types, found or not.                               *)
LEMMA RemoveType ==
    ASSUME NEW m \in QueueMem, NEW t \in Tasks
    PROVE  qRemoveTask(m, t) \in QueueMem
  BY DEF qRemoveTask, Unlink, QueueMem, Queue, Field, Ptr

-----------------------------------------------------------------------------
(* A nonempty set of indices has a largest element.                         *)
LEMMA LargestIndex ==
    ASSUME NEW n \in Nat, NEW T \in SUBSET (1 .. n), T # {}
    PROVE  \E i \in T : \A j \in T : j <= i
  <1> DEFINE U == {n - i : i \in T}
  <1>1. U \subseteq Nat /\ U # {}
    <2>1. \A i \in T : n - i \in Nat
      OBVIOUS
    <2>2. PICK i \in T : TRUE
      OBVIOUS
    <2>3. n - i \in U
      BY <2>2
    <2> QED
      BY <2>1, <2>3
  <1>2. PICK u \in U : \A v \in U : ~ (<<v, u>> \in OpToRel(<, Nat))
    BY <1>1, NatLessThanWellFounded, WFMin
  <1>3. \A v \in U : ~ (v < u)
    BY <1>1, <1>2 DEF OpToRel
  <1>4. PICK i \in T : u = n - i
    OBVIOUS
  <1>5. ASSUME NEW j \in T PROVE j <= i
    <2>1. n - j \in U
      OBVIOUS
    <2> QED
      BY <1>3, <1>4, <2>1
  <1> QED
    BY <1>5

(* A nonempty set of naturals has a smallest element.                       *)
LEMMA SmallestIndex ==
    ASSUME NEW T \in SUBSET Nat, T # {}
    PROVE  \E i \in T : \A j \in T : i <= j
  <1>1. PICK u \in T : \A v \in T : ~ (<<v, u>> \in OpToRel(<, Nat))
    BY NatLessThanWellFounded, WFMin
  <1>2. \A v \in T : ~ (v < u)
    BY <1>1 DEF OpToRel
  <1> QED
    BY <1>2

(* The contents of a queue of n tasks with one more at the end.             *)
LEMMA AppendContents ==
    ASSUME NEW n \in Nat, NEW s \in Contents(n), NEW t \in Tasks
    PROVE  Append(s, t) = [i \in 1 .. n + 1 |-> IF i <= n THEN s[i] ELSE t]
  <1>1. s \in Seq(Tasks)
    BY SeqDef DEF Contents
  <1>2. Len(s) = n
    BY <1>1, LenProperties DEF Contents
  <1>3. /\ Append(s, t) \in Seq(Tasks) /\ Len(Append(s, t)) = n + 1
        /\ \A i \in 1 .. n : Append(s, t)[i] = s[i]
        /\ Append(s, t)[n + 1] = t
    BY <1>1, <1>2, AppendProperties
  <1>4. Append(s, t) \in [1 .. n + 1 -> Tasks]
    BY <1>3, LenProperties
  <1>5. ASSUME NEW i \in 1 .. n + 1
        PROVE  Append(s, t)[i] = IF i <= n THEN s[i] ELSE t
    <2>1. CASE i \in 1 .. n /\ i <= n
      BY <1>3, <2>1
    <2>2. CASE i = n + 1 /\ ~ (i <= n)
      BY <1>3, <2>2
    <2>3. (i \in 1 .. n /\ i <= n) \/ (i = n + 1 /\ ~ (i <= n))
      OBVIOUS
    <2> QED
      BY <2>1, <2>2, <2>3
  <1> QED
    BY <1>4, <1>5

(* The contents of a nonempty queue without its head.                       *)
LEMMA TailContents ==
    ASSUME NEW n \in Nat, n > 0, NEW s \in Contents(n)
    PROVE  /\ Tail(s) = [i \in 1 .. n - 1 |-> s[i + 1]]
           /\ Head(s) = s[1]
           /\ s # << >>
  <1>1. s \in Seq(Tasks)
    BY SeqDef DEF Contents
  <1>2. Len(s) = n
    BY <1>1, LenProperties DEF Contents
  <1>3. s # << >>
    BY <1>1, <1>2, EmptySeq
  <1>4. /\ Head(s) = s[1] /\ Tail(s) \in Seq(Tasks) /\ Len(Tail(s)) = n - 1
        /\ \A i \in 1 .. n - 1 : Tail(s)[i] = s[i + 1]
    BY <1>1, <1>2, <1>3, HeadTailProperties
  <1>5. Tail(s) \in [1 .. n - 1 -> Tasks]
    BY <1>4, LenProperties
  <1> QED
    BY <1>3, <1>4, <1>5

(* Whether m is threaded through s depends on m's header and on the link    *)
(* fields of the tasks of s only.                                           *)
LEMMA ThreadsLocal ==
    ASSUME NEW m \in QueueMem, NEW s, Threads(m, s), NEW n, NEW p,
           \A x \in Elems(s) : n[x] = m.next[x] /\ p[x] = m.prev[x]
    PROVE  Threads([q |-> m.q, next |-> n, prev |-> p], s)
  <1>1. \A i \in 1 .. m.q.count : s[i] \in Elems(s)
    BY DEF Threads, Contents, Elems
  <1> QED
    BY <1>1 DEF Threads, QueueMem, Queue

(* The search of qRemoveTask ends on every well formed queue.               *)
LEMMA SearchEndsOnThreads ==
    ASSUME NEW m \in QueueMem, NEW s, Threads(m, s), NEW t \in Tasks
    PROVE  SearchEnds(m, t)
  <1>1. SUFFICES ASSUME m.q.count # 0, ~ Visits(m, t, t), ~ Visits(m, t, NULL)
                 PROVE  FALSE
    BY DEF SearchEnds
  <1>2. PICK S1 \in SUBSET Ptr :
          /\ m.q.head \in S1
          /\ \A y \in S1 \ {t, NULL} : m.next[y] \in S1
          /\ t \notin S1
    BY <1>1 DEF Visits
  <1>3. PICK S2 \in SUBSET Ptr :
          /\ m.q.head \in S2
          /\ \A y \in S2 \ {t, NULL} : m.next[y] \in S2
          /\ NULL \notin S2
    BY <1>1 DEF Visits
  <1> DEFINE S == S1 \cap S2
             I == {i \in 1 .. m.q.count : s[i] \in S}
  <1>4. m.q.head \in S /\ NULL \notin S /\ \A y \in S : m.next[y] \in S
    BY <1>2, <1>3
  <1>5. m.q.count \in Nat /\ I \in SUBSET (1 .. m.q.count) /\ 1 \in I
    BY <1>1, <1>4 DEF Threads, QueueMem, Queue
  <1>6. PICK i \in I : \A j \in I : j <= i
    BY <1>5, LargestIndex
  <1>7. m.next[s[i]] \in S
    BY <1>4, <1>6
  <1>8. CASE i = m.q.count
    BY <1>4, <1>5, <1>7, <1>8 DEF Threads
  <1>9. CASE i < m.q.count
    <2>1. i + 1 \in I
      BY <1>5, <1>7, <1>9 DEF Threads
    <2> QED
      BY <1>5, <1>6, <2>1
  <1> QED
    BY <1>5, <1>6, <1>8, <1>9

(* The search misses a task that is not in the queue, and nothing changes.  *)
LEMMA RemoveAbsent ==
    ASSUME NEW m \in QueueMem, NEW s, Threads(m, s), NEW t \in Tasks,
           t \notin Elems(s)
    PROVE  qRemoveTask(m, t) = m
  <1>1. SUFFICES ASSUME m.q.count # 0 PROVE ~ Visits(m, t, t)
    BY DEF qRemoveTask
  <1> DEFINE S == Elems(s) \cup {NULL}
  <1>2. t \notin S
    BY TaskTableAssumption DEF Tasks
  <1>3. S \in SUBSET Ptr
    BY DEF Elems, Threads, Contents, Ptr
  <1>4. m.q.head \in S
    BY <1>1 DEF Elems, Threads, Contents, QueueMem, Queue
  <1>5. ASSUME NEW y \in S \ {t, NULL} PROVE m.next[y] \in S
    <2>1. PICK i \in 1 .. m.q.count : y = s[i]
      BY DEF Elems, Threads, Contents
    <2>2. CASE i = m.q.count
      BY <2>1, <2>2 DEF Threads, QueueMem, Queue
    <2>3. CASE i < m.q.count
      <3>1. m.next[y] = s[i + 1] /\ i + 1 \in 1 .. m.q.count
        BY <2>1, <2>3 DEF Threads, QueueMem, Queue
      <3> QED
        BY <3>1 DEF Elems, Threads, Contents
    <2> QED
      BY <2>1, <2>2, <2>3 DEF QueueMem, Queue
  <1> QED
    BY <1>2, <1>3, <1>4, <1>5 DEF Visits

(* Appending a task that is not in the queue.                               *)
LEMMA AddThreads ==
    ASSUME NEW m \in QueueMem, NEW s, Threads(m, s), NEW t \in Tasks,
           t \notin Elems(s)
    PROVE  /\ Threads(qAddTask(m, t), Append(s, t))
           /\ Elems(Append(s, t)) = Elems(s) \cup {t}
           /\ \A x \in Tasks \ (Elems(s) \cup {t}) :
                /\ qAddTask(m, t).next[x] = m.next[x]
                /\ qAddTask(m, t).prev[x] = m.prev[x]
  <1> DEFINE n == m.q.count
             u == [i \in 1 .. n + 1 |-> IF i <= n THEN s[i] ELSE t]
             r == qAddTask(m, t)
  <1>0. n \in Nat /\ s \in [1 .. n -> Tasks] /\ NULL \notin Tasks
    BY TaskTableAssumption DEF Threads, Contents, QueueMem, Queue, Tasks
  <1>1. \A i \in 1 .. n : s[i] \in Elems(s) /\ s[i] # t
    BY <1>0 DEF Elems
  <1>u. /\ u \in [1 .. n + 1 -> Tasks]
        /\ u[n + 1] = t
        /\ \A i \in 1 .. n : u[i] = s[i]
    BY <1>0
  <1>d. DOMAIN u = 1 .. n + 1 /\ DOMAIN s = 1 .. n
    BY <1>0
  <1>a. u = Append(s, t)
    BY <1>0, AppendContents DEF Contents
  <1> HIDE DEF u, r
  <1>2. Injective(u)
    <2> SUFFICES ASSUME NEW i \in 1 .. n + 1, NEW j \in 1 .. n + 1, u[i] = u[j]
                 PROVE  i = j
      BY <1>d DEF Injective
    <2>1. CASE i \in 1 .. n /\ j \in 1 .. n
      BY <2>1, <1>u, <1>d DEF Threads, Injective
    <2>2. CASE i = n + 1 \/ j = n + 1
      BY <2>2, <1>0, <1>1, <1>u
    <2> QED
      BY <2>1, <2>2, <1>0
  <1>3. Elems(u) = Elems(s) \cup {t}
    <2>1. \A i \in 1 .. n + 1 : i \in 1 .. n \/ i = n + 1
      BY <1>0
    <2>2. 1 .. n \subseteq 1 .. n + 1 /\ n + 1 \in 1 .. n + 1
      BY <1>0
    <2> QED
      BY <2>1, <2>2, <1>u, <1>d DEF Elems
  <1>4. Threads(r, u)
    <2>1. CASE n = 0
      <3>1. r = [q    |-> [head |-> t, tail |-> t, count |-> 1],
                 next |-> [m.next EXCEPT ![t] = NULL],
                 prev |-> [m.prev EXCEPT ![t] = NULL]]
        BY <2>1 DEF qAddTask, r
      <3>2. r.next[t] = NULL /\ r.prev[t] = NULL
        BY <3>1 DEF QueueMem, Field, Ptr
      <3> QED
        BY <1>0, <1>u, <1>2, <2>1, <3>1, <3>2 DEF Threads, Contents
    <2>2. CASE n # 0
      <3>1. /\ r.q = [head |-> m.q.head, tail |-> t, count |-> n + 1]
            /\ r.next = [m.next EXCEPT ![m.q.tail] = t, ![t] = NULL]
            /\ r.prev = [m.prev EXCEPT ![t] = m.q.tail]
        BY <2>2 DEF qAddTask, r
      <3>2. /\ m.q.head = s[1] /\ m.prev[s[1]] = NULL
            /\ m.q.tail = s[n]
        BY <1>0, <2>2 DEF Threads
      <3>3. \A i \in 1 .. n - 1 : /\ m.next[s[i]] = s[i + 1]
                                  /\ m.prev[s[i + 1]] = s[i]
                                  /\ s[i] # s[n]
        BY <1>0 DEF Threads, Injective
      <3>4. m.next \in [Ptr -> Ptr] /\ m.prev \in [Ptr -> Ptr] /\ Tasks \subseteq Ptr
        BY DEF QueueMem, Field, Ptr
      <3>5. r.q.head = u[1] /\ r.prev[u[1]] = NULL /\ r.q.tail = u[n + 1]
            /\ r.next[u[n + 1]] = NULL
        BY <1>0, <1>1, <1>u, <2>2, <3>1, <3>2, <3>4
      <3>6. ASSUME NEW i \in 1 .. n
            PROVE  r.next[u[i]] = u[i + 1] /\ r.prev[u[i + 1]] = u[i]
        <4>1. CASE i = n
          BY <1>0, <1>1, <1>u, <2>2, <3>1, <3>2, <3>4, <4>1
        <4>2. CASE i < n
          <5>1. i \in 1 .. n - 1 /\ i + 1 \in 1 .. n
            BY <1>0, <4>2
          <5>2. r.next[s[i]] = s[i + 1] /\ r.prev[s[i + 1]] = s[i]
            BY <1>0, <1>1, <3>1, <3>2, <3>3, <3>4, <5>1
          <5> QED
            BY <1>u, <5>1, <5>2
        <4> QED
          BY <4>1, <4>2, <1>0
      <3> QED
        <4>1. r.q.count = n + 1
          BY <3>1
        <4> QED
          BY <1>0, <1>u, <1>2, <3>5, <3>6, <4>1 DEF Threads, Contents
    <2> QED
      BY <2>1, <2>2
  <1>5. ASSUME NEW x \in Tasks \ (Elems(s) \cup {t})
        PROVE  r.next[x] = m.next[x] /\ r.prev[x] = m.prev[x]
    <2>1. n # 0 => m.q.tail \in Elems(s)
      BY <1>0, <1>1 DEF Threads
    <2> QED
      BY <2>1 DEF qAddTask, QueueMem, Field, Ptr, r
  <1> QED
    BY <1>a, <1>3, <1>4, <1>5 DEF r

(* What is left of a well formed queue without its head: r is m with the    *)
(* head s[1] unlinked.                                                      *)
LEMMA BeheadedThreads ==
    ASSUME NEW m \in QueueMem, NEW s, Threads(m, s), m.q.count > 0,
           NEW r \in QueueMem,
           r.q.count = m.q.count - 1,
           m.q.count = 1 => r.q = EmptyQueue,
           m.q.count > 1 => r.q.head = m.next[s[1]] /\ r.q.tail = m.q.tail,
           r.next = [m.next EXCEPT ![s[1]] = NULL],
           \A x \in Tasks :
             r.prev[x] = IF x = s[1] \/ (m.q.count > 1 /\ x = m.next[s[1]])
                         THEN NULL ELSE m.prev[x]
    PROVE  /\ Threads(r, Tail(s)) /\ Elems(Tail(s)) = Elems(s) \ {s[1]}
           /\ \A x \in Tasks \ Elems(s) :
                r.next[x] = m.next[x] /\ r.prev[x] = m.prev[x]
  <1> DEFINE n == m.q.count
             u == [i \in 1 .. n - 1 |-> s[i + 1]]
  <1>0. n \in Nat /\ n > 0 /\ s \in [1 .. n -> Tasks] /\ NULL \notin Tasks
    BY TaskTableAssumption DEF Threads, Contents, QueueMem, Queue, Tasks
  <1>1. /\ u \in [1 .. n - 1 -> Tasks]
        /\ DOMAIN u = 1 .. n - 1 /\ DOMAIN s = 1 .. n
        /\ \A i \in 1 .. n - 1 : u[i] = s[i + 1] /\ i + 1 \in 1 .. n
    BY <1>0
  <1>t. u = Tail(s)
    BY <1>0, TailContents DEF Contents
  <1> HIDE DEF u
  <1>2. \A i \in 1 .. n, j \in 1 .. n : s[i] = s[j] => i = j
    BY <1>1 DEF Threads, Injective
  <1>3. /\ \A i \in 1 .. n - 1 : m.next[s[i]] = s[i + 1] /\ m.prev[s[i + 1]] = s[i]
        /\ m.q.tail = s[n] /\ m.next[s[n]] = NULL
    BY <1>0 DEF Threads
  <1>4. m.next \in [Ptr -> Ptr] /\ m.prev \in [Ptr -> Ptr] /\ Tasks \subseteq Ptr
    BY DEF QueueMem, Field, Ptr
  <1>5. Injective(u)
    <2> SUFFICES ASSUME NEW i \in 1 .. n - 1, NEW j \in 1 .. n - 1, u[i] = u[j]
                 PROVE  i = j
      BY <1>1 DEF Injective
    <2>1. i + 1 = j + 1
      BY <1>1, <1>2
    <2> QED
      BY <2>1, <1>0
  <1>6. Elems(u) = Elems(s) \ {s[1]}
    <2>1. ASSUME NEW x \in Elems(u) PROVE x \in Elems(s) \ {s[1]}
      <3>1. PICK i \in 1 .. n - 1 : x = u[i]
        BY <1>1 DEF Elems
      <3>2. x = s[i + 1] /\ i + 1 \in 1 .. n /\ i + 1 # 1 /\ 1 \in 1 .. n
        BY <1>0, <1>1, <3>1
      <3> QED
        BY <1>1, <1>2, <3>2 DEF Elems
    <2>2. ASSUME NEW x \in Elems(s) \ {s[1]} PROVE x \in Elems(u)
      <3>1. PICK i \in 1 .. n : x = s[i] /\ i # 1
        BY <1>1 DEF Elems
      <3>2. i - 1 \in 1 .. n - 1 /\ (i - 1) + 1 = i
        BY <1>0, <3>1
      <3>3. x = u[i - 1]
        BY <1>1, <3>1, <3>2
      <3> QED
        BY <1>1, <3>2, <3>3 DEF Elems
    <2> QED
      BY <2>1, <2>2
  <1>7. Threads(r, u)
    <2>1. CASE n = 1
      BY <1>0, <1>1, <1>5, <2>1 DEF Threads, Contents
    <2>2. CASE n > 1
      <3>1. /\ u[1] = s[2] /\ u[n - 1] = s[n] /\ m.next[s[1]] = s[2]
            /\ s[2] # s[1] /\ s[n] # s[1] /\ s[1] \in Tasks
            /\ s[2] \in Tasks /\ s[n] \in Tasks
        <4>1. /\ 1 \in 1 .. n - 1 /\ n - 1 \in 1 .. n - 1
              /\ {1, 2, n} \subseteq 1 .. n /\ 2 # 1 /\ n # 1
              /\ (n - 1) + 1 = n /\ 1 + 1 = 2
          BY <1>0, <2>2
        <4>2. u[1] = s[2] /\ u[n - 1] = s[n]
          BY <1>1, <4>1
        <4>3. m.next[s[1]] = s[2]
          BY <1>3, <4>1
        <4>4. s[2] # s[1] /\ s[n] # s[1]
          BY <1>2, <4>1
        <4>5. {s[1], s[2], s[n]} \subseteq Tasks
          BY <1>0, <4>1
        <4> QED
          BY <4>2, <4>3, <4>4, <4>5
      <3>2. /\ r.q.head = u[1] /\ r.prev[u[1]] = NULL
            /\ r.q.tail = u[n - 1] /\ r.next[u[n - 1]] = NULL
        BY <1>0, <1>3, <1>4, <2>2, <3>1
      <3>3. ASSUME NEW i \in 1 .. (n - 1) - 1
            PROVE  r.next[u[i]] = u[i + 1] /\ r.prev[u[i + 1]] = u[i]
        <4>1. /\ i + 1 \in 1 .. n - 1 /\ (i + 1) + 1 \in 1 .. n
              /\ u[i] = s[i + 1] /\ u[i + 1] = s[(i + 1) + 1]
              /\ i + 1 # 1 /\ (i + 1) + 1 # 1 /\ (i + 1) + 1 # 2
              /\ 1 \in 1 .. n /\ 2 \in 1 .. n
          BY <1>0, <1>1, <2>2
        <4>2. /\ m.next[s[i + 1]] = s[(i + 1) + 1]
              /\ m.prev[s[(i + 1) + 1]] = s[i + 1]
          BY <1>3, <4>1
        <4>3. /\ s[i + 1] # s[1] /\ s[(i + 1) + 1] # s[1]
              /\ s[(i + 1) + 1] # s[2]
              /\ s[i + 1] \in Tasks /\ s[(i + 1) + 1] \in Tasks
          BY <1>0, <1>2, <4>1
        <4> QED
          BY <1>4, <3>1, <4>1, <4>2, <4>3
      <3>4. r.q.count = n - 1 /\ r.q.count > 0 /\ r.q.count # 0
        BY <1>0, <2>2
      <3>5. u \in Contents(r.q.count)
        BY <1>1, <3>4 DEF Contents
      <3> QED
        BY <1>5, <3>2, <3>3, <3>4, <3>5 DEF Threads
    <2> QED
      BY <2>1, <2>2, <1>0
  <1>8. ASSUME NEW x \in Tasks \ Elems(s)
        PROVE  r.next[x] = m.next[x] /\ r.prev[x] = m.prev[x]
    <2>1. x # s[1]
      BY <1>0, <1>1 DEF Elems
    <2>2. n > 1 => x # m.next[s[1]]
      <3>1. n > 1 => m.next[s[1]] = s[2] /\ 2 \in DOMAIN s
        BY <1>0, <1>1, <1>3
      <3> QED
        BY <3>1 DEF Elems
    <2> QED
      BY <1>4, <2>1, <2>2
  <1> QED
    BY <1>t, <1>6, <1>7, <1>8

(* qGetTask returns the head of a well formed queue and keeps the rest.     *)
LEMMA GetThreads ==
    ASSUME NEW m \in QueueMem, NEW s, Threads(m, s), m.q.count > 0
    PROVE  /\ qGetTask(m).task = s[1]
           /\ s[1] \in Elems(s)
           /\ Threads(qGetTask(m).mem, Tail(s))
           /\ Elems(Tail(s)) = Elems(s) \ {s[1]}
           /\ \A x \in Tasks \ Elems(s) :
                /\ qGetTask(m).mem.next[x] = m.next[x]
                /\ qGetTask(m).mem.prev[x] = m.prev[x]
  <1> DEFINE r == qGetTask(m).mem
  <1>1. m.q.count \in Nat /\ s \in [1 .. m.q.count -> Tasks] /\ m.q.head = s[1]
    BY DEF Threads, Contents, QueueMem, Queue
  <1>2. qGetTask(m).task = s[1] /\ s[1] \in Elems(s) /\ s[1] \in Tasks
    BY <1>1 DEF qGetTask, Elems
  <1>3. r \in QueueMem
    BY GetType
  <1>4. /\ r.q.count = m.q.count - 1
        /\ m.q.count = 1 => r.q = EmptyQueue
        /\ m.q.count > 1 => r.q.head = m.next[s[1]] /\ r.q.tail = m.q.tail
        /\ r.next = [m.next EXCEPT ![s[1]] = NULL]
    BY <1>1 DEF qGetTask, EmptyQueue
  <1>5. \A x \in Tasks :
             r.prev[x] = IF x = s[1] \/ (m.q.count > 1 /\ x = m.next[s[1]])
                         THEN NULL ELSE m.prev[x]
    BY <1>1, <1>2 DEF qGetTask, QueueMem, Field, Ptr
  <1> HIDE DEF r
  <1>6. /\ Threads(r, Tail(s)) /\ Elems(Tail(s)) = Elems(s) \ {s[1]}
        /\ \A x \in Tasks \ Elems(s) :
             r.next[x] = m.next[x] /\ r.prev[x] = m.prev[x]
    BY <1>3, <1>4, <1>5, BeheadedThreads
  <1> QED
    BY <1>2, <1>6 DEF r

(* qRemoveTask takes the head out of a well formed queue correctly.         *)
LEMMA RemoveHeadThreads ==
    ASSUME NEW m \in QueueMem, NEW s, Threads(m, s), m.q.count > 0,
           NEW t \in Tasks, t = m.q.head
    PROVE  /\ t \in Elems(s)
           /\ Threads(qRemoveTask(m, t), Tail(s))
           /\ Elems(Tail(s)) = Elems(s) \ {t}
           /\ \A x \in Tasks \ Elems(s) :
                /\ qRemoveTask(m, t).next[x] = m.next[x]
                /\ qRemoveTask(m, t).prev[x] = m.prev[x]
  <1> DEFINE r == qRemoveTask(m, t)
  <1>1. /\ m.q.count \in Nat /\ s \in [1 .. m.q.count -> Tasks]
        /\ m.q.head = s[1] /\ m.prev[s[1]] = NULL
        /\ m.q.count = 1 => m.next[s[1]] = NULL
        /\ m.q.count > 1 => m.next[s[1]] = s[2] /\ s[2] \in Tasks
    BY DEF Threads, Contents, QueueMem, Queue
  <1>2. t = s[1] /\ t \in Elems(s)
    BY <1>1 DEF Elems
  <1>3. r = Unlink(m, t)
    BY <1>1, <1>2 DEF qRemoveTask, Visits
  <1>4. r \in QueueMem
    BY RemoveType
  <1>5. NULL \notin Tasks
    BY TaskTableAssumption DEF Tasks
  <1>6. /\ r.q.count = m.q.count - 1
        /\ m.q.count = 1 => r.q = EmptyQueue
        /\ m.q.count > 1 => r.q.head = m.next[s[1]] /\ r.q.tail = m.q.tail
        /\ r.next = [m.next EXCEPT ![s[1]] = NULL]
    BY <1>1, <1>2, <1>3, <1>5 DEF Unlink, EmptyQueue
  <1>7. \A x \in Tasks :
             r.prev[x] = IF x = s[1] \/ (m.q.count > 1 /\ x = m.next[s[1]])
                         THEN NULL ELSE m.prev[x]
    BY <1>1, <1>2, <1>3, <1>5 DEF Unlink, QueueMem, Field, Ptr
  <1> HIDE DEF r
  <1>8. /\ Threads(r, Tail(s)) /\ Elems(Tail(s)) = Elems(s) \ {s[1]}
        /\ \A x \in Tasks \ Elems(s) :
             r.next[x] = m.next[x] /\ r.prev[x] = m.prev[x]
    BY <1>4, <1>6, <1>7, BeheadedThreads
  <1> QED
    BY <1>2, <1>8 DEF r

-----------------------------------------------------------------------------
(* The scheduler.                                                           *)
USE DEF INIT

(* The null pointer is not the address of a TCB.                            *)
LEMMA NullIsNoTask == NULL \notin Tasks
  BY TaskTableAssumption DEF Tasks

(* The first statement of a nonempty enqueue is one of the statements.      *)
LEMMA LinkIsAStmt == "link" \in AddStmts
  BY DEF AddStmts

(* Each header, with the link fields, is a queue memory of the right type.  *)
LEMMA MemTypes ==
    ASSUME TypeOK
    PROVE  ReadyMem \in QueueMem /\ SuspMem \in QueueMem
  BY DEF TypeOK, ReadyMem, SuspMem, QueueMem

(* Dispatching from a queue memory of the right type.                       *)
LEMMA ScheduleType ==
    ASSUME NEW m \in QueueMem, NEW st \in [Tasks -> Status],
           muxx_schedule(m, st), halted = "no"
    PROVE  /\ curtcb' \in Ptr /\ status' \in [Tasks -> Status]
           /\ readyq' \in Queue /\ next' \in Field /\ prev' \in Field
           /\ halted' \in HaltReasons /\ (halted' = "no" => curtcb' \in Tasks)
  <1> DEFINE g == qGetTask(m)
  <1>1. g.task \in Ptr /\ g.mem \in QueueMem
    BY GetType
  <1> HIDE DEF g
  <1>2. /\ curtcb' = g.task /\ readyq' = g.mem.q
        /\ next' = g.mem.next /\ prev' = g.mem.prev
        /\ IF g.task = NULL
           THEN status' = st /\ halted' = "null task"
           ELSE status' = [st EXCEPT ![g.task] = "RUN"] /\ halted' = halted
    BY DEF muxx_schedule, g
  <1> QED
    BY <1>1, <1>2 DEF QueueMem, Status, HaltReasons, Ptr

(* A yield keeps the types.                                                 *)
LEMMA GiveUpType ==
    ASSUME TypeOK, halted = "no", GiveUp
    PROVE  /\ curtcb' \in Ptr /\ status' \in [Tasks -> Status]
           /\ readyq' \in Queue /\ next' \in Field /\ prev' \in Field
           /\ suspq' \in Queue
           /\ halted' \in HaltReasons /\ (halted' = "no" => curtcb' \in Tasks)
  <1>1. qAddTask(ReadyMem, curtcb) \in QueueMem
    BY MemTypes, AddType DEF TypeOK
  <1>2. [status EXCEPT ![curtcb] = "READY"] \in [Tasks -> Status]
    BY DEF TypeOK, Status
  <1> QED
    BY <1>1, <1>2, ScheduleType DEF GiveUp, TypeOK

(* muxx_svc_suspend keeps the types, whatever task it is asked for.         *)
LEMMA SuspendType ==
    ASSUME TypeOK, NEW t \in Tasks, Suspend(t)
    PROVE  TypeOK'
  <1> DEFINE removed == qRemoveTask(ReadyMem, t)
             joined  == [removed EXCEPT !.q = suspq]
             added   == qAddTask(joined, t)
             left    == [added EXCEPT !.q = removed.q]
             st      == [status EXCEPT ![t] = "SUSP"]
  <1>1. removed \in QueueMem
    BY MemTypes, RemoveType
  <1>2. joined \in QueueMem
    BY <1>1 DEF QueueMem, TypeOK
  <1>3. added \in QueueMem
    BY <1>2, AddType
  <1>4. left \in QueueMem
    BY <1>1, <1>3 DEF QueueMem
  <1>5. st \in [Tasks -> Status]
    BY DEF TypeOK, Status
  <1>6. /\ halted = "no"
        /\ breach' = breach \cup SuspendBreach(t)
        /\ IF ~SearchEnds(ReadyMem, t)
           THEN /\ halted' = "endless search"
                /\ UNCHANGED <<curtcb, status, queues>>
           ELSE /\ suspq' = added.q
                /\ IF t = curtcb
                   THEN muxx_schedule(left, st)
                   ELSE /\ readyq' = left.q
                        /\ next' = left.next
                        /\ prev' = left.prev
                        /\ status' = st
                        /\ UNCHANGED <<curtcb, halted>>
        /\ UNCHANGED <<clkcountdown, creation>>
    BY DEF Suspend
  <1> HIDE DEF removed, joined, added, left, st
  <1>7. breach' \subseteq Breaches
    BY <1>6 DEF SuspendBreach, Breaches, TypeOK
  <1>8. CASE ~SearchEnds(ReadyMem, t)
    BY <1>6, <1>7, <1>8 DEF TypeOK, queues, HaltReasons
  <1>9. CASE SearchEnds(ReadyMem, t) /\ t = curtcb
    <2>1. muxx_schedule(left, st) /\ suspq' = added.q
      BY <1>6, <1>9
    <2>2. suspq' \in Queue
      BY <1>3, <2>1 DEF QueueMem
    <2> QED
      BY <1>4, <1>5, <1>6, <1>7, <2>1, <2>2, ScheduleType DEF TypeOK
  <1>10. CASE SearchEnds(ReadyMem, t) /\ t # curtcb
    BY <1>3, <1>4, <1>5, <1>6, <1>7, <1>10 DEF TypeOK, QueueMem
  <1> QED
    BY <1>8, <1>9, <1>10

(* The type invariant is inductive by itself.                               *)
LEMMA TypeStep == TypeOK /\ [Next]_vars => TypeOK'
  <1> SUFFICES ASSUME TypeOK, [Next]_vars PROVE TypeOK'
    OBVIOUS
  <1>1. CASE ClockTick
    <2>1. clkcountdown' \in 1 .. CLK_QUANTUM
      BY <1>1, SchedulerAssumption DEF ClockTick, TypeOK
    <2>2. breach' \subseteq Breaches /\ creation' = creation
      BY <1>1 DEF ClockTick, TypeOK, Breaches
    <2>3. CASE GiveUp
      BY <1>1, <2>1, <2>2, <2>3, GiveUpType DEF TypeOK, ClockTick
    <2>4. CASE UNCHANGED <<curtcb, status, queues, halted>>
      BY <2>1, <2>2, <2>4 DEF TypeOK, queues
    <2> QED
      BY <1>1, <2>3, <2>4 DEF ClockTick
  <1>2. CASE Yield
    BY <1>2, GiveUpType DEF TypeOK, Yield
  <1>3. ASSUME NEW t \in Tasks, Suspend(t) PROVE TypeOK'
    BY <1>3, SuspendType
  <1>4. CASE CreateStart
    <2>1. /\ status' \in [Tasks -> Status]
          /\ creation' \in Creation \cup {NoCreation}
          /\ halted' \in {"no", "TCT full"}
      <3>1. CASE FreeSlots = {}
        BY <1>4, <3>1 DEF CreateStart, TypeOK
      <3>2. CASE FreeSlots # {}
        <4>1. PICK t \in Tasks :
                /\ status' = [status EXCEPT ![t] = "INIT"]
                /\ creation' = [by |-> curtcb, new |-> t, at |-> "mem", last |-> NULL]
                /\ halted' = halted
          BY <1>4, <3>2 DEF CreateStart, FreeSlots
        <4>2. curtcb \in Tasks /\ halted' = "no"
          BY <1>4, <4>1 DEF CreateStart, TypeOK
        <4> QED
          BY <4>1, <4>2 DEF TypeOK, Creation, Status, Ptr
      <3> QED
        BY <3>1, <3>2
    <2> QED
      BY <1>4, <2>1 DEF CreateStart, TypeOK, HaltReasons, queues
  <1>5. CASE CreateFails
    BY <1>5 DEF CreateFails, TypeOK, queues
  <1>6. CASE EnqueueStart
    <2>1. creation \in Creation
      BY <1>6 DEF EnqueueStart, TypeOK, NoCreation
    <2> QED
      BY <1>6, <2>1 DEF EnqueueStart, TypeOK, queues, Creation, FirstStmt,
         AddStmts, Queue
  <1>7. CASE EnqueueStmt
    <2>1. creation \in Creation
      BY <1>7 DEF EnqueueStmt, TypeOK, NoCreation, AddStmts
    <2>2. AddStmt(creation.at, ReadyMem, creation.new, creation.last) \in QueueMem
      BY <1>7, <2>1, MemTypes, AddStmtType DEF EnqueueStmt, Creation
    <2>3. /\ NextStmt[creation.at] = "done" \/ NextStmt[creation.at] \in AddStmts
      BY <1>7, <2>1, MemTypes, AddRestStep DEF EnqueueStmt, Creation
    <2>4. readyq' \in Queue /\ next' \in Field /\ prev' \in Field
      BY <1>7, <2>2 DEF EnqueueStmt, QueueMem
    <2>5. creation' \in Creation \cup {NoCreation}
      BY <1>7, <2>1, <2>3 DEF EnqueueStmt, Creation
    <2> QED
      BY <1>7, <2>4, <2>5 DEF EnqueueStmt, TypeOK
  <1>8. CASE UNCHANGED vars
    BY <1>8 DEF vars, TypeOK
  <1> QED
    BY <1>1, <1>2, <1>3, <1>4, <1>5, <1>6, <1>7, <1>8 DEF Next

(* The state after boot has the right types.                                *)
LEMMA TypeInit == Init => TypeOK
  BY TaskTableAssumption, SchedulerAssumption
  DEF Init, TypeOK, Status, Queue, EmptyQueue, Field, Ptr, Tasks, HaltReasons

(* Every variable keeps its type, whatever happens to the queues: no        *)
(* interleaving makes curtcb anything but a task while the machine runs.    *)
THEOREM TypeCorrect == Spec => []TypeOK
  BY TypeInit, TypeStep, PTL DEF Spec

-----------------------------------------------------------------------------
(* The two queues share the link fields but no task.                        *)
LEMMA QueuesApart ==
    ASSUME TypeOK, halted = "no", NEW rs, NEW ss, QueueInv(rs, ss)
    PROVE  /\ \A x \in Elems(ss) : x \in Tasks \ (Elems(rs) \cup {curtcb})
           /\ Elems(rs) \subseteq Tasks \ {curtcb}
           /\ curtcb \in Tasks
  <1>1. Elems(rs) \subseteq Tasks /\ Elems(ss) \subseteq Tasks
    BY DEF QueueInv, Threads, Contents, Elems
  <1> QED
    BY <1>1 DEF QueueInv, TypeOK

(* What a step does to the contents of the queues, rs and ss before, us and *)
(* vs after: nothing, a rotation, a suspension of the running task or of    *)
(* the head of the ready queue, or the arrival of a new task.               *)
Moves(rs, us, ss, vs) ==
    \/ /\ us = rs /\ curtcb' = curtcb /\ Elems(vs) = Elems(ss)
    \/ /\ us = Tail(Append(rs, curtcb)) /\ curtcb' = Head(Append(rs, curtcb))
       /\ Append(rs, curtcb) # << >> /\ Elems(vs) = Elems(ss)
    \/ /\ rs # << >> /\ us = Tail(rs) /\ curtcb' = Head(rs)
       /\ Elems(vs) = Elems(ss) \cup {curtcb}
    \/ /\ rs # << >> /\ us = Tail(rs) /\ curtcb' = curtcb
       /\ Elems(vs) = Elems(ss) \cup {Head(rs)}
    \/ /\ \E t \in Tasks : /\ us = Append(rs, t)
                           /\ t \notin Elems(rs) \cup Elems(ss) \cup {curtcb}
       /\ curtcb' = curtcb /\ Elems(vs) = Elems(ss)

(* The running task is queued and the head dispatched: both queues stay     *)
(* well formed and nobody is lost.                                          *)
LEMMA GiveUpInv ==
    ASSUME TypeOK, halted = "no", NEW rs, NEW ss, QueueInv(rs, ss),
           creation.at \notin AddStmts, GiveUp, creation' = creation
    PROVE  halted' = "no" /\ \E us : QueueInv(us, ss)' /\ Moves(rs, us, ss, ss)
  <1> DEFINE m1 == qAddTask(ReadyMem, curtcb)
             st == [status EXCEPT ![curtcb] = "READY"]
             g  == qGetTask(m1)
  <1>1. /\ \A x \in Elems(ss) : x \in Tasks \ (Elems(rs) \cup {curtcb})
        /\ Elems(rs) \subseteq Tasks \ {curtcb}
        /\ curtcb \in Tasks
    BY QueuesApart
  <1>2. Threads(ReadyMem, rs) /\ Threads(SuspMem, ss)
    BY DEF QueueInv, PendingReady
  <1>3. ReadyMem \in QueueMem /\ SuspMem \in QueueMem /\ m1 \in QueueMem
    BY <1>1, MemTypes, AddType
  <1>4. PICK u1 : /\ u1 = Append(rs, curtcb) /\ Threads(m1, u1)
                  /\ Elems(u1) = Elems(rs) \cup {curtcb}
    BY <1>1, <1>2, <1>3, AddThreads
  <1>5. m1.q.count > 0
    BY <1>3 DEF qAddTask, QueueMem, Queue
  <1>6. PICK u2 : /\ u2 = Tail(u1) /\ Threads(g.mem, u2)
                  /\ Elems(u2) = Elems(u1) \ {u1[1]}
    BY <1>3, <1>4, <1>5, GetThreads
  <1>7. g.task = u1[1] /\ u1[1] \in Elems(u1)
    BY <1>3, <1>4, <1>5, GetThreads
  <1>8. \A x \in Elems(ss) : /\ g.mem.next[x] = next[x]
                             /\ g.mem.prev[x] = prev[x]
    <2>1. \A x \in Elems(ss) : m1.next[x] = next[x] /\ m1.prev[x] = prev[x]
      <3>1. \A x \in Tasks \ (Elems(rs) \cup {curtcb}) :
               m1.next[x] = ReadyMem.next[x] /\ m1.prev[x] = ReadyMem.prev[x]
        BY <1>1, <1>2, <1>3, AddThreads
      <3> QED
        BY <1>1, <3>1 DEF ReadyMem
    <2>2. \A x \in Tasks \ Elems(u1) :
             g.mem.next[x] = m1.next[x] /\ g.mem.prev[x] = m1.prev[x]
      BY <1>3, <1>4, <1>5, GetThreads
    <2> QED
      BY <1>1, <1>4, <2>1, <2>2
  <1> DEFINE c == u1[1]
  <1>9. c \in Tasks /\ c # NULL
    BY <1>1, <1>4, <1>7, NullIsNoTask
  <1>10. /\ curtcb' = c /\ halted' = "no"
         /\ status' = [st EXCEPT ![c] = "RUN"]
         /\ readyq' = g.mem.q /\ next' = g.mem.next /\ prev' = g.mem.prev
         /\ suspq' = suspq
    BY <1>7, <1>9 DEF GiveUp, muxx_schedule
  <1>11. ReadyMem' = g.mem
    <2>1. g.mem \in QueueMem
      BY <1>3, GetType
    <2> QED
      BY <1>10, <2>1 DEF ReadyMem, QueueMem
  <1>12. Threads(SuspMem', ss)
    <2>1. SuspMem.q = suspq /\ SuspMem.next = next /\ SuspMem.prev = prev
      BY DEF SuspMem
    <2>2. Threads([q |-> SuspMem.q, next |-> g.mem.next, prev |-> g.mem.prev], ss)
      BY <1>2, <1>3, <1>8, <2>1, ThreadsLocal
    <2> QED
      BY <1>10, <2>1, <2>2 DEF SuspMem
  <1> HIDE DEF m1, g, c
  <1>13. PendingReady' = g.mem
    BY <1>11 DEF PendingReady
  <1>14. status \in [Tasks -> Status]
    BY DEF TypeOK
  <1>15. QueueInv(u2, ss)'
    <2>1. \A t \in Tasks : status'[t] = IF t = c THEN "RUN"
                                        ELSE IF t = curtcb THEN "READY"
                                        ELSE status[t]
      BY <1>1, <1>9, <1>10, <1>14
    <2>2. \A t \in Tasks : status'[t] = "RUN" <=> t = c
      BY <2>1 DEF QueueInv
    <2>3. \A t \in Tasks : status'[t] = "READY" => t \in Elems(u2)
      BY <1>4, <1>6, <2>1 DEF QueueInv, c
    <2>4. \A t \in Elems(u2) : status'[t] \in {"READY", "INIT"}
      BY <1>1, <1>4, <1>6, <2>1 DEF QueueInv, c
    <2>5. \A t \in Tasks : status'[t] = "SUSP" <=> t \in Elems(ss)
      BY <1>1, <1>4, <1>7, <2>1 DEF QueueInv, c
    <2>6. creation.at = "mem" => /\ status'[creation.new] = "INIT"
                                /\ creation.new \notin Elems(u2)
      <3>1. SUFFICES ASSUME creation.at = "mem"
                     PROVE  /\ status'[creation.new] = "INIT"
                            /\ creation.new \notin Elems(u2)
        OBVIOUS
      <3>2. creation.new \in Tasks /\ status[creation.new] = "INIT"
            /\ creation.new \notin Elems(rs)
        BY <3>1 DEF QueueInv, TypeOK, Creation, NoCreation
      <3>3. creation.new # curtcb
        BY <1>1, <3>2 DEF QueueInv
      <3> QED
        BY <1>4, <1>6, <1>7, <2>1, <3>2, <3>3 DEF c
    <2>7. \A h \in Handlers : status'[h] # "FREE" /\ creation.new # h
                              => status'[h] = "RUN" \/ h \in Elems(u2)
      BY <1>4, <1>6, <2>1, SchedulerAssumption DEF QueueInv, c
    <2> QED
      BY <1>6, <1>10, <1>12, <1>13, <2>2, <2>3, <2>4, <2>5, <2>6, <2>7,
         LinkIsAStmt DEF QueueInv
  <1>16. Moves(rs, u2, ss, ss)
    <2>1. Head(u1) = u1[1] /\ u1 # << >>
      BY <1>3, <1>4, <1>5, TailContents DEF Threads, QueueMem, Queue
    <2> QED
      BY <1>4, <1>6, <1>10, <2>1 DEF Moves, c
  <1> QED
    BY <1>10, <1>15, <1>16

(* The running task suspends itself: it joins the suspended queue, and a    *)
(* handler guarantees that the ready queue has somebody to dispatch.        *)
LEMMA SuspendSelfInv ==
    ASSUME TypeOK, halted = "no", NEW rs, NEW ss, QueueInv(rs, ss),
           Suspend(curtcb)
    PROVE  /\ halted' = "no"
           /\ \E us, vs : QueueInv(us, vs)' /\ Moves(rs, us, ss, vs)
  <1> DEFINE t     == curtcb
             added == qAddTask(SuspMem, t)
             left  == [added EXCEPT !.q = readyq]
             st    == [status EXCEPT ![t] = "SUSP"]
             g     == qGetTask(left)
  <1>1. /\ \A x \in Elems(ss) : x \in Tasks \ (Elems(rs) \cup {t})
        /\ Elems(rs) \subseteq Tasks \ {t}
        /\ t \in Tasks
    BY QueuesApart
  <1>2. creation.at \notin AddStmts
    BY DEF QueueInv, Suspend, InCreate
  <1>3. Threads(ReadyMem, rs) /\ Threads(SuspMem, ss)
    BY <1>2 DEF QueueInv, PendingReady
  <1>4. ReadyMem \in QueueMem /\ SuspMem \in QueueMem /\ added \in QueueMem
    BY <1>1, MemTypes, AddType
  <1>5. qRemoveTask(ReadyMem, t) = ReadyMem /\ SearchEnds(ReadyMem, t)
    BY <1>1, <1>3, <1>4, RemoveAbsent, SearchEndsOnThreads
  <1>6. [ReadyMem EXCEPT !.q = suspq] = SuspMem /\ ReadyMem.q = readyq
    BY DEF ReadyMem, SuspMem
  <1>7. /\ muxx_schedule(left, st) /\ suspq' = added.q
        /\ UNCHANGED creation /\ MaySuspend(t)
    BY <1>5, <1>6 DEF Suspend
  <1>8. PICK vs : Threads(added, vs) /\ Elems(vs) = Elems(ss) \cup {t}
    BY <1>1, <1>3, <1>4, AddThreads
  <1>9. \A x \in Elems(rs) : added.next[x] = next[x] /\ added.prev[x] = prev[x]
    <2>1. \A x \in Tasks \ (Elems(ss) \cup {t}) :
             added.next[x] = SuspMem.next[x] /\ added.prev[x] = SuspMem.prev[x]
      BY <1>1, <1>3, <1>4, AddThreads
    <2> QED
      BY <1>1, <2>1 DEF SuspMem
  <1> HIDE DEF added, t
  <1>10. left \in QueueMem /\ left.q = readyq
         /\ left.next = added.next /\ left.prev = added.prev
    BY <1>4 DEF QueueMem, TypeOK
  <1>11. Threads(left, rs)
    <2>1. Threads([q |-> ReadyMem.q, next |-> added.next, prev |-> added.prev], rs)
      <3>1. \A x \in Elems(rs) : /\ added.next[x] = ReadyMem.next[x]
                                 /\ added.prev[x] = ReadyMem.prev[x]
        BY <1>9 DEF ReadyMem
      <3> QED
        BY <1>3, <1>4, <3>1, ThreadsLocal
    <2>2. left = [q |-> ReadyMem.q, next |-> added.next, prev |-> added.prev]
      BY <1>4 DEF QueueMem, ReadyMem
    <2> QED
      BY <2>1, <2>2
  <1>12. left.q.count > 0
    <2>1. PICK h \in Handlers : status[h] # "FREE" /\ creation.new # h
      BY <1>7, SchedulerAssumption DEF MaySuspend, HandlersUp
    <2>2. h # curtcb /\ h \in Tasks
      BY <1>7, <2>1, SchedulerAssumption DEF MaySuspend
    <2>3. h \in Elems(rs)
      BY <2>1, <2>2 DEF QueueInv
    <2> QED
      BY <1>10, <1>11, <2>3 DEF Threads, Elems, Contents, QueueMem, Queue
  <1>13. PICK us : /\ us = Tail(rs) /\ Threads(g.mem, us)
                   /\ Elems(us) = Elems(rs) \ {rs[1]}
    <2>1. Threads(g.mem, Tail(rs)) /\ Elems(Tail(rs)) = Elems(rs) \ {rs[1]}
      BY <1>10, <1>11, <1>12, GetThreads
    <2> QED
      BY <2>1
  <1>14. g.task = rs[1] /\ rs[1] \in Elems(rs)
    BY <1>10, <1>11, <1>12, GetThreads
  <1>15. \A x \in Elems(vs) : /\ g.mem.next[x] = added.next[x]
                              /\ g.mem.prev[x] = added.prev[x]
    <2>1. \A x \in Tasks \ Elems(rs) :
             g.mem.next[x] = left.next[x] /\ g.mem.prev[x] = left.prev[x]
      BY <1>10, <1>11, <1>12, GetThreads
    <2> QED
      BY <1>1, <1>8, <1>10, <2>1
  <1> DEFINE c == rs[1]
  <1>16. c \in Tasks /\ c # NULL /\ c # t
    BY <1>1, <1>14, NullIsNoTask
  <1>17. /\ curtcb' = c /\ halted' = "no"
         /\ status' = [st EXCEPT ![c] = "RUN"]
         /\ readyq' = g.mem.q /\ next' = g.mem.next /\ prev' = g.mem.prev
    BY <1>7, <1>14, <1>16 DEF muxx_schedule
  <1>18. g.mem \in QueueMem
    BY <1>10, GetType
  <1> HIDE DEF left, g, c
  <1>19. ReadyMem' = g.mem
    BY <1>17, <1>18 DEF ReadyMem, QueueMem
  <1>20. Threads(SuspMem', vs)
    <2>1. Threads([q |-> added.q, next |-> g.mem.next, prev |-> g.mem.prev], vs)
      BY <1>4, <1>8, <1>15, ThreadsLocal
    <2> QED
      BY <1>7, <1>17, <2>1 DEF SuspMem
  <1>21. PendingReady' = g.mem
    BY <1>2, <1>7, <1>19 DEF PendingReady
  <1>22. status \in [Tasks -> Status]
    BY DEF TypeOK
  <1>23. QueueInv(us, vs)'
    <2>1. \A x \in Tasks : status'[x] = IF x = c THEN "RUN"
                                        ELSE IF x = t THEN "SUSP"
                                        ELSE status[x]
      BY <1>1, <1>16, <1>17, <1>22
    <2>2. \A x \in Tasks : status'[x] = "RUN" <=> x = c
      BY <2>1 DEF QueueInv, t
    <2>3. \A x \in Tasks : status'[x] = "READY" => x \in Elems(us)
      BY <1>13, <2>1 DEF QueueInv, c
    <2>4. \A x \in Elems(us) : status'[x] \in {"READY", "INIT"}
      BY <1>1, <1>13, <2>1 DEF QueueInv, c
    <2>5. \A x \in Tasks : status'[x] = "SUSP" <=> x \in Elems(vs)
      BY <1>1, <1>8, <1>14, <1>16, <2>1 DEF QueueInv, c
    <2>6. creation.at = "mem" => /\ status'[creation.new] = "INIT"
                                /\ creation.new \notin Elems(us)
      <3>1. SUFFICES ASSUME creation.at = "mem"
                     PROVE  /\ status'[creation.new] = "INIT"
                            /\ creation.new \notin Elems(us)
        OBVIOUS
      <3>2. creation.new \in Tasks /\ status[creation.new] = "INIT"
            /\ creation.new \notin Elems(rs)
        BY <3>1 DEF QueueInv, TypeOK, Creation, NoCreation
      <3>3. creation.new # t
        BY <1>1, <3>2 DEF QueueInv, t
      <3> QED
        BY <1>13, <1>14, <2>1, <3>2, <3>3 DEF c
    <2>7. \A h \in Handlers : status'[h] # "FREE" /\ creation.new # h
                              => status'[h] = "RUN" \/ h \in Elems(us)
      BY <1>7, <1>13, <2>1, SchedulerAssumption DEF QueueInv, MaySuspend, c, t
    <2> QED
      BY <1>2, <1>7, <1>13, <1>17, <1>20, <1>21, <2>2, <2>3, <2>4, <2>5, <2>6, <2>7,
         LinkIsAStmt DEF QueueInv
  <1>24. Moves(rs, us, ss, vs)
    <2>1. Head(rs) = rs[1] /\ rs # << >>
      BY <1>10, <1>11, <1>12, TailContents DEF Threads, QueueMem, Queue
    <2> QED
      BY <1>8, <1>13, <1>17, <2>1 DEF Moves, c, t
  <1> QED
    BY <1>17, <1>23, <1>24

(* The running task suspends the head of the ready queue: qRemoveTask does  *)
(* unlink a head, and the task moves to the suspended queue.                *)
LEMMA SuspendHeadInv ==
    ASSUME TypeOK, halted = "no", NEW rs, NEW ss, QueueInv(rs, ss),
           NEW t \in Tasks, t # curtcb, readyq.count > 0, readyq.head = t,
           Suspend(t)
    PROVE  /\ halted' = "no"
           /\ \E us, vs : QueueInv(us, vs)' /\ Moves(rs, us, ss, vs)
  <1> DEFINE removed == qRemoveTask(ReadyMem, t)
             joined  == [removed EXCEPT !.q = suspq]
             added   == qAddTask(joined, t)
             left    == [added EXCEPT !.q = removed.q]
             st      == [status EXCEPT ![t] = "SUSP"]
  <1>1. /\ \A x \in Elems(ss) : x \in Tasks \ (Elems(rs) \cup {curtcb})
        /\ Elems(rs) \subseteq Tasks \ {curtcb}
        /\ curtcb \in Tasks
    BY QueuesApart
  <1>2. creation.at \notin AddStmts
    BY DEF QueueInv, Suspend, InCreate
  <1>3. Threads(ReadyMem, rs) /\ Threads(SuspMem, ss)
    BY <1>2 DEF QueueInv, PendingReady
  <1>4. ReadyMem \in QueueMem /\ SuspMem \in QueueMem /\ removed \in QueueMem
    BY MemTypes, RemoveType
  <1>5. SearchEnds(ReadyMem, t)
    BY <1>3, <1>4, SearchEndsOnThreads
  <1>6. ReadyMem.q = readyq /\ ReadyMem.next = next /\ ReadyMem.prev = prev
        /\ SuspMem.q = suspq /\ SuspMem.next = next /\ SuspMem.prev = prev
    BY DEF ReadyMem, SuspMem
  <1>7. PICK us : /\ us = Tail(rs) /\ Threads(removed, us)
                  /\ Elems(us) = Elems(rs) \ {t}
    <2>1. Threads(removed, Tail(rs)) /\ Elems(Tail(rs)) = Elems(rs) \ {t}
      BY <1>3, <1>4, <1>6, RemoveHeadThreads
    <2> QED
      BY <2>1
  <1>8. t \in Elems(rs)
        /\ \A x \in Elems(ss) : /\ removed.next[x] = next[x]
                                 /\ removed.prev[x] = prev[x]
    <2>1. t \in Elems(rs)
          /\ \A x \in Tasks \ Elems(rs) : /\ removed.next[x] = ReadyMem.next[x]
                                          /\ removed.prev[x] = ReadyMem.prev[x]
      BY <1>3, <1>4, <1>6, RemoveHeadThreads
    <2> QED
      BY <1>1, <1>6, <2>1
  <1>9. /\ suspq' = added.q /\ readyq' = left.q /\ next' = left.next
        /\ prev' = left.prev /\ status' = st
        /\ UNCHANGED <<curtcb, halted, creation>> /\ MaySuspend(t)
    BY <1>5 DEF Suspend
  <1> HIDE DEF removed
  <1>10. joined \in QueueMem
         /\ joined = [q |-> suspq, next |-> removed.next, prev |-> removed.prev]
    BY <1>4 DEF QueueMem, TypeOK
  <1>11. Threads(joined, ss)
    BY <1>3, <1>4, <1>6, <1>8, <1>10, ThreadsLocal
  <1>12. added \in QueueMem
    BY <1>10, AddType
  <1>13. t \notin Elems(ss)
    BY <1>1, <1>8
  <1>14. PICK vs : Threads(added, vs) /\ Elems(vs) = Elems(ss) \cup {t}
    BY <1>10, <1>11, <1>13, AddThreads
  <1>15. \A x \in Elems(us) : /\ added.next[x] = removed.next[x]
                              /\ added.prev[x] = removed.prev[x]
    <2>1. \A x \in Tasks \ (Elems(ss) \cup {t}) :
             added.next[x] = joined.next[x] /\ added.prev[x] = joined.prev[x]
      BY <1>10, <1>11, <1>13, AddThreads
    <2> QED
      BY <1>1, <1>7, <1>10, <2>1
  <1> HIDE DEF joined, added
  <1>16. left = [q |-> removed.q, next |-> added.next, prev |-> added.prev]
    BY <1>12 DEF QueueMem
  <1>17. Threads(left, us)
    BY <1>4, <1>7, <1>15, <1>16, ThreadsLocal
  <1>18. PendingReady' = left
    BY <1>2, <1>9, <1>16 DEF PendingReady, ReadyMem
  <1>19. SuspMem' = added
    BY <1>9, <1>12, <1>16 DEF SuspMem, QueueMem
  <1> HIDE DEF left
  <1>20. \A x \in Tasks : status'[x] = IF x = t THEN "SUSP" ELSE status[x]
    BY <1>9 DEF TypeOK
  <1>21. QueueInv(us, vs)'
    <2>1. \A x \in Tasks : status'[x] = "RUN" <=> x = curtcb
      BY <1>20 DEF QueueInv
    <2>2. \A x \in Tasks : status'[x] = "READY" => x \in Elems(us)
      BY <1>7, <1>20 DEF QueueInv
    <2>3. \A x \in Elems(us) : status'[x] \in {"READY", "INIT"}
      BY <1>1, <1>7, <1>20 DEF QueueInv
    <2>4. \A x \in Tasks : status'[x] = "SUSP" <=> x \in Elems(vs)
      BY <1>14, <1>20 DEF QueueInv
    <2>5. creation.at = "mem" => /\ status'[creation.new] = "INIT"
                                /\ creation.new \notin Elems(us)
      BY <1>7, <1>8, <1>20 DEF QueueInv, TypeOK, Creation, NoCreation
    <2>6. \A h \in Handlers : status'[h] # "FREE" /\ creation.new # h
                              => status'[h] = "RUN" \/ h \in Elems(us)
      BY <1>7, <1>9, <1>20, SchedulerAssumption DEF QueueInv, MaySuspend
    <2> QED
      BY <1>2, <1>9, <1>14, <1>17, <1>18, <1>19,
         <2>1, <2>2, <2>3, <2>4, <2>5, <2>6, LinkIsAStmt DEF QueueInv
  <1>22. Moves(rs, us, ss, vs)
    <2>1. Head(rs) = rs[1] /\ rs # << >> /\ rs[1] = t
      BY <1>3, <1>4, <1>6, TailContents DEF Threads, QueueMem, Queue
    <2> QED
      BY <1>7, <1>9, <1>14, <2>1 DEF Moves
  <1> QED
    BY <1>9, <1>21, <1>22

(* creprc enters qAddTask: from here on the new task counts as queued.      *)
LEMMA EnqueueStartInv ==
    ASSUME TypeOK, NEW rs, NEW ss, QueueInv(rs, ss), EnqueueStart
    PROVE  halted' = "no" /\ \E us : QueueInv(us, ss)' /\ Moves(rs, us, ss, ss)
  <1> DEFINE t == creation.new
             m == qAddTask(ReadyMem, t)
  <1>1. /\ halted = "no" /\ creation.by = curtcb /\ creation.at = "mem"
        /\ creation' = [creation EXCEPT !.at = FirstStmt(ReadyMem),
                                        !.last = readyq.tail]
        /\ UNCHANGED <<curtcb, status, readyq, suspq, next, prev, halted>>
    BY DEF EnqueueStart, InCreate, queues
  <1>2. creation \in Creation /\ t \in Tasks
    BY <1>1 DEF TypeOK, NoCreation, Creation
  <1>3. "mem" \notin AddStmts
    BY DEF AddStmts
  <1>4. Threads(ReadyMem, rs) /\ ReadyMem \in QueueMem /\ t \notin Elems(rs)
    BY <1>1, <1>3, MemTypes DEF QueueInv, PendingReady
  <1>5. PICK us : /\ us = Append(rs, t) /\ Threads(m, us)
                  /\ Elems(us) = Elems(rs) \cup {t}
    <2>1. Threads(m, Append(rs, t)) /\ Elems(Append(rs, t)) = Elems(rs) \cup {t}
      BY <1>2, <1>4, AddThreads
    <2> QED
      BY <2>1
  <1>6. ReadyMem' = ReadyMem /\ SuspMem' = SuspMem /\ ReadyMem.q = readyq
    BY <1>1 DEF ReadyMem, SuspMem
  <1>7. FirstStmt(ReadyMem) \in AddStmts
    BY DEF FirstStmt, AddStmts
  <1>8. /\ creation'.at = FirstStmt(ReadyMem) /\ creation'.last = readyq.tail
        /\ creation'.new = t /\ creation'.by = curtcb
    BY <1>1, <1>2 DEF Creation
  <1>9. PendingReady' = m
    <2>1. AddRest(FirstStmt(ReadyMem), ReadyMem, t, ReadyMem.q.tail) = m
      BY <1>2, <1>4, AddRestFirst
    <2> QED
      BY <1>6, <1>7, <1>8, <2>1 DEF PendingReady
  <1>10. FirstStmt(ReadyMem) = "link" => readyq.tail \in Elems(rs)
    <2>1. FirstStmt(ReadyMem) = "link" => readyq.count > 0
      BY <1>6 DEF FirstStmt, TypeOK, Queue
    <2> QED
      BY <1>4, <1>6, <2>1 DEF Threads, Contents, Elems, QueueMem, Queue
  <1> HIDE DEF m
  <1>11. FirstStmt(ReadyMem) # "mem"
    BY <1>3, <1>7
  <1>12. status[t] = "INIT"
    BY <1>1 DEF QueueInv
  <1>13. QueueInv(us, ss)'
    BY <1>1, <1>5, <1>6, <1>8, <1>9, <1>10, <1>11, <1>12 DEF QueueInv
  <1>14. Moves(rs, us, ss, ss)
    <2>1. t \notin Elems(ss) /\ t # curtcb
      BY <1>2, <1>12 DEF QueueInv
    <2> QED
      BY <1>1, <1>2, <1>4, <1>5, <2>1 DEF Moves
  <1> QED
    BY <1>1, <1>13, <1>14

(* One statement of the interrupted enqueue: the queue it is going to be    *)
(* does not change, and the suspended queue is not touched.                 *)
LEMMA EnqueueStmtInv ==
    ASSUME TypeOK, NEW rs, NEW ss, QueueInv(rs, ss), EnqueueStmt
    PROVE  halted' = "no" /\ QueueInv(rs, ss)' /\ Moves(rs, rs, ss, ss)
  <1> DEFINE t == creation.new
             s == creation.at
             last == creation.last
             m == AddStmt(s, ReadyMem, t, last)
  <1>1. /\ halted = "no" /\ creation.by = curtcb /\ s \in AddStmts
        /\ readyq' = m.q /\ next' = m.next /\ prev' = m.prev
        /\ creation' = IF NextStmt[s] = "done" THEN NoCreation
                       ELSE [creation EXCEPT !.at = NextStmt[s]]
        /\ UNCHANGED <<curtcb, status, suspq, halted>>
    BY DEF EnqueueStmt, InCreate
  <1>2. creation \in Creation /\ t \in Tasks /\ last \in Ptr
    BY <1>1 DEF TypeOK, NoCreation, Creation, AddStmts
  <1>3. ReadyMem \in QueueMem /\ SuspMem \in QueueMem /\ m \in QueueMem
    BY <1>1, <1>2, MemTypes, AddStmtType
  <1>4. ReadyMem' = m
    BY <1>1, <1>3 DEF ReadyMem, QueueMem
  <1>5. PendingReady = AddRest(s, ReadyMem, t, last)
    BY <1>1 DEF PendingReady
  <1>6. IF NextStmt[s] = "done"
        THEN m = AddRest(s, ReadyMem, t, last)
        ELSE /\ NextStmt[s] \in AddStmts
             /\ AddRest(NextStmt[s], m, t, last) = AddRest(s, ReadyMem, t, last)
    BY <1>1, <1>2, <1>3, AddRestStep
  <1>7. /\ \A x \in Elems(ss) : x \in Tasks \ (Elems(rs) \cup {curtcb})
        /\ t \in Elems(rs)
        /\ s = "link" => last \in Elems(rs)
    BY <1>1, QueuesApart DEF QueueInv
  <1>8. \A x \in Elems(ss) : m.next[x] = next[x] /\ m.prev[x] = prev[x]
    <2>1. \A x \in Elems(ss) : x \in Ptr /\ x # t /\ (s = "link" => x # last)
      BY <1>7 DEF Ptr
    <2>2. ReadyMem.next = next /\ ReadyMem.prev = prev
          /\ next \in [Ptr -> Ptr] /\ prev \in [Ptr -> Ptr]
      BY DEF ReadyMem, TypeOK, Field
    <2> QED
      BY <2>1, <2>2 DEF AddStmt
  <1>9. Threads(SuspMem', ss)
    <2>1. SuspMem.q = suspq /\ SuspMem.next = next /\ SuspMem.prev = prev
      BY DEF SuspMem
    <2>2. Threads([q |-> SuspMem.q, next |-> m.next, prev |-> m.prev], ss)
      BY <1>3, <1>8, <2>1, ThreadsLocal DEF QueueInv
    <2> QED
      BY <1>1, <2>1, <2>2 DEF SuspMem
  <1> HIDE DEF m
  <1>10. Moves(rs, rs, ss, ss)
    BY <1>1 DEF Moves
  <1>11. CASE NextStmt[s] = "done"
    <2>1. creation' = NoCreation
      BY <1>1, <1>11
    <2>2. NoCreation.at = "none" /\ NoCreation.new = NULL /\ "none" \notin AddStmts
      BY DEF NoCreation, AddStmts
    <2>3. PendingReady' = PendingReady
      BY <1>4, <1>5, <1>6, <1>11, <2>1, <2>2 DEF PendingReady
    <2>4. QueueInv(rs, ss)'
      BY <1>1, <1>7, <1>9, <2>1, <2>2, <2>3 DEF QueueInv
    <2> QED
      BY <1>1, <1>10, <2>4
  <1>12. CASE NextStmt[s] # "done"
    <2>1. /\ creation'.at = NextStmt[s] /\ creation'.new = t
          /\ creation'.last = last /\ creation'.by = curtcb
          /\ NextStmt[s] \in AddStmts
      BY <1>1, <1>2, <1>6, <1>12 DEF Creation
    <2>2. NextStmt[s] # "link" /\ NextStmt[s] # "mem"
      BY <1>1 DEF NextStmt, AddStmts
    <2>3. PendingReady' = PendingReady
      BY <1>4, <1>5, <1>6, <1>12, <2>1 DEF PendingReady
    <2>4. QueueInv(rs, ss)'
      BY <1>1, <1>7, <1>9, <2>1, <2>2, <2>3 DEF QueueInv
    <2> QED
      BY <1>1, <1>10, <2>4
  <1> QED
    BY <1>11, <1>12

-----------------------------------------------------------------------------
(* The existential of IInv needs no bounds: Threads implies them.           *)
LEMMA IInvUnbounded ==
    IInv <=> /\ TypeOK
             /\ KernelSurvives
             /\ Sound => \E rs, ss : QueueInv(rs, ss)
  <1>1. ASSUME NEW rs, NEW ss, QueueInv(rs, ss)
        PROVE  rs \in Contents(PendingReady.q.count) /\ ss \in Contents(suspq.count)
    <2>1. SuspMem.q = suspq
      BY DEF SuspMem
    <2> QED
      BY <1>1, <2>1 DEF QueueInv, Threads
  <1> QED
    BY <1>1 DEF IInv

(* The state after boot satisfies the strengthened invariant: both queues   *)
(* are empty.                                                               *)
LEMMA IInvInit == Init => IInv
  <1> SUFFICES ASSUME Init PROVE IInv
    OBVIOUS
  <1>1. TypeOK
    BY TypeInit
  <1>2. KernelSurvives
    BY DEF Init, KernelSurvives
  <1> DEFINE none == [i \in 1 .. 0 |-> 0]
  <1>3. none \in Contents(0) /\ Elems(none) = {} /\ Injective(none)
    BY DEF Contents, Elems, Injective
  <1> HIDE DEF none
  <1>4. "none" \notin AddStmts /\ NoCreation.at = "none" /\ EmptyQueue.count = 0
    BY DEF AddStmts, NoCreation, EmptyQueue
  <1>5. PendingReady = ReadyMem /\ ReadyMem.q = EmptyQueue /\ SuspMem.q = EmptyQueue
    BY <1>4 DEF Init, PendingReady, ReadyMem, SuspMem
  <1>6. Threads(PendingReady, none) /\ Threads(SuspMem, none)
    BY <1>3, <1>4, <1>5 DEF Threads
  <1>7. QueueInv(none, none)
    BY <1>3, <1>4, <1>6, SchedulerAssumption DEF QueueInv, Init
  <1> QED
    BY <1>1, <1>2, <1>7, IInvUnbounded

(* Every step keeps both queues in order and moves tasks as a FIFO would,   *)
(* unless the step is a breach.                                             *)
LEMMA QueueStep ==
    ASSUME TypeOK, breach = {}, halted = "no", NEW rs, NEW ss, QueueInv(rs, ss),
           Next, breach' = {}
    PROVE  /\ halted' \in {"no", "TCT full"}
           /\ halted' = "no" =>
                \E us, vs : QueueInv(us, vs)' /\ Moves(rs, us, ss, vs)
  <1>1. CASE ClockTick
    <2>1. creation' = creation
      BY <1>1 DEF ClockTick
    <2>2. CASE UNCHANGED <<curtcb, status, queues, halted>>
      <3>1. QueueInv(rs, ss)'
        BY <2>1, <2>2 DEF queues, QueueInv, PendingReady, ReadyMem, SuspMem
      <3>2. Moves(rs, rs, ss, ss)
        BY <2>2 DEF Moves
      <3> QED
        BY <2>2, <3>1, <3>2
    <2>3. CASE GiveUp /\ ~ UNCHANGED <<curtcb, status, queues, halted>>
      <3>1. ~ (InCreate /\ creation.at \in AddStmts)
        BY <1>1, <2>3 DEF ClockTick
      <3>2. creation.at \notin AddStmts
        BY <3>1 DEF QueueInv, InCreate
      <3> QED
        BY <2>1, <2>3, <3>2, GiveUpInv
    <2> QED
      BY <1>1, <2>2, <2>3 DEF ClockTick
  <1>2. CASE Yield
    <2>1. creation.at \notin AddStmts /\ GiveUp /\ creation' = creation
      BY <1>2 DEF Yield, QueueInv, InCreate
    <2> QED
      BY <2>1, GiveUpInv
  <1>3. CASE \E t \in Tasks : Suspend(t)
    <2>1. PICK t \in Tasks : Suspend(t)
      BY <1>3
    <2>2. SuspendBreach(t) = {}
      BY <2>1 DEF Suspend
    <2>3. t = curtcb \/ (readyq.count > 0 /\ readyq.head = t)
      BY <2>2 DEF SuspendBreach
    <2>4. CASE t = curtcb
      BY <2>1, <2>4, SuspendSelfInv
    <2>5. CASE t # curtcb
      BY <2>1, <2>3, <2>5, SuspendHeadInv
    <2> QED
      BY <2>4, <2>5
  <1>4. CASE CreateStart
    <2> SUFFICES ASSUME halted' = "no" PROVE QueueInv(rs, ss)'
      <3>1. Moves(rs, rs, ss, ss)
        BY <1>4 DEF CreateStart, Moves
      <3> QED
        BY <1>4, <3>1 DEF CreateStart
    <2>1. PICK t \in FreeSlots :
            /\ status' = [status EXCEPT ![t] = "INIT"]
            /\ creation' = [by |-> curtcb, new |-> t, at |-> "mem", last |-> NULL]
      BY <1>4 DEF CreateStart
    <2>2. t \in Tasks /\ status[t] = "FREE" /\ creation = NoCreation
          /\ UNCHANGED <<curtcb, readyq, suspq, next, prev>>
      BY <1>4, <2>1 DEF CreateStart, FreeSlots, queues
    <2>3. "none" \notin AddStmts /\ "mem" \notin AddStmts
          /\ NoCreation.at = "none" /\ NoCreation.new = NULL
      BY DEF AddStmts, NoCreation
    <2>4. /\ creation'.at = "mem" /\ creation'.new = t
          /\ creation.at = "none" /\ creation.new = NULL
      BY <2>1, <2>2, <2>3
    <2>5. PendingReady' = PendingReady /\ SuspMem' = SuspMem
      BY <2>2, <2>3, <2>4 DEF PendingReady, ReadyMem, SuspMem
    <2>6. \A x \in Tasks : status'[x] = IF x = t THEN "INIT" ELSE status[x]
      BY <2>1, <2>2 DEF TypeOK
    <2>7. t \notin Elems(rs) /\ Elems(rs) \subseteq Tasks
      BY <2>2, QueuesApart DEF QueueInv
    <2> QED
      BY <2>2, <2>3, <2>4, <2>5, <2>6, <2>7, NullIsNoTask,
         SchedulerAssumption DEF QueueInv
  <1>5. CASE CreateFails
    <2>1. "none" \notin AddStmts /\ "mem" \notin AddStmts
          /\ NoCreation.at = "none" /\ NoCreation.new = NULL
      BY DEF AddStmts, NoCreation
    <2>2. /\ creation.at = "mem" /\ creation' = NoCreation
          /\ creation.new \notin Handlers
          /\ UNCHANGED <<curtcb, status, readyq, suspq, next, prev, halted>>
      BY <1>5 DEF CreateFails, queues
    <2>3. PendingReady' = PendingReady /\ SuspMem' = SuspMem
      BY <2>1, <2>2 DEF PendingReady, ReadyMem, SuspMem
    <2>4. QueueInv(rs, ss)'
      BY <2>1, <2>2, <2>3 DEF QueueInv
    <2>5. Moves(rs, rs, ss, ss)
      BY <2>2 DEF Moves
    <2> QED
      BY <2>2, <2>4, <2>5
  <1>6. CASE EnqueueStart
    BY <1>6, EnqueueStartInv
  <1>7. CASE EnqueueStmt
    BY <1>7, EnqueueStmtInv
  <1> QED
    BY <1>1, <1>2, <1>3, <1>4, <1>5, <1>6, <1>7 DEF Next

(* A step never repairs a breach, and a stopped machine takes no step.      *)
LEMMA SoundBefore ==
    ASSUME TypeOK, Next
    PROVE  breach \subseteq breach' /\ halted = "no"
  <1>1. CASE ClockTick
    BY <1>1 DEF ClockTick
  <1>2. CASE Yield
    BY <1>2 DEF Yield
  <1>3. ASSUME NEW t \in Tasks, Suspend(t)
        PROVE  breach \subseteq breach' /\ halted = "no"
    BY <1>3 DEF Suspend
  <1>4. CASE CreateStart
    BY <1>4 DEF CreateStart
  <1>5. CASE CreateFails
    BY <1>5 DEF CreateFails
  <1>6. CASE EnqueueStart
    BY <1>6 DEF EnqueueStart
  <1>7. CASE EnqueueStmt
    BY <1>7 DEF EnqueueStmt
  <1> QED
    BY <1>1, <1>2, <1>3, <1>4, <1>5, <1>6, <1>7 DEF Next

(* Every step of the kernel preserves the strengthened invariant.           *)
LEMMA IInvStep == IInv /\ [Next]_vars => IInv'
  <1> SUFFICES ASSUME IInv, [Next]_vars PROVE IInv'
    OBVIOUS
  <1>1. TypeOK /\ KernelSurvives /\ TypeOK'
    BY TypeStep DEF IInv
  <1>2. CASE UNCHANGED vars
    BY <1>2 DEF IInv, vars, TypeOK, KernelSurvives, Sound, QueueInv, PendingReady,
                ReadyMem, SuspMem
  <1>3. CASE Next
    <2>1. SUFFICES ASSUME breach' = {}
                   PROVE  /\ halted' \in {"no", "TCT full"}
                          /\ halted' = "no" => \E us, vs : QueueInv(us, vs)'
      <3>1. ASSUME NEW us, NEW vs, QueueInv(us, vs)'
            PROVE  /\ us \in Contents(PendingReady'.q.count)
                   /\ vs \in Contents(suspq'.count)
        <4>1. SuspMem'.q = suspq'
          BY DEF SuspMem
        <4> QED
          BY <3>1, <4>1 DEF QueueInv, Threads
      <3> QED
        BY <1>1, <3>1 DEF IInv, KernelSurvives, Sound
    <2>2. breach = {} /\ halted = "no"
      BY <1>1, <1>3, <2>1, SoundBefore
    <2>3. PICK rs, ss : QueueInv(rs, ss)
      BY <2>2 DEF IInv, Sound
    <2> QED
      BY <1>1, <1>3, <2>1, <2>2, <2>3, QueueStep
  <1> QED
    BY <1>2, <1>3

(* The strengthened invariant holds in every reachable state.               *)
THEOREM InductiveInvariant == Spec => []IInv
  BY IInvInit, IInvStep, PTL DEF Spec

-----------------------------------------------------------------------------
(* In every sound state the ready queue is a well formed list of exactly    *)
(* the tasks that wait, the suspended queue one of exactly the suspended    *)
(* tasks, one task runs, and the dispatcher always finds a task.            *)
THEOREM QueuesSound ==
    Spec => [](ReadyQueueSound /\ SuspQueueSound /\ OneRunning /\ KernelSurvives)
  <1>1. IInv => ReadyQueueSound /\ SuspQueueSound /\ OneRunning /\ KernelSurvives
    <2> SUFFICES ASSUME IInv
                 PROVE  ReadyQueueSound /\ SuspQueueSound /\ OneRunning /\ KernelSurvives
      OBVIOUS
    <2>1. CASE ~ Sound
      BY <2>1 DEF IInv, ReadyQueueSound, SuspQueueSound, OneRunning
    <2>2. CASE Sound
      <3>1. PICK rs \in Contents(PendingReady.q.count), ss \in Contents(suspq.count) :
               QueueInv(rs, ss)
        BY <2>2 DEF IInv
      <3>2. Elems(ss) = {t \in Tasks : status[t] = "SUSP"}
        <4>1. Elems(ss) \subseteq Tasks
          BY <3>1 DEF Contents, Elems
        <4> QED
          BY <3>1, <4>1 DEF QueueInv
      <3> QED
        BY <3>1, <3>2 DEF QueueInv, IInv, ReadyQueueSound, SuspQueueSound, OneRunning
    <2> QED
      BY <2>1, <2>2
  <1> QED
    BY <1>1, InductiveInvariant, PTL

(* In every sound state the suspended queue is a well formed list of the    *)
(* suspended tasks, although it shares its link fields with the ready queue.*)
THEOREM SuspendedQueued == Spec => []SuspQueueSound
  BY QueuesSound, PTL

(* Without a breach the machine only stops on a full task table: the        *)
(* dispatcher never meets an empty queue and no search is endless.          *)
THEOREM Survives == Spec => []KernelSurvives
  BY QueuesSound, PTL

(* No step takes a task out of the suspended queue: suspension is for ever. *)
THEOREM SuspensionIsForever == Spec => SuspendedForever
  <1>1. IInv /\ [Next]_vars =>
          [Sound' => \A t \in Tasks : status[t] = "SUSP" => status'[t] = "SUSP"]_vars
    <2> SUFFICES ASSUME IInv, Next, Sound', NEW t \in Tasks, status[t] = "SUSP"
                 PROVE  status'[t] = "SUSP"
      OBVIOUS
    <2>1. TypeOK /\ breach' = {} /\ halted' = "no"
      BY DEF IInv, Sound
    <2>2. breach = {} /\ halted = "no"
      BY <2>1, SoundBefore
    <2>3. PICK rs, ss : QueueInv(rs, ss)
      BY <2>2 DEF IInv, Sound
    <2>4. PICK us, vs : QueueInv(us, vs)' /\ Moves(rs, us, ss, vs)
      BY <2>1, <2>2, <2>3, QueueStep
    <2>5. t \in Elems(vs)
      BY <2>3, <2>4 DEF QueueInv, Moves
    <2> QED
      BY <2>4, <2>5 DEF QueueInv
  <1> QED
    BY <1>1, InductiveInvariant, PTL DEF Spec, SuspendedForever

-----------------------------------------------------------------------------
(* The refinement.  Reading a well formed queue off its pointers gives its  *)
(* contents: a difference would have a first index, where both took the     *)
(* same nextInQueue.                                                        *)
LEMMA WalkThreads ==
    ASSUME NEW m \in QueueMem, NEW s, Threads(m, s)
    PROVE  Walk(m) = s
  <1> DEFINE n == m.q.count
             F(f) == [i \in 1 .. n |-> IF i = 1 THEN m.q.head ELSE m.next[f[i - 1]]]
             w == CHOOSE f : f = F(f)
  <1>1. n \in Nat /\ s \in [1 .. n -> Tasks]
    BY DEF Threads, Contents, QueueMem, Queue
  <1>2. s = F(s)
    <2>1. ASSUME NEW i \in 1 .. n, i # 1 PROVE s[i] = m.next[s[i - 1]]
      <3>1. i - 1 \in 1 .. n - 1 /\ (i - 1) + 1 = i
        BY <1>1, <2>1
      <3> QED
        BY <3>1 DEF Threads
    <2>2. n > 0 => s[1] = m.q.head
      BY <1>1 DEF Threads
    <2> QED
      BY <1>1, <2>1, <2>2
  <1>3. w = F(w)
    BY <1>2
  <1>4. Walk(m) = w
    BY DEF Walk
  <1> HIDE DEF w
  <1>5. w = [i \in 1 .. n |-> w[i]]
    BY <1>3
  <1>6. \A i \in 1 .. n : w[i] = IF i = 1 THEN m.q.head ELSE m.next[w[i - 1]]
    BY <1>3
  <1>7. \A i \in 1 .. n : s[i] = IF i = 1 THEN m.q.head ELSE m.next[s[i - 1]]
    BY <1>2
  <1> DEFINE D == {i \in 1 .. n : w[i] # s[i]}
  <1>8. D = {}
    <2> SUFFICES ASSUME D # {} PROVE FALSE
      OBVIOUS
    <2>1. D \in SUBSET Nat
      BY <1>1
    <2>2. PICK i \in D : \A j \in D : i <= j
      BY <2>1, SmallestIndex
    <2>3. i \in 1 .. n /\ w[i] # s[i]
      OBVIOUS
    <2>4. CASE i = 1
      BY <1>6, <1>7, <2>3, <2>4
    <2>5. CASE i # 1
      <3>1. i - 1 \in 1 .. n /\ i - 1 \notin D
        BY <1>1, <2>2, <2>3, <2>5
      <3>2. w[i - 1] = s[i - 1]
        BY <3>1
      <3> QED
        BY <1>6, <1>7, <2>3, <2>5, <3>2
    <2> QED
      BY <2>4, <2>5
  <1> QED
    BY <1>1, <1>4, <1>5, <1>8

(* What the enqueue in progress will leave behind is a queue memory.        *)
LEMMA PendingType == TypeOK => PendingReady \in QueueMem
  <1> SUFFICES ASSUME TypeOK PROVE PendingReady \in QueueMem
    OBVIOUS
  <1>1. ReadyMem \in QueueMem
    BY MemTypes
  <1>2. CASE creation.at \notin AddStmts
    BY <1>1, <1>2 DEF PendingReady
  <1>3. CASE creation.at \in AddStmts
    <2>1. creation.new \in Tasks /\ creation.last \in Ptr
      BY <1>3 DEF TypeOK, NoCreation, Creation, AddStmts
    <2> QED
      BY <1>1, <1>3, <2>1, AddRestType DEF PendingReady
  <1> QED
    BY <1>2, <1>3

(* The same about the state after a step.                                   *)
LEMMA PendingTypeAfter == TypeOK' => (PendingReady \in QueueMem)'
  BY PendingType, PTL

(* The abstract ready queue and the abstract set of suspended tasks, in a   *)
(* sound state, are the contents of the two queues.                         *)
LEMMA AbstractQueues ==
    ASSUME TypeOK, NEW rs, NEW ss, QueueInv(rs, ss)
    PROVE  /\ Walk(PendingReady) = rs
           /\ {t \in Tasks : status[t] = "SUSP"} = Elems(ss)
  <1>1. Walk(PendingReady) = rs
    BY PendingType, WalkThreads DEF QueueInv
  <1>2. Elems(ss) \subseteq Tasks
    BY DEF QueueInv, Threads, Contents, Elems
  <1> QED
    BY <1>1, <1>2 DEF QueueInv

(* After boot INIT runs and the abstract queue is empty.                    *)
LEMMA RefinesInit == Init => Abs!Init
  <1> SUFFICES ASSUME Init PROVE Abs!Init
    OBVIOUS
  <1>1. TypeOK /\ Sound
    BY TypeInit DEF Init, Sound
  <1>2. curtcb \in Tasks
    BY <1>1 DEF TypeOK, Sound
  <1>3. {t \in Tasks : status[t] = "SUSP"} = {}
    BY DEF Init
  <1>4. "none" \notin AddStmts /\ NoCreation.at = "none" /\ EmptyQueue.count = 0
    BY DEF AddStmts, NoCreation, EmptyQueue
  <1>5. PendingReady = ReadyMem /\ ReadyMem.q = EmptyQueue
    BY <1>4 DEF Init, PendingReady, ReadyMem
  <1>6. << >> \in Contents(0) /\ Injective(<< >>)
    BY DEF Contents, Injective
  <1>7. Threads(PendingReady, << >>)
    BY <1>4, <1>5, <1>6 DEF Threads
  <1>8. Walk(PendingReady) = << >>
    BY <1>1, <1>7, PendingType, WalkThreads
  <1> QED
    BY <1>1, <1>2, <1>3, <1>8 DEF Abs!Init

(* Every step of the kernel is a step of the FIFO or leaves it alone.       *)
LEMMA RefinesNext == IInv /\ IInv' /\ [Next]_vars => [Abs!Next]_Abs!vars
  <1> SUFFICES ASSUME IInv, IInv', [Next]_vars PROVE [Abs!Next]_Abs!vars
    OBVIOUS
  <1> DEFINE SuspSet == {t \in Tasks : status[t] = "SUSP"}
             Ready == IF Sound THEN Walk(PendingReady) ELSE << >>
  <1>1. CASE UNCHANGED vars
    BY <1>1 DEF vars, Abs!vars, Sound, PendingReady, ReadyMem, Walk
  <1>2. CASE Next /\ ~ Sound'
    BY <1>2 DEF Abs!Next, Abs!Undefined
  <1>3. CASE Next /\ Sound'
    <2>1. TypeOK /\ TypeOK' /\ breach' = {} /\ halted' = "no"
      BY <1>3 DEF IInv, Sound
    <2>2. breach = {} /\ halted = "no" /\ Sound
      BY <1>3, <2>1, SoundBefore DEF Sound
    <2>3. PICK rs, ss : QueueInv(rs, ss)
      BY <2>2 DEF IInv
    <2>4. PICK us, vs : QueueInv(us, vs)' /\ Moves(rs, us, ss, vs)
      BY <1>3, <2>1, <2>2, <2>3, QueueStep
    <2>5. Ready = rs /\ SuspSet = Elems(ss)
      BY <2>1, <2>2, <2>3, AbstractQueues
    <2>6. Ready' = us /\ SuspSet' = Elems(vs)
      <3>1. PendingReady' \in QueueMem
        BY <2>1, PendingTypeAfter
      <3>2. Threads(PendingReady', us) /\ Threads(SuspMem', vs)
            /\ \A t \in Tasks : status'[t] = "SUSP" <=> t \in Elems(vs)
        BY <2>4 DEF QueueInv
      <3>3. Walk(PendingReady') = us
        BY <3>1, <3>2, WalkThreads
      <3>4. Elems(vs) \subseteq Tasks
        BY <3>2 DEF Threads, Contents, Elems
      <3> QED
        BY <1>3, <3>2, <3>3, <3>4
    <2>7. Sound' = Sound
      BY <1>3, <2>2
    <2> HIDE DEF Ready, SuspSet
    <2>8. \/ UNCHANGED <<curtcb, Ready, SuspSet>>
          \/ /\ Append(Ready, curtcb) # << >>
             /\ curtcb' = Head(Append(Ready, curtcb))
             /\ Ready' = Tail(Append(Ready, curtcb))
             /\ SuspSet' = SuspSet
          \/ /\ Ready # << >> /\ curtcb' = Head(Ready) /\ Ready' = Tail(Ready)
             /\ SuspSet' = SuspSet \cup {curtcb}
          \/ /\ Ready # << >> /\ curtcb' = curtcb /\ Ready' = Tail(Ready)
             /\ SuspSet' = SuspSet \cup {Head(Ready)}
          \/ \E t \in Tasks :
             /\ t \notin Elems(Ready) \cup SuspSet \cup {curtcb}
             /\ curtcb' = curtcb /\ Ready' = Append(Ready, t)
             /\ SuspSet' = SuspSet
      BY <2>4, <2>5, <2>6 DEF Moves
    <2>9. Elems(Ready) = Abs!Waiting
      BY DEF Elems, Abs!Waiting, Ready
    <2> QED
      BY <2>2, <2>7, <2>8, <2>9 DEF Ready, SuspSet, Abs!Next, Abs!Rotate, Abs!SuspendRunning,
         Abs!SuspendNextInLine, Abs!Arrive, Abs!Dispatch, Abs!vars
  <1> QED
    BY <1>1, <1>2, <1>3

(* The scheduler implements a FIFO dispatcher: behind the links, headers    *)
(* and counters, behind the enqueue that the clock interrupts, there is one *)
(* queue of tasks that only moves as the abstract scheduler allows, until a *)
(* breach.                                                                  *)
THEOREM RefinesFIFO == Spec => ImplementsFIFO
  <1>1. Spec => []IInv
    BY InductiveInvariant
  <1> QED
    BY <1>1, RefinesInit, RefinesNext, PTL DEF Spec, ImplementsFIFO, Abs!Spec

=============================================================================
