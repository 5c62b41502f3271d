------------------------------ MODULE Scheduler ------------------------------
(***************************************************************************)
(* The MUXX task scheduler: which task owns the processor (curtcb), the    *)
(* ready and suspended queues, and the four places that move tasks between *)
(* them: the line clock (muxx_clock_svc.c), the yield and suspend services *)
(* (muxx_systrap_svc.c) and task creation (muxx_creprc.c).                 *)
(*                                                                         *)
(* There is one processor.  Code that runs after setpl7() is not           *)
(* interrupted, so the clock handler, yield and suspend are single steps.  *)
(* creprc/loadprc run at priority 0: the clock may expire the quantum      *)
(* between any two of their statements and dispatch somebody else, which   *)
(* is legal because every task has a kernel stack of its own.              *)
(*                                                                         *)
(* The history variable breach records that one of the three situations    *)
(* the queue code does not survive has occurred:                           *)
(*   "torn"     the quantum expired inside creprc's call of qAddTask;      *)
(*   "middle"   suspend was asked to remove a task that is queued, but not *)
(*              at the head of the ready queue;                            *)
(*   "unqueued" suspend was asked for a task that neither runs nor is      *)
(*              ready.                                                     *)
(***************************************************************************)
EXTENDS TaskQueue, FiniteSets

CONSTANTS
    CLK_QUANTUM, \* clock ticks per quantum (h/CONFIG.s)
    Handlers,    \* the slots of the driver handler tasks: they yield forever
    OperPrv,     \* the slots of tasks created with TSK_OPERPRV
    OthersToo    \* do programs suspend tasks other than themselves?

ASSUME SchedulerAssumption ==
    /\ CLK_QUANTUM \in Nat \ {0}
    /\ Handlers \subseteq Tasks \ {0}
    /\ Handlers # {}
    /\ OperPrv \subseteq Tasks
    /\ OthersToo \in BOOLEAN

VARIABLES
    curtcb,       \* the running task
    status,       \* TCB.status of every slot; "FREE" is a slot with pid 0
    readyq,       \* header of the ready queue
    suspq,        \* header of the suspended queue
    next,         \* TCB.nextInQueue
    prev,         \* TCB.prevInQueue
    clkcountdown, \* ticks left in the quantum
    creation,     \* the creprc call in progress: caller, new task, statement
    halted,       \* "no", or why the machine stopped
    breach        \* history: what the queue code was exposed to

vars == <<curtcb, status, readyq, suspq, next, prev, clkcountdown, creation,
          halted, breach>>
queues == <<readyq, suspq, next, prev>>

INIT == 0                                     \* slot of the INIT task
Status == {"FREE", "INIT", "READY", "RUN", "SUSP"}
Breaches == {"torn", "middle", "unqueued"}
HaltReasons == {"no", "TCT full", "null task", "endless search"}

NoCreation == [by |-> NULL, new |-> NULL, at |-> "none", last |-> NULL]
Creation == [by : Tasks, new : Tasks, at : {"mem"} \cup AddStmts, last : Ptr]

ReadyMem == [q |-> readyq, next |-> next, prev |-> prev]
SuspMem  == [q |-> suspq,  next |-> next, prev |-> prev]

(* muxx_taskinit.c leaves the uic of a new task 0; fakeproc gives INIT 1.   *)
uic(t) == IF t = INIT THEN 1 ELSE 0

-----------------------------------------------------------------------------
(* After muxx_fakeproc and muxx_switch: INIT runs, both queues are empty.   *)
Init ==
    /\ curtcb = INIT
    /\ status = [t \in Tasks |-> IF t = INIT THEN "RUN" ELSE "FREE"]
    /\ readyq = EmptyQueue
    /\ suspq = EmptyQueue
    /\ next = [t \in Ptr |-> NULL]
    /\ prev = [t \in Ptr |-> NULL]
    /\ clkcountdown = CLK_QUANTUM
    /\ creation = NoCreation
    /\ halted = "no"
    /\ breach = {}

(* muxx_schedule on the queue memory m with the statuses st: take the head  *)
(* of the ready queue, make it current, muxx_switch sets its status.  On an *)
(* empty queue curtcb becomes NULL and the switch runs through low memory.  *)
muxx_schedule(m, st) ==
    LET g == qGetTask(m)
    IN  /\ curtcb' = g.task
        /\ readyq' = g.mem.q
        /\ next' = g.mem.next
        /\ prev' = g.mem.prev
        /\ IF g.task = NULL
           THEN status' = st /\ halted' = "null task"
           ELSE status' = [st EXCEPT ![g.task] = "RUN"] /\ halted' = halted

(* Mutant of GiveUp: the running task is not queued.                        *)
GiveUp_NotQueued ==
    /\ muxx_schedule(ReadyMem, [status EXCEPT ![curtcb] = "READY"])
    /\ UNCHANGED suspq

(* muxx_yield followed by muxx_schedule: the running task goes to the tail. *)
GiveUp ==
    /\ muxx_schedule(qAddTask(ReadyMem, curtcb),
                     [status EXCEPT ![curtcb] = "READY"])
    /\ UNCHANGED suspq

(* The running task is inside creprc.                                       *)
InCreate == creation.by = curtcb

-----------------------------------------------------------------------------
(* Mutant of ClockTick: the quantum ends one tick late.                     *)
ClockTick_Late ==
    /\ halted = "no"
    /\ IF clkcountdown > 0
       THEN /\ clkcountdown' = clkcountdown - 1
            /\ UNCHANGED <<curtcb, status, queues, halted, breach>>
       ELSE /\ clkcountdown' = CLK_QUANTUM
            /\ IF readyq.count > 0
               THEN GiveUp /\ UNCHANGED breach
               ELSE UNCHANGED <<curtcb, status, queues, halted, breach>>
    /\ UNCHANGED creation

(* Mutant of ClockTick: the end of the quantum does not yield.              *)
ClockTick_NoYield ==
    /\ halted = "no"
    /\ clkcountdown' = IF clkcountdown > 1 THEN clkcountdown - 1
                                           ELSE CLK_QUANTUM
    /\ UNCHANGED <<curtcb, status, queues, halted, breach, creation>>

(* muxx_clock_handler.  When the quantum is over and somebody is ready the  *)
(* interrupted task is queued and the head dispatched, wherever the         *)
(* interrupted task was.                                                    *)
ClockTick ==
    /\ halted = "no"
    /\ IF clkcountdown > 1
       THEN /\ clkcountdown' = clkcountdown - 1
            /\ UNCHANGED <<curtcb, status, queues, halted, breach>>
       ELSE /\ clkcountdown' = CLK_QUANTUM
            /\ IF readyq.count > 0
               THEN /\ GiveUp
                    /\ breach' = IF InCreate /\ creation.at \in AddStmts
                                 THEN breach \cup {"torn"} ELSE breach
               ELSE UNCHANGED <<curtcb, status, queues, halted, breach>>
    /\ UNCHANGED creation

(* muxx_svc_yield.                                                          *)
Yield ==
    /\ halted = "no"
    /\ ~InCreate
    /\ GiveUp
    /\ UNCHANGED <<clkcountdown, creation, breach>>

-----------------------------------------------------------------------------
(* When programs suspend: sys/init.s, sys/startup.c and shell/rshell.c      *)
(* suspend themselves, and do so after INIT has started the handlers, which *)
(* never suspend; nobody suspends a handler.  With OthersToo a program also *)
(* passes the TCB of another task, as the SUSPEND macro allows.             *)
HandlersUp == \A h \in Handlers : status[h] # "FREE" /\ creation.new # h

MaySuspend(t) ==
    /\ HandlersUp
    /\ curtcb \notin Handlers
    /\ t \notin Handlers
    /\ t # curtcb => /\ OthersToo
                     /\ status[t] # "FREE"
                     /\ curtcb \in OperPrv \/ uic(curtcb) = uic(t)

(* What asking for t exposes the queue code to.                             *)
SuspendBreach(t) ==
    IF t = curtcb \/ (readyq.count > 0 /\ readyq.head = t) THEN {}
    ELSE IF readyq.count > 0 /\ Visits(ReadyMem, t, t) THEN {"middle"}
    ELSE {"unqueued"}

(* The suspended queue never needs more than one entry per task; the bound  *)
(* only stops a task from being suspended again and again.                  *)
SuspBound == suspq.count < MAX_TASKS

(* Mutant of Suspend: t is taken out of the ready queue but not added to    *)
(* the suspended queue.                                                     *)
Suspend_NotQueued(t) ==
    LET removed == qRemoveTask(ReadyMem, t)
        st      == [status EXCEPT ![t] = "SUSP"]
    IN  /\ halted = "no"
        /\ ~InCreate
        /\ MaySuspend(t)
        /\ breach' = breach \cup SuspendBreach(t)
        /\ SearchEnds(ReadyMem, t)
        /\ IF t = curtcb
           THEN muxx_schedule(removed, st)
           ELSE /\ readyq' = removed.q
                /\ next' = removed.next
                /\ prev' = removed.prev
                /\ status' = st
                /\ UNCHANGED <<curtcb, halted>>
        /\ UNCHANGED <<suspq, clkcountdown, creation>>

(* Mutant of Suspend: asked for a suspended task, it awakes it.             *)
Suspend_Awakes(t) ==
    LET from(q, to) ==
            LET removed == qRemoveTask([ReadyMem EXCEPT !.q = q], t)
            IN  [left |-> removed.q,
                 mem  |-> qAddTask([removed EXCEPT !.q = to], t)]
        susp == from(readyq, suspq)
        wake == from(suspq, readyq)
    IN  /\ halted = "no"
        /\ ~InCreate
        /\ MaySuspend(t)
        /\ SuspBound
        /\ \/ /\ t = curtcb
              /\ suspq' = susp.mem.q
              /\ muxx_schedule([susp.mem EXCEPT !.q = susp.left],
                               [status EXCEPT ![t] = "SUSP"])
           \/ /\ status[t] = "SUSP"
              /\ suspq' = wake.left
              /\ readyq' = wake.mem.q
              /\ next' = wake.mem.next
              /\ prev' = wake.mem.prev
              /\ status' = [status EXCEPT ![t] = "READY"]
              /\ UNCHANGED <<curtcb, halted>>
        /\ UNCHANGED <<clkcountdown, creation, breach>>

(* muxx_svc_suspend(t): take t out of the ready queue if it is there, put   *)
(* it in the suspended queue, and dispatch if t was running.                *)
Suspend(t) ==
    LET removed == qRemoveTask(ReadyMem, t)
        added   == qAddTask([removed EXCEPT !.q = suspq], t)
        left    == [added EXCEPT !.q = removed.q]
        st      == [status EXCEPT ![t] = "SUSP"]
    IN  /\ halted = "no"
        /\ ~InCreate
        /\ MaySuspend(t)
        /\ SuspBound
        /\ breach' = breach \cup SuspendBreach(t)
        /\ IF ~SearchEnds(ReadyMem, t)
           THEN /\ halted' = "endless search"
                /\ UNCHANGED <<curtcb, status, queues>>
           ELSE /\ suspq' = added.q
                /\ IF t = curtcb
                   THEN muxx_schedule(left, st)
                   ELSE /\ readyq' = left.q
                        /\ next' = left.next
                        /\ prev' = left.prev
                        /\ status' = st
                        /\ UNCHANGED <<curtcb, halted>>
        /\ UNCHANGED <<clkcountdown, creation>>

-----------------------------------------------------------------------------
(* Task creation.  sys/init.s and sys/startup.c never create concurrently   *)
(* (INIT's last creation is STARTUP, after which it only suspends), so at   *)
(* most one call is in progress; handlers create nothing.                   *)
FreeSlots == {t \in Tasks \ {INIT} : status[t] = "FREE"}

(* muxx_taskinit as called by creprc and loadprc: the first free slot       *)
(* becomes a task in state INIT; a full table is a panic.                   *)
CreateStart ==
    /\ halted = "no"
    /\ creation = NoCreation
    /\ curtcb \notin Handlers
    /\ \/ \E t \in FreeSlots :
            /\ \A u \in FreeSlots : t <= u
            /\ status' = [status EXCEPT ![t] = "INIT"]
            /\ creation' = [by |-> curtcb, new |-> t, at |-> "mem", last |-> NULL]
            /\ halted' = halted
       \/ /\ FreeSlots = {}
          /\ halted' = "TCT full"
          /\ UNCHANGED <<status, creation>>
    /\ UNCHANGED <<curtcb, queues, clkcountdown, breach>>

(* muxx_setup_taskmem failed: creprc returns -1 and forgets the slot.  The  *)
(* handlers are the first tasks created and their memory never fails.       *)
CreateFails ==
    /\ halted = "no"
    /\ InCreate
    /\ creation.at = "mem"
    /\ creation.new \notin Handlers
    /\ creation' = NoCreation
    /\ UNCHANGED <<curtcb, status, queues, clkcountdown, halted, breach>>

(* muxx_setup_taskmem (and loadprc's xcopy) succeeded: qAddTask is entered, *)
(* which reads the count and the tail.                                      *)
EnqueueStart ==
    /\ halted = "no"
    /\ InCreate
    /\ creation.at = "mem"
    /\ creation' = [creation EXCEPT !.at = FirstStmt(ReadyMem),
                                    !.last = readyq.tail]
    /\ UNCHANGED <<curtcb, status, queues, clkcountdown, halted, breach>>

(* One assignment of qAddTask(readyq, newTask), interrupts enabled.         *)
EnqueueStmt ==
    LET m == AddStmt(creation.at, ReadyMem, creation.new, creation.last)
        s == NextStmt[creation.at]
    IN  /\ halted = "no"
        /\ InCreate
        /\ creation.at \in AddStmts
        /\ readyq' = m.q
        /\ next' = m.next
        /\ prev' = m.prev
        /\ creation' = IF s = "done" THEN NoCreation
                                     ELSE [creation EXCEPT !.at = s]
        /\ UNCHANGED <<curtcb, status, suspq, clkcountdown, halted, breach>>

-----------------------------------------------------------------------------
Next ==
    \/ ClockTick
    \/ Yield
    \/ \E t \in Tasks : Suspend(t)
    \/ CreateStart
    \/ CreateFails
    \/ EnqueueStart
    \/ EnqueueStmt

Spec == Init /\ [][Next]_vars

(* The line clock ticks forever, and a task that is given the processor     *)
(* again and again executes its kernel code: a quantum lasts CLK_QUANTUM    *)
(* ticks, many instructions.                                                *)
KernelStep == EnqueueStart \/ EnqueueStmt

Fairness == WF_vars(ClockTick) /\ SF_vars(KernelStep \/ CreateFails)

LiveSpec == Spec /\ Fairness

-----------------------------------------------------------------------------
(* Properties.  Sound: nothing the queue code does not survive has          *)
(* happened, and the machine runs.                                          *)
Sound == breach = {} /\ halted = "no"

(* The ready queue as it will be when the enqueue in progress completes.    *)
PendingReady ==
    IF creation.at \in AddStmts
    THEN AddRest(creation.at, ReadyMem, creation.new, creation.last)
    ELSE ReadyMem

(* Type invariant: links and queue headers point to slots or nowhere, the   *)
(* counters stay in range, whatever the clock interrupts.                   *)
TypeOK ==
    /\ curtcb \in Ptr
    /\ status \in [Tasks -> Status]
    /\ readyq \in Queue
    /\ suspq \in Queue
    /\ next \in Field
    /\ prev \in Field
    /\ clkcountdown \in 1 .. CLK_QUANTUM
    /\ creation \in Creation \cup {NoCreation}
    /\ halted \in HaltReasons
    /\ halted = "no" => curtcb \in Tasks
    /\ breach \subseteq Breaches

(* One processor: in a sound state the running task is the only one whose   *)
(* status is RUN (muxx_switch.s sets it, yield, suspend and the clock clear *)
(* it).                                                                     *)
OneRunning ==
    Sound => \A t \in Tasks : status[t] = "RUN" <=> t = curtcb

(* The ready queue is a well formed list of exactly the tasks that wait for *)
(* the processor: every READY task, and new tasks in state INIT.  The count,*)
(* both ends and both directions of the links agree, also while creprc's    *)
(* enqueue is half done.                                                    *)
ReadyQueueSound ==
    Sound => \E s \in Contents(PendingReady.q.count) :
        /\ Threads(PendingReady, s)
        /\ \A t \in Tasks : status[t] = "READY" => t \in Elems(s)
        /\ \A t \in Elems(s) : status[t] \in {"READY", "INIT"}

(* The suspended queue is a well formed list of exactly the suspended tasks.*)
SuspQueueSound ==
    Sound => \E s \in Contents(suspq.count) :
        /\ Threads(SuspMem, s)
        /\ Elems(s) = {t \in Tasks : status[t] = "SUSP"}

(* The kernel survives: the dispatcher never finds the ready queue empty    *)
(* (muxx_schedule would switch to a null TCB), because the handler tasks    *)
(* are always there, and no search of qRemoveTask runs forever at IPL 7.    *)
KernelSurvives == breach = {} => halted \in {"no", "TCT full"}

(* A suspended task is never dispatched again (SRV_AWAKE is not             *)
(* implemented): no yield, no tick and no creation takes it out of the      *)
(* suspended queue.                                                         *)
SuspendedForever ==
    [][ Sound' => \A t \in Tasks : status[t] = "SUSP" => status'[t] = "SUSP" ]_vars

(* Round robin does not starve: a task that waits for the processor gets    *)
(* it, unless it is suspended, or the machine stops or is no longer sound.  *)
NoStarvation ==
    \A t \in Tasks : (status[t] = "READY")
        ~> (status[t] \in {"RUN", "SUSP"} \/ ~Sound)

(* A task whose enqueue began runs eventually, although its creator may be  *)
(* preempted before and after.                                              *)
NewTaskRuns ==
    \A t \in Tasks : (creation.new = t /\ creation.at \in AddStmts)
        ~> (status[t] \in {"RUN", "SUSP"} \/ ~Sound)

(* The inductive strengthening of the invariants above.  rs and ss are the  *)
(* contents of the two queues.  Beyond the invariants it says that a task   *)
(* under creation is not queued before its enqueue begins, that a half done *)
(* enqueue belongs to the running task (otherwise the quantum tore it), and *)
(* that every handler that was created runs or waits.                       *)
QueueInv(rs, ss) ==
    /\ Threads(PendingReady, rs)
    /\ Threads(SuspMem, ss)
    /\ \A t \in Tasks : status[t] = "RUN" <=> t = curtcb
    /\ \A t \in Tasks : status[t] = "READY" => t \in Elems(rs)
    /\ \A t \in Elems(rs) : status[t] \in {"READY", "INIT"}
    /\ \A t \in Tasks : status[t] = "SUSP" <=> t \in Elems(ss)
    /\ creation.at = "mem" => /\ status[creation.new] = "INIT"
                              /\ creation.new \notin Elems(rs)
    /\ creation.at \in AddStmts => /\ creation.by = curtcb
                                   /\ creation.new \in Elems(rs)
    /\ creation.at = "link" => creation.last \in Elems(rs)
    /\ \A h \in Handlers : status[h] # "FREE" /\ creation.new # h
                            => status[h] = "RUN" \/ h \in Elems(rs)

IInv ==
    /\ TypeOK
    /\ KernelSurvives
    /\ Sound => \E rs \in Contents(PendingReady.q.count),
                  ss \in Contents(suspq.count) : QueueInv(rs, ss)

-----------------------------------------------------------------------------
(* Statements of the repository that the code does not meet.                *)

(* muxx_schedule.c ends in panic("Switch didn't switch"): there is always a *)
(* task to switch to.                                                       *)
AlwaysATask == halted # "null task"

=============================================================================
