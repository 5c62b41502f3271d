------------------------------- MODULE Context -------------------------------
(***************************************************************************)
(* Saving and restoring the processor: what the trap and clock entries     *)
(* push (MACLIB.s traphandle), what copytrapfp stores in the TCB and what  *)
(* muxx_switch loads back, on top of the Scheduler: every Scheduler action *)
(* that runs in the kernel is conjoined here with what it does to the      *)
(* registers and to the kernel stacks.                                     *)
(*                                                                         *)
(* A register holds a tag instead of a value: whose it is, of which mode,  *)
(* and a version bit that the owner's every step flips.  lo stands for R0  *)
(* and R1, hi for R2 to R5.  A kernel stack is a sequence of two kinds of  *)
(* items: the PC and PSW the hardware pushes, and the registers traphandle *)
(* pushes.  Parameters and C frames above them are abandoned or popped     *)
(* before anything below is used.                                          *)
(***************************************************************************)
EXTENDS Scheduler, Sequences

VARIABLES
    cpu,     \* the registers: lo, hi, pc, mode and the user stack pointer
    stack,   \* the kernel stack of every task, the top last
    tcb,     \* TCB.cpuState of every task; ksp is a height of its stack
    svc,     \* the system service every task is inside
    caller   \* history: the registers with which it called that service

cpuvars == <<cpu, stack, tcb, svc, caller>>
cvars == <<vars, cpuvars>>

Services == {"none", "yield", "suspend", "create"}
Tag(t, m, v) == [of |-> t, mode |-> m, v |-> v]
Zero == [of |-> NULL, mode |-> "kernel", v |-> 0]     \* a cleared register
Garbage == [of |-> NULL, mode |-> "kernel", v |-> 1]  \* above the stack's top

(* TCB.cpuState as muxx_taskinit and muxx_fakeproc fill it: user mode, both *)
(* stacks empty.  A slot is used once: its registers are still zero.        *)
NewTcb(t) == [lo |-> Zero, hi |-> Zero, pc |-> Tag(t, "user", 0),
              mode |-> "user", usp |-> Tag(t, "user", 0), ksp |-> 0]

NoCall == [lo |-> Zero, hi |-> Zero, pc |-> Zero, mode |-> "user",
           usp |-> Zero]

CInit ==
    /\ Init
    /\ cpu = [lo |-> Zero, hi |-> Zero, pc |-> Tag(INIT, "user", 0),
              mode |-> "user", usp |-> Tag(INIT, "user", 0)]
    /\ stack = [t \in Tasks |-> << >>]
    /\ tcb = [t \in Tasks |-> NewTcb(t)]
    /\ svc = [t \in Tasks |-> "none"]
    /\ caller = [t \in Tasks |-> NoCall]

-----------------------------------------------------------------------------
(* The hardware pushes PC and PSW; traphandle pushes R0 to R5, or zeroes in *)
(* the places of R0 and R1 for a system trap (saveall=no).                  *)
Push(saveall) ==
    stack[curtcb] \o << [pc |-> cpu.pc, mode |-> cpu.mode],
                        [lo |-> IF saveall THEN cpu.lo ELSE Zero,
                         hi |-> cpu.hi] >>

(* copytrapfp(fp) on the stack s of the running task: the registers at      *)
(* height fp, the PC and PSW below them, where the stack is left (at the    *)
(* PC), and the user stack pointer.                                         *)
copytrapfp(s, fp) ==
    [lo |-> s[fp].lo, hi |-> s[fp].hi, pc |-> s[fp - 1].pc,
     mode |-> s[fp - 1].mode, usp |-> cpu.usp, ksp |-> fp - 1]

(* Mutant of SwitchTo: the PC and PSW stay on the stack.                    *)
SwitchTo_NoPop(b, s, st) ==
    LET top == IF st # "INIT" /\ b.ksp \in DOMAIN s THEN s[b.ksp] ELSE b
    IN  [lo |-> b.lo, hi |-> b.hi, pc |-> top.pc, mode |-> top.mode,
         usp |-> b.usp, stk |-> SubSeq(s, 1, b.ksp)]

(* muxx_switch to a task with saved state b, kernel stack s and status st:  *)
(* the registers from the TCB; PC and PSW popped from the stack, where the  *)
(* switch itself has pushed them from the TCB if the task never ran.        *)
SwitchTo(b, s, st) ==
    LET top == IF st = "INIT" THEN b
               ELSE IF b.ksp \in DOMAIN s THEN s[b.ksp]
               ELSE [pc |-> Garbage, mode |-> "user"]
    IN  [lo |-> b.lo, hi |-> b.hi, pc |-> top.pc, mode |-> top.mode,
         usp |-> b.usp,
         stk |-> SubSeq(s, 1, IF st = "INIT" THEN b.ksp ELSE b.ksp - 1)]

Live(r) == [lo |-> r.lo, hi |-> r.hi, pc |-> r.pc, mode |-> r.mode,
            usp |-> r.usp]

(* The running task is saved with stack s from the frame at height fp, and  *)
(* the task the Scheduler made current is switched to.  If there is none,   *)
(* the machine has stopped.                                                 *)
SaveAndSwitch(s, fp) ==
    LET b  == [tcb EXCEPT ![curtcb] = copytrapfp(s, fp)]
        s1 == [stack EXCEPT ![curtcb] = s]
        st == IF curtcb' = curtcb THEN "READY" ELSE status[curtcb']
        r  == SwitchTo(b[curtcb'], s1[curtcb'], st)
    IN  /\ tcb' = b
        /\ IF curtcb' = NULL
           THEN cpu' = cpu /\ stack' = s1
           ELSE cpu' = Live(r) /\ stack' = [s1 EXCEPT ![curtcb'] = r.stk]

(* One step of the running task: all its registers change, the user stack   *)
(* pointer only in user mode.                                               *)
Execute ==
    LET w == Tag(curtcb, cpu.mode, 1 - cpu.pc.v)
    IN  cpu' = [lo |-> w, hi |-> w, pc |-> w, mode |-> cpu.mode,
                usp |-> IF cpu.mode = "user" THEN w ELSE cpu.usp]

(* The running task leaves its service.                                     *)
Leave ==
    /\ svc' = [svc EXCEPT ![curtcb] = "none"]
    /\ caller' = [caller EXCEPT ![curtcb] = NoCall]

(* Mutant of ServiceReturn: R2 to R5 are not pulled.                        *)
ServiceReturn_NoPull ==
    /\ cpu' = [lo |-> cpu.lo, hi |-> cpu.hi, pc |-> stack[curtcb][1].pc,
               mode |-> stack[curtcb][1].mode, usp |-> cpu.usp]
    /\ stack' = [stack EXCEPT ![curtcb] = << >>]
    /\ Leave

(* The end of muxx_trap: R2 to R5 are pulled, R0 and R1 are the service's   *)
(* result, rtt pops PC and PSW.                                             *)
ServiceReturn ==
    /\ cpu' = [lo |-> cpu.lo, hi |-> stack[curtcb][2].hi,
               pc |-> stack[curtcb][1].pc, mode |-> stack[curtcb][1].mode,
               usp |-> cpu.usp]
    /\ stack' = [stack EXCEPT ![curtcb] = << >>]
    /\ Leave

-----------------------------------------------------------------------------
(* A step of the program in user mode.                                      *)
UserStep ==
    /\ halted = "no"
    /\ svc[curtcb] = "none"
    /\ Execute
    /\ UNCHANGED <<vars, stack, tcb, svc, caller>>

(* Which services programs ask for (see Scheduler): one creation at a time, *)
(* none by a handler.                                                       *)
Asks(s) ==
    /\ s = "create" => /\ curtcb \notin Handlers
                       /\ creation = NoCreation
                       /\ \A t \in Tasks : svc[t] # "create"
    /\ s = "suspend" => \E t \in Tasks : MaySuspend(t)

(* The trap instruction and muxx_trap: kernel mode, priority 0.             *)
Trap(s) ==
    /\ halted = "no"
    /\ svc[curtcb] = "none"
    /\ Asks(s)
    /\ stack' = [stack EXCEPT ![curtcb] = Push(FALSE)]
    /\ LET w == Tag(curtcb, "kernel", 0)
       IN  cpu' = [lo |-> w, hi |-> w, pc |-> w, mode |-> "kernel",
                   usp |-> cpu.usp]
    /\ svc' = [svc EXCEPT ![curtcb] = s]
    /\ caller' = [caller EXCEPT ![curtcb] = cpu]
    /\ UNCHANGED <<vars, tcb>>

(* Mutant of Clock: R0 and R1 are not pushed, as for a system trap.         *)
Clock_NotAll ==
    /\ ClockTick
    /\ IF clkcountdown = 1 /\ readyq.count > 0
       THEN SaveAndSwitch(Push(FALSE), Len(stack[curtcb]) + 2)
       ELSE UNCHANGED <<cpu, stack, tcb>>
    /\ UNCHANGED <<svc, caller>>

(* The clock interrupt.  It saves and switches when the Scheduler gives the *)
(* processor away; otherwise it pulls everything it pushed.                 *)
Clock ==
    /\ ClockTick
    /\ IF clkcountdown = 1 /\ readyq.count > 0
       THEN SaveAndSwitch(Push(TRUE), Len(stack[curtcb]) + 2)
       ELSE UNCHANGED <<cpu, stack, tcb>>
    /\ UNCHANGED <<svc, caller>>

(* muxx_svc_yield and muxx_svc_suspend save the frame of their own trap: a  *)
(* yield returns when the task is dispatched again, with EOK.               *)
YieldSvc ==
    /\ halted = "no"
    /\ svc[curtcb] = "yield"
    /\ Yield
    /\ SaveAndSwitch(stack[curtcb], 2)
    /\ Leave

SuspendSvc(t) ==
    /\ halted = "no"
    /\ svc[curtcb] = "suspend"
    /\ Suspend(t)
    /\ IF halted' = "endless search"
       THEN UNCHANGED cpuvars
       ELSE IF t = curtcb
       THEN SaveAndSwitch(stack[curtcb], 2) /\ Leave
       ELSE ServiceReturn /\ UNCHANGED tcb

(* creprc and loadprc run with the clock between any two statements.        *)
CreateSvc ==
    /\ halted = "no"
    /\ svc[curtcb] = "create"
    /\ \/ /\ CreateStart
          /\ Execute
          /\ tcb' = IF creation' = NoCreation THEN tcb
                    ELSE [tcb EXCEPT ![creation'.new] = NewTcb(creation'.new)]
          /\ UNCHANGED <<stack, svc, caller>>
       \/ /\ EnqueueStart \/ (EnqueueStmt /\ creation' # NoCreation)
          /\ Execute
          /\ UNCHANGED <<stack, svc, tcb, caller>>
       \/ /\ CreateFails \/ (EnqueueStmt /\ creation' = NoCreation)
          /\ ServiceReturn
          /\ UNCHANGED tcb

CNext ==
    \/ UserStep
    \/ \E s \in Services \ {"none"} : Trap(s)
    \/ Clock
    \/ YieldSvc
    \/ \E t \in Tasks : SuspendSvc(t)
    \/ CreateSvc

CSpec == CInit /\ [][CNext]_cvars

-----------------------------------------------------------------------------
(* The processor as task t sees it: the registers if t runs, else what the  *)
(* switch to it would load.                                                 *)
Virtual(t) ==
    IF t = curtcb
    THEN [lo |-> cpu.lo, hi |-> cpu.hi, pc |-> cpu.pc, mode |-> cpu.mode,
          usp |-> cpu.usp, stk |-> stack[t]]
    ELSE SwitchTo(tcb[t], stack[t], status[t])

(* muxx_svc_suspend overwrites TSK_INIT, the one mark by which muxx_switch  *)
(* knows that a task has never run and that its PC is not on its stack.  A  *)
(* task suspended before its first dispatch could not be started any more.  *)
SuspendedUnrun(t) == status[t] = "INIT" /\ status'[t] = "SUSP"

(* Every task has a processor of its own: no step of another task, no tick  *)
(* of the clock and no dispatch changes a register, a stack pointer or the  *)
(* kernel stack as the task sees them, wherever the task was interrupted.   *)
(* The one exception, a task suspended before it ever ran, is harmless only *)
(* because a suspended task is never dispatched (SuspendedForever).         *)
ContextPreserved ==
    [][ Sound' => \A t \in Tasks :
          (/\ status[t] # "FREE"
           /\ t # curtcb \/ Clock
           /\ ~SuspendedUnrun(t))
              => Virtual(t)' = Virtual(t) ]_cvars

(* A service returns where it was called from: in user mode, with R2 to R5  *)
(* and the user stack pointer of the call, and with nothing left on the     *)
(* kernel stack.  A yield or suspend returns EOK.                           *)
ServiceReturns ==
    [][ Sound' => \A t \in Tasks :
          (svc[t] # "none" /\ svc'[t] = "none")
              => /\ Virtual(t)'.hi = caller[t].hi
                 /\ Virtual(t)'.pc = caller[t].pc
                 /\ Virtual(t)'.usp = caller[t].usp
                 /\ Virtual(t)'.mode = "user"
                 /\ Virtual(t)'.stk = << >>
                 /\ svc[t] = "yield" => Virtual(t)'.lo = Zero ]_cvars

(* The kernel stack (1 KB) never holds more than the frame of a service and *)
(* the frame of a clock interrupt inside it, and a task in user mode has    *)
(* nothing on it.                                                           *)
StackBounded ==
    Sound => \A t \in Tasks :
        /\ Len(stack[t]) <= 4
        /\ Virtual(t).mode = "user" => Virtual(t).stk = << >>

=============================================================================
