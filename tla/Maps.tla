-------------------------------- MODULE Maps --------------------------------
(***************************************************************************)
(* The memory maps: the user and kernel page registers of the MMU, their   *)
(* copies in the TCBs, and the three things that move access rights        *)
(* between them: muxx_switch loads all of them, yield and suspend store    *)
(* all of them (copyMMUstate), the clock stores none, and the protmem      *)
(* service changes one page in the TCB and in the MMU, statement by        *)
(* statement, at priority 0.                                               *)
(*                                                                         *)
(* Page addresses (PARs) are set once, by task creation (TaskCreate); here *)
(* a map is the access field of the PDRs.  Which ready task is dispatched  *)
(* is left open (Scheduler says which).                                    *)
(*                                                                         *)
(* The history variable breach records the uses of protmem that the code   *)
(* does not survive: "other", a task changed the page of another task;     *)
(* "kernel", a page was changed that kernel mode itself needs.  Two calls  *)
(* can only race for a page when one of them is an "other".                *)
(***************************************************************************)
EXTENDS Integers

CONSTANTS
    Tasks,        \* the tasks
    InitTask,     \* the one of them that muxx_fakeproc builds
    OperPrv,      \* those with the privilege operprv
    Pages,        \* the pages modelled, of 0 .. 7
    Prots,        \* the access fields that programs ask for, valid or not
    OthersToo     \* do programs ask for pages of other tasks?

RW == 6           \* PDR_ACC_RW, PDR_ACC_RO, PDR_ACC_NA
RO == 2
NA == 0
Access == {RW, RO, NA}
InitIO == 4       \* the access field of 0x7F04, which is none of the three

ASSUME MapsAssumption ==
    /\ OperPrv \subseteq Tasks
    /\ InitTask \in OperPrv
    /\ Pages \subseteq 0 .. 7
    /\ Prots \subseteq 0 .. 7
    /\ OthersToo \in BOOLEAN

VARIABLES
    curtcb,   \* the running task
    ready,    \* the tasks that wait for the processor
    mmu,      \* the page registers: upd (user) and kpd (kernel)
    tcb,      \* TCB.mmuState of every task
    call,     \* the protmem call every task is inside
    asked,    \* history: the last access every task was given for a page
    breach    \* history: what protmem was used for

vars == <<curtcb, ready, mmu, tcb, call, asked, breach>>

Map == [upd : [Pages -> Access \cup {InitIO}], kpd : [Pages -> Access]]

NoCall == [at |-> "none"]
Stmts == {"mask", "set", "user", "save", "kernel"}
Call == [at : Stmts, of : Tasks, page : Pages, prot : Access]

(* Kernel mode executes from pages 0 to 2, has its stack in page 6 and      *)
(* reaches the PSW and the page registers through page 7.                   *)
KernelPages == {0, 1, 2, 6, 7}

(* muxx_setup_taskmem: kernel mode may do everything; user mode may not     *)
(* write the shared pages nor see the I/O page without a privilege.  The    *)
(* tasks are big ones (pages 3 to 5), without TSK_IOPRV and TSK_AUDITPRV.   *)
TaskMap(t) ==
    [upd |-> [p \in Pages |->
                IF p <= 2 THEN (IF t \in OperPrv THEN RW ELSE RO)
                ELSE IF p = 7 THEN (IF t \in OperPrv THEN RW ELSE NA)
                ELSE RW],
     kpd |-> [p \in Pages |-> RW]]

(* muxx_fakeproc: INIT has no private pages (3 to 5), and its user PDR of   *)
(* the I/O page is 0x7F04.                                                  *)
InitMap ==
    [upd |-> [p \in Pages |->
                IF p \in 3 .. 5 THEN NA ELSE IF p = 7 THEN InitIO ELSE RW],
     kpd |-> [p \in Pages |-> IF p \in 3 .. 5 THEN NA ELSE RW]]

FirstMap(t) == IF t = InitTask THEN InitMap ELSE TaskMap(t)

Init ==
    /\ curtcb \in Tasks
    /\ ready = Tasks \ {curtcb}
    /\ tcb = [t \in Tasks |-> FirstMap(t)]
    /\ mmu = FirstMap(curtcb)
    /\ call = [t \in Tasks |-> NoCall]
    /\ asked = [t \in Tasks |-> FirstMap(t).upd]
    /\ breach = {}

-----------------------------------------------------------------------------
(* muxx_switch to t.                                                        *)
Switch(t) == curtcb' = t /\ mmu' = tcb'[t]

(* The clock: the interrupted task's map is not stored.                     *)
ClockSwitch(t) ==
    /\ t \in ready
    /\ ready' = (ready \cup {curtcb}) \ {t}
    /\ UNCHANGED <<tcb, call, asked, breach>>
    /\ Switch(t)

(* Mutant of copyMMUstate: the kernel PDRs are copied from the user PDRs.   *)
copyMMUstate_User ==
    tcb' = [tcb EXCEPT ![curtcb] = [upd |-> mmu.upd, kpd |-> mmu.upd]]

copyMMUstate == tcb' = [tcb EXCEPT ![curtcb] = mmu]

(* Yield stores the map and queues the task; suspend stores it and does not *)
(* queue the task.                                                          *)
Yield(t) ==
    /\ call[curtcb] = NoCall
    /\ t \in ready \cup {curtcb}
    /\ ready' = (ready \cup {curtcb}) \ {t}
    /\ copyMMUstate
    /\ UNCHANGED <<call, asked, breach>>
    /\ Switch(t)

Suspend(t) ==
    /\ call[curtcb] = NoCall
    /\ t \in ready
    /\ ready' = ready \ {t}
    /\ copyMMUstate
    /\ UNCHANGED <<call, asked, breach>>
    /\ Switch(t)

-----------------------------------------------------------------------------
(* What a call exposes the code to.                                         *)
Exposes(t, p) ==
    (IF t # curtcb THEN {"other"} ELSE {})
        \cup (IF p \in KernelPages THEN {"kernel"} ELSE {})

(* Mutant of Protmem: the access is not validated.                          *)
Protmem_AnyProt(t, p, prot) ==
    /\ call[curtcb] = NoCall
    /\ t # curtcb => OthersToo /\ curtcb \in OperPrv
    /\ p <= 2 => curtcb \in OperPrv
    /\ call' = [call EXCEPT ![curtcb] = [at |-> "mask", of |-> t, page |-> p,
                                         prot |-> prot]]
    /\ breach' = breach \cup Exposes(t, p)
    /\ UNCHANGED <<curtcb, ready, mmu, tcb, asked>>

(* muxx_svc_protmem up to its first store.  Pages of another task and the   *)
(* shared pages need the privilege; every other call returns an error and   *)
(* changes nothing.                                                         *)
Protmem(t, p, prot) ==
    /\ call[curtcb] = NoCall
    /\ prot \in Access
    /\ t # curtcb => OthersToo /\ curtcb \in OperPrv
    /\ p <= 2 => curtcb \in OperPrv
    /\ call' = [call EXCEPT ![curtcb] = [at |-> "mask", of |-> t, page |-> p,
                                         prot |-> prot]]
    /\ breach' = breach \cup Exposes(t, p)
    /\ UNCHANGED <<curtcb, ready, mmu, tcb, asked>>

(* The bitwise or of two access fields.                                     *)
Or(a, b) ==
    LET Bit(k) == IF (a \div k) % 2 = 1 \/ (b \div k) % 2 = 1 THEN k ELSE 0
    IN  Bit(1) + Bit(2) + Bit(4)

(* Mutant of MaskTcb: the old access is not cleared.                        *)
MaskTcb_Not(c) ==
    /\ c.at = "mask"
    /\ call' = [call EXCEPT ![curtcb].at = "set"]
    /\ UNCHANGED <<tcb, mmu, asked>>

(* The user PDR: its access field is cleared and set in the TCB of the      *)
(* task, then the whole register is copied to the MMU, whoever runs.        *)
MaskTcb(c) ==
    /\ c.at = "mask"
    /\ tcb' = [tcb EXCEPT ![c.of].upd[c.page] = NA]
    /\ call' = [call EXCEPT ![curtcb].at = "set"]
    /\ UNCHANGED <<mmu, asked>>

SetTcb(c) ==
    /\ c.at = "set"
    /\ tcb' = [tcb EXCEPT ![c.of].upd[c.page] = Or(@, c.prot)]
    /\ asked' = [asked EXCEPT ![c.of][c.page] = c.prot]
    /\ call' = [call EXCEPT ![curtcb].at = "user"]
    /\ UNCHANGED mmu

(* Mutant of SetUser: the MMU is not told.                                  *)
SetUser_OnlyTcb(c) ==
    /\ c.at = "user"
    /\ UNCHANGED <<tcb, mmu, asked>>
    /\ call' = [call EXCEPT ![curtcb].at = "save"]

SetUser(c) ==
    /\ c.at = "user"
    /\ mmu' = [mmu EXCEPT !.upd[c.page] = tcb[c.of].upd[c.page]]
    /\ call' = [call EXCEPT ![curtcb].at = "save"]
    /\ UNCHANGED <<tcb, asked>>

(* The kernel PDR becomes a copy of the user PDR, in the TCB and in the MMU.*)
SaveKernel(c) ==
    /\ c.at = "save"
    /\ tcb' = [tcb EXCEPT ![c.of].kpd[c.page] = tcb[c.of].upd[c.page]]
    /\ call' = [call EXCEPT ![curtcb].at = "kernel"]
    /\ UNCHANGED <<mmu, asked>>

SetKernel(c) ==
    /\ c.at = "kernel"
    /\ mmu' = [mmu EXCEPT !.kpd[c.page] = tcb[c.of].upd[c.page]]
    /\ call' = [call EXCEPT ![curtcb] = NoCall]
    /\ UNCHANGED <<tcb, asked>>

ProtmemStmt ==
    LET c == call[curtcb]
    IN  /\ c # NoCall
        /\ \/ MaskTcb(c) \/ SetTcb(c) \/ SetUser(c)
           \/ SaveKernel(c) \/ SetKernel(c)
        /\ UNCHANGED <<curtcb, ready, breach>>

Next ==
    \/ \E t \in Tasks : ClockSwitch(t) \/ Yield(t) \/ Suspend(t)
    \/ \E t \in Tasks, p \in Pages, prot \in Prots : Protmem(t, p, prot)
    \/ ProtmemStmt

Spec == Init /\ [][Next]_vars

-----------------------------------------------------------------------------
(* The user PDR that muxx_fakeproc gives another access than protmem would. *)
OfInit(t, p) == t = InitTask /\ p = 7

(* Type invariant: every page register, in the MMU and in every TCB, holds  *)
(* one of the three access values protmem accepts; the other one, of INIT's *)
(* user PDR of page 7, is in the MMU only while INIT runs, and yield and    *)
(* protmem copy it to no kernel PDR and to no other task or page.           *)
TypeOK ==
    /\ curtcb \in Tasks
    /\ ready \subseteq Tasks \ {curtcb}
    /\ mmu \in Map
    /\ tcb \in [Tasks -> Map]
    /\ call \in [Tasks -> Call \cup {NoCall}]
    /\ asked \in [Tasks -> [Pages -> Access \cup {InitIO}]]
    /\ breach \subseteq {"other", "kernel"}
    /\ \A p \in Pages : mmu.upd[p] = InitIO => OfInit(curtcb, p)
    /\ \A t \in Tasks, p \in Pages : tcb[t].upd[p] = InitIO => OfInit(t, p)

(* Some protmem call on page p of task t is between its stores.             *)
Changing(t, p) ==
    \E u \in Tasks : call[u] # NoCall /\ call[u].of = t /\ call[u].page = p

(* The running task runs on its own map: the MMU agrees with its TCB in     *)
(* every page it is not itself changing, although the clock switches        *)
(* without storing the map and yield stores whatever the MMU holds.         *)
RunsOnOwnMap ==
    "other" \notin breach =>
        \A p \in Pages : ~Changing(curtcb, p) =>
            /\ mmu.upd[p] = tcb[curtcb].upd[p]
            /\ mmu.kpd[p] = tcb[curtcb].kpd[p]

(* A page has the access that was last granted for it, in the TCB and, when *)
(* the task runs, in the MMU, however the call was interrupted.             *)
AccessAsAsked ==
    "other" \notin breach =>
        \A t \in Tasks, p \in Pages : ~Changing(t, p) =>
            /\ tcb[t].upd[p] = asked[t][p]
            /\ t = curtcb => mmu.upd[p] = asked[t][p]

(* Kernel mode keeps the pages it executes from, its stack and the device   *)
(* registers, in the map of whoever is dispatched next.                     *)
KernelMapped ==
    "kernel" \notin breach =>
        \A p \in Pages \cap KernelPages :
            /\ mmu.kpd[p] = RW
            /\ \A t \in Tasks : tcb[t].kpd[p] = RW

=============================================================================
