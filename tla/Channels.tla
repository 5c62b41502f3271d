------------------------------- MODULE Channels -------------------------------
(***************************************************************************)
(* Devices and channels: the driver table (muxx_drvctl.c), the table of    *)
(* I/O entries (muxx_channels.c) with the descriptors of the tasks         *)
(* (lib_openclose.c), read and write (muxx_readwrite_svc.c), and the two   *)
(* system mutexes that guard them (muxx_svc_mutex).                        *)
(*                                                                         *)
(* System services run at priority 0, so the clock may take the processor  *)
(* away between any two statements (action Preempt).  A task is its call   *)
(* frame: the service, the statement it stands at, the device, the I/O     *)
(* entry and whether all went well so far (rc = EOK).  One step is one     *)
(* access to state that other tasks reach without holding the same mutex.  *)
(*                                                                         *)
(* A refused mutex operation returns ELOCKED without restoring the         *)
(* priority: the rest of the service then runs masked, at IPL 7.           *)
(*                                                                         *)
(* The history variable breach records what programs did that the code     *)
(* does not defend against:                                                *)
(*   "foreign"  a task deallocated a device that another task owned;       *)
(*   "open"     a task deallocated its own device, or closed the channel   *)
(*              that had allocated it, with a channel still open on it.    *)
(***************************************************************************)
EXTENDS Integers, FiniteSets

CONSTANTS
    Tasks,        \* the tasks; their pids in the mutex cells
    Drivers,      \* the device drivers
    Shareable,    \* the drivers whose descriptor says shareable
    OperPrv,      \* the tasks created with TSK_OPERPRV
    UserLocks,    \* the system mutexes that programs lock themselves
    IOT_SENTRIES, \* entries of the I/O table (h/CONFIG.s)
    IOT_TENTRIES, \* descriptors of a task (h/CONFIG.s)
    NULL          \* the null pointer; pid 0 in a mutex cell

Mutexes == {"DRV", "CHAN"}        \* MUT_DRV and MUT_CHAN
Entries == 1 .. IOT_SENTRIES
Table   == 1 .. IOT_TENTRIES       \* TUCB.iote
Fds     == 1 .. IOT_TENTRIES + 1   \* what close takes: its test is fd > IOT_TENTRIES

ASSUME ChannelsAssumption ==
    /\ Tasks # {}
    /\ Shareable \subseteq Drivers
    /\ OperPrv \subseteq Tasks
    /\ UserLocks \subseteq Mutexes
    /\ IOT_SENTRIES \in Nat
    /\ IOT_TENTRIES \in Nat
    /\ NULL \notin Tasks \cup Drivers \cup Entries \cup Fds

VARIABLES
    curtcb,   \* the running task
    masked,   \* it runs at IPL 7
    mutex,    \* muxx_mutexes: who holds each mutex
    drv,      \* the driver control blocks
    iote,     \* the I/O table
    fds,      \* TUCB.iote of every task, and the word that follows it
    store,    \* the store into TUCB.iote that open or close has yet to make
    call,     \* the service each task executes
    halted,   \* "no", or the panic that stopped the machine
    breach    \* history: what programs did

vars == <<curtcb, masked, mutex, drv, iote, fds, store, call, halted, breach>>

Driver == [free : BOOLEAN, active : BOOLEAN, alloc : BOOLEAN,
           ownerid : Tasks \cup {NULL}]
Entry  == [driver : Drivers \cup {NULL}, open : BOOLEAN, dealloc : BOOLEAN]

(* Statements of muxx_svc_open, of muxx_svc_close, of muxx_svc_alloc, and   *)
(* the transfer loop of read and write.                                     *)
OpenAt  == {"find", "locate", "active", "avail", "owner", "mark"}
CloseAt == {"test", "clear"}
AllocAt == {"lock", "check", "own", "set", "disown", "reset", "free", "back"}

Services == {"none", "open", "close", "alloc", "dealloc", "transfer"}

Call == [svc : Services,
         at  : OpenAt \cup CloseAt \cup AllocAt \cup {"user", "unlock", "io"},
         dev : Drivers \cup {NULL},
         io  : Entries \cup {NULL},
         fd  : Table \cup {NULL},
         ok  : BOOLEAN]

(* A task in user mode.                                                     *)
UserMode == [svc |-> "none", at |-> "user", dev |-> NULL, io |-> NULL,
             fd |-> NULL, ok |-> TRUE]

(* A descriptor and the entry to store in it.                               *)
Store == [fd : Table \cup {NULL}, io : Entries \cup {NULL}]
Nothing == [fd |-> NULL, io |-> NULL]

(* The panics of open and close, and what has no name in the code: a        *)
(* service follows a word that is not the address of an I/O entry.          *)
DeallocPanics == {"muxx_svc_open: dealloc mutex",
                  "muxx_svc_close: dealloc mutex"}
Halts == {"no", "muxx_svc_close", "wild channel"} \cup DeallocPanics

-----------------------------------------------------------------------------
(* muxx_drvinit and muxx_iottinit over zeroed memory.                       *)
Init ==
    /\ curtcb \in Tasks
    /\ masked = FALSE
    /\ mutex = [m \in Mutexes |-> NULL]
    /\ drv = [d \in Drivers |-> [free |-> TRUE, active |-> FALSE,
                                 alloc |-> FALSE, ownerid |-> NULL]]
    /\ iote = [i \in Entries |-> [driver |-> NULL, open |-> FALSE,
                                  dealloc |-> FALSE]]
    /\ fds = [p \in Tasks |-> [f \in Fds |-> NULL]]
    /\ store = [p \in Tasks |-> Nothing]
    /\ call = [p \in Tasks |-> UserMode]
    /\ halted = "no"
    /\ breach = {}

Cur == call[curtcb]

(* The running task stands at statement l; "user" is user mode with no      *)
(* store of open or close to make.                                          *)
At(l) == halted = "no" /\ Cur.at = l /\ store[curtcb].fd = NULL

Goto(l)  == call' = [call EXCEPT ![curtcb].at = l]
Fail(l)  == call' = [call EXCEPT ![curtcb].at = l, ![curtcb].ok = FALSE]
Enter(s, l, d, i, f) ==
    call' = [call EXCEPT ![curtcb] = [svc |-> s, at |-> l, dev |-> d,
                                      io |-> i, fd |-> f, ok |-> TRUE]]

(* rtt: back in user mode, with the priority of user mode.                  *)
Return == call' = [call EXCEPT ![curtcb] = UserMode] /\ masked' = FALSE

(* Mutant of MutexAlloc: the cell is not tested.                            *)
MutexAlloc_Blind(m) == mutex' = [mutex EXCEPT ![m] = curtcb]

(* muxx_svc_mutex.  MUT_ALLOC takes a free mutex, MUT_DEALLOC gives back a  *)
(* mutex whose cell holds the caller's pid; the cell is otherwise left.     *)
CanAlloc(m) == mutex[m] = NULL
CanDealloc(m) == mutex[m] = curtcb
MutexAlloc(m) == CanAlloc(m) /\ mutex' = [mutex EXCEPT ![m] = curtcb]
MutexDealloc(m) == CanDealloc(m) /\ mutex' = [mutex EXCEPT ![m] = NULL]

(* The clock takes the processor from the running task, wherever it stands. *)
Preempt(p) ==
    /\ halted = "no"
    /\ ~masked
    /\ p # curtcb
    /\ curtcb' = p
    /\ UNCHANGED <<masked, mutex, drv, iote, fds, store, call, halted, breach>>

-----------------------------------------------------------------------------
(* A program calls the MUTEX service itself.                                *)
UserMutexAlloc(m) ==
    /\ At("user")
    /\ m \in UserLocks
    /\ MutexAlloc(m)
    /\ UNCHANGED <<curtcb, masked, drv, iote, fds, store, call, halted, breach>>

UserMutexDealloc(m) ==
    /\ At("user")
    /\ m \in UserLocks
    /\ MutexDealloc(m)
    /\ UNCHANGED <<curtcb, masked, drv, iote, fds, store, call, halted, breach>>

(* muxx_svc_drvreg.  A driver stands for its slot of the table.  The search *)
(* for a free slot and the store in it are one step: INIT, the only task    *)
(* that registers drivers, registers them one after the other.              *)
DrvReg(d) ==
    /\ At("user")
    /\ curtcb \in OperPrv
    /\ drv[d].free
    /\ drv' = [drv EXCEPT ![d].free = FALSE]
    /\ UNCHANGED <<curtcb, masked, mutex, iote, fds, store, call, halted, breach>>

(* muxx_svc_drvstart; no driver implements the stop callback, so            *)
(* muxx_svc_drvstop changes nothing.                                        *)
DrvStart(d) ==
    /\ At("user")
    /\ curtcb \in OperPrv
    /\ ~drv[d].free
    /\ drv' = [drv EXCEPT ![d].active = TRUE]
    /\ UNCHANGED <<curtcb, masked, mutex, iote, fds, store, call, halted, breach>>

-----------------------------------------------------------------------------
(* muxx_svc_alloc: allocate or deallocate the device for the current task,  *)
(* called by programs, by open and by close.                                *)
AllocCall(d, s) ==
    /\ At("user")
    /\ ~drv[d].free
    /\ Enter(s, "lock", d, NULL, NULL)
    /\ UNCHANGED <<curtcb, masked, mutex, drv, iote, fds, store, halted, breach>>

AllocLock ==
    /\ At("lock")
    /\ \/ /\ MutexAlloc("DRV")
          /\ Goto("check")
          /\ UNCHANGED masked
       \/ /\ ~CanAlloc("DRV")
          /\ Fail("back")
          /\ masked' = TRUE
          /\ UNCHANGED mutex
    /\ UNCHANGED <<curtcb, drv, iote, fds, store, halted, breach>>

(* The channels of every task: its descriptors, with the store that open or *)
(* close will have made before the task runs another statement.             *)
chan == [p \in Tasks |->
            IF store[p].fd = NULL THEN fds[p]
            ELSE [fds[p] EXCEPT ![store[p].fd] = store[p].io]]

(* The entries on device d that task p has open, other than the one a close *)
(* in progress is about to clear.                                           *)
OpenOn(p, d) ==
    {i \in Entries : /\ iote[i].driver = d
                     /\ iote[i].open
                     /\ \E f \in Fds : chan[p][f] = i
                     /\ ~(call[p].svc = "close" /\ call[p].io = i)}

DeallocBreach(d) ==
    IF drv[d].ownerid # curtcb THEN {"foreign"}
    ELSE IF OpenOn(curtcb, d) # {} THEN {"open"}
    ELSE {}

(* Mutant of AllocCheck: || for && in the test of owner and privilege.      *)
AllocCheck_Or ==
    LET d == Cur.dev
    IN  /\ At("check")
        /\ IF Cur.svc \in {"open", "alloc"}
           THEN /\ IF drv[d].alloc THEN Fail("free") ELSE Goto("own")
                /\ UNCHANGED breach
           ELSE IF drv[d].alloc
           THEN /\ IF drv[d].ownerid # curtcb \/ curtcb \in OperPrv
                   THEN Fail("disown") ELSE Goto("disown")
                /\ breach' = breach \cup DeallocBreach(d)
           ELSE Fail("free") /\ UNCHANGED breach
        /\ UNCHANGED <<curtcb, masked, mutex, drv, iote, fds, store, halted>>

(* The tests of flags.alloc.  Deallocating, a privileged caller that is not *)
(* the owner gets ENOPRIV, but the device is released all the same.         *)
AllocCheck ==
    LET d == Cur.dev
    IN  /\ At("check")
        /\ \/ /\ Cur.svc \in {"open", "alloc"}
              /\ IF drv[d].alloc THEN Fail("free") ELSE Goto("own")
              /\ UNCHANGED breach
           \/ /\ Cur.svc \in {"close", "dealloc"}
              /\ IF drv[d].alloc
                 THEN /\ IF drv[d].ownerid # curtcb /\ curtcb \in OperPrv
                         THEN Fail("disown") ELSE Goto("disown")
                      /\ breach' = breach \cup DeallocBreach(d)
                 ELSE Fail("free") /\ UNCHANGED breach
        /\ UNCHANGED <<curtcb, masked, mutex, drv, iote, fds, store, halted>>

(* Mutant of SetOwner: deallocation leaves the owner.                       *)
SetOwner_Keeps ==
    /\ \/ /\ At("own")
          /\ drv' = [drv EXCEPT ![Cur.dev].ownerid = curtcb]
          /\ Goto("set")
       \/ /\ At("disown")
          /\ UNCHANGED drv
          /\ Goto("reset")
    /\ UNCHANGED <<curtcb, masked, mutex, iote, fds, store, halted, breach>>

(* ownerid is stored first, flags.alloc second.                             *)
SetOwner ==
    /\ \/ /\ At("own")
          /\ drv' = [drv EXCEPT ![Cur.dev].ownerid = curtcb]
          /\ Goto("set")
       \/ /\ At("disown")
          /\ drv' = [drv EXCEPT ![Cur.dev].ownerid = NULL]
          /\ Goto("reset")
    /\ UNCHANGED <<curtcb, masked, mutex, iote, fds, store, halted, breach>>

SetAlloc ==
    /\ \/ /\ At("set")
          /\ drv' = [drv EXCEPT ![Cur.dev].alloc = TRUE]
       \/ /\ At("reset")
          /\ drv' = [drv EXCEPT ![Cur.dev].alloc = FALSE]
    /\ Goto("free")
    /\ UNCHANGED <<curtcb, masked, mutex, iote, fds, store, halted, breach>>

(* Mutant of AllocFree: the mutex is not given back.                        *)
AllocFree_Keeps ==
    /\ At("free")
    /\ Goto("back")
    /\ UNCHANGED <<curtcb, masked, mutex, drv, iote, fds, store, halted, breach>>

(* The result of giving the mutex back is ignored.                          *)
AllocFree ==
    /\ At("free")
    /\ IF CanDealloc("DRV")
       THEN MutexDealloc("DRV") /\ UNCHANGED masked
       ELSE masked' = TRUE /\ UNCHANGED mutex
    /\ Goto("back")
    /\ UNCHANGED <<curtcb, drv, iote, fds, store, halted, breach>>

(* muxx_svc_alloc returns: to the program, to open, or to close, which does *)
(* not survive an error.                                                    *)
AllocReturn ==
    /\ At("back")
    /\ \/ /\ Cur.svc \in {"alloc", "dealloc"}
          /\ Return
          /\ UNCHANGED <<iote, halted>>
       \/ /\ Cur.svc = "open"
          /\ IF Cur.ok
             THEN /\ iote' = [iote EXCEPT ![Cur.io].dealloc = TRUE]
                  /\ Goto("mark")
             ELSE Goto("unlock") /\ UNCHANGED iote
          /\ UNCHANGED <<masked, halted>>
       \/ /\ Cur.svc = "close"
          /\ Cur.ok
          /\ Goto("clear")
          /\ UNCHANGED <<masked, iote, halted>>
       \/ /\ Cur.svc = "close"
          /\ ~Cur.ok
          /\ halted' = "muxx_svc_close"
          /\ UNCHANGED <<masked, call, iote>>
    /\ UNCHANGED <<curtcb, mutex, drv, fds, store, breach>>

-----------------------------------------------------------------------------
(* The panic of open and of close when MUT_CHAN cannot be given back.       *)
ChanPanic(s) ==
    halted' = IF s = "open" THEN "muxx_svc_open: dealloc mutex"
                            ELSE "muxx_svc_close: dealloc mutex"

(* The first and the last statement of open and of close: lock MUT_CHAN,    *)
(* unlock MUT_CHAN or panic.  When the lock is refused the unlock follows   *)
(* at once: it panics if another task holds the mutex, and takes the mutex  *)
(* away from a caller that had locked it itself.                            *)
ChanLock(s, l, d, i, f) ==
    /\ \/ /\ MutexAlloc("CHAN")
          /\ Enter(s, l, d, i, f)
          /\ UNCHANGED halted
       \/ /\ ~CanAlloc("CHAN")
          /\ MutexDealloc("CHAN")
          /\ UNCHANGED <<call, halted>>
       \/ /\ ~CanAlloc("CHAN")
          /\ ~CanDealloc("CHAN")
          /\ ChanPanic(s)
          /\ UNCHANGED <<mutex, call>>
    /\ UNCHANGED <<curtcb, masked, drv, iote, fds, store, breach>>

(* Mutant of FreeFds: the search runs one past the table.                   *)
FreeFds_OnePast == {f \in Fds : fds[curtcb][f] = NULL}

FreeFds == {f \in Table : fds[curtcb][f] = NULL}

(* open of lib_openclose.c picks the first free descriptor, if there is     *)
(* one, and enters muxx_svc_open.                                           *)
OpenCall(d) ==
    /\ At("user")
    /\ \E f \in FreeFds :
          /\ \A g \in FreeFds : f <= g
          /\ ChanLock("open", "find", d, NULL, f)

(* Mutant of OpenFind: the search looks at the wrong flag.                  *)
OpenFind_WrongFlag ==
    LET Free == {i \in Entries : ~iote[i].dealloc}
    IN  /\ At("find")
        /\ IF Free = {}
           THEN Fail("unlock")
           ELSE \E i \in Free :
                  /\ \A j \in Free : i <= j
                  /\ call' = [call EXCEPT ![curtcb].at = "locate",
                                         ![curtcb].io = i]
        /\ UNCHANGED <<curtcb, masked, mutex, drv, iote, fds, store, halted, breach>>

(* muxx_find_free_iote: the first entry without a driver.                   *)
OpenFind ==
    LET Free == {i \in Entries : iote[i].driver = NULL}
    IN  /\ At("find")
        /\ IF Free = {}
           THEN Fail("unlock")
           ELSE \E i \in Free :
                  /\ \A j \in Free : i <= j
                  /\ call' = [call EXCEPT ![curtcb].at = "locate",
                                         ![curtcb].io = i]
        /\ UNCHANGED <<curtcb, masked, mutex, drv, iote, fds, store, halted, breach>>

(* muxx_locate_dev: the entry points to the driver, or ENOTFOUND.           *)
OpenLocate ==
    /\ At("locate")
    /\ IF drv[Cur.dev].free
       THEN Fail("unlock") /\ UNCHANGED iote
       ELSE /\ iote' = [iote EXCEPT ![Cur.io].driver = Cur.dev]
            /\ Goto("active")
    /\ UNCHANGED <<curtcb, masked, mutex, drv, fds, store, halted, breach>>

(* An inactive driver is EOFFLINE; otherwise the status word is cleared.    *)
(* The entry keeps its driver on every failure from here on.                *)
OpenActive ==
    /\ At("active")
    /\ IF drv[Cur.dev].active
       THEN /\ iote' = [iote EXCEPT ![Cur.io].open = FALSE,
                                    ![Cur.io].dealloc = FALSE]
            /\ Goto(IF Cur.dev \in Shareable THEN "mark" ELSE "avail")
       ELSE Fail("unlock") /\ UNCHANGED iote
    /\ UNCHANGED <<curtcb, masked, mutex, drv, fds, store, halted, breach>>

(* A device nobody owns is allocated; one that somebody owns must be ours.  *)
OpenAvail ==
    /\ At("avail")
    /\ Goto(IF drv[Cur.dev].alloc THEN "owner" ELSE "lock")
    /\ UNCHANGED <<curtcb, masked, mutex, drv, iote, fds, store, halted, breach>>

(* Mutant of OpenOwner: the owner is not compared.                          *)
OpenOwner_Anyone ==
    /\ At("owner")
    /\ Goto("mark")
    /\ UNCHANGED <<curtcb, masked, mutex, drv, iote, fds, store, halted, breach>>

OpenOwner ==
    /\ At("owner")
    /\ IF drv[Cur.dev].ownerid = curtcb THEN Goto("mark") ELSE Fail("unlock")
    /\ UNCHANGED <<curtcb, masked, mutex, drv, iote, fds, store, halted, breach>>

OpenMark ==
    /\ At("mark")
    /\ iote' = [iote EXCEPT ![Cur.io].open = TRUE]
    /\ Goto("unlock")
    /\ UNCHANGED <<curtcb, masked, mutex, drv, fds, store, halted, breach>>

(* close of lib_openclose.c and the entry of muxx_svc_close.  It takes the  *)
(* word past the table for a descriptor too.  A null one is ENOTOPEN.       *)
CloseCall(f) ==
    /\ At("user")
    /\ fds[curtcb][f] # NULL
    /\ ChanLock("close", "test", NULL, fds[curtcb][f], f)

(* An entry that is not open is ENOTOPEN; one that allocated its device     *)
(* deallocates it first.                                                    *)
CloseTest ==
    LET e == iote[Cur.io]
    IN  /\ At("test")
        /\ \/ ~e.open /\ Fail("unlock")
           \/ e.open /\ ~e.dealloc /\ Goto("clear")
           \/ /\ e.open
              /\ e.dealloc
              /\ call' = [call EXCEPT ![curtcb].at = "lock",
                                     ![curtcb].dev = e.driver]
        /\ UNCHANGED <<curtcb, masked, mutex, drv, iote, fds, store, halted, breach>>

CloseClear ==
    /\ At("clear")
    /\ iote' = [iote EXCEPT ![Cur.io].open = FALSE, ![Cur.io].driver = NULL]
    /\ Goto("unlock")
    /\ UNCHANGED <<curtcb, masked, mutex, drv, fds, store, halted, breach>>

(* Mutant of ChanUnlock: the descriptor is stored after an error too.       *)
ChanUnlock_NoTest ==
    /\ At("unlock")
    /\ MutexDealloc("CHAN")
    /\ Return
    /\ store' = [store EXCEPT ![curtcb] =
                    [fd |-> Cur.fd,
                     io |-> IF Cur.svc = "open" THEN Cur.io ELSE NULL]]
    /\ UNCHANGED <<curtcb, drv, iote, fds, halted, breach>>

(* MUT_CHAN is given back, and the service returns to open or close, which  *)
(* without an error has a descriptor to store: the entry, or null.          *)
ChanUnlock ==
    /\ At("unlock")
    /\ IF CanDealloc("CHAN")
       THEN /\ MutexDealloc("CHAN")
            /\ Return
            /\ store' = IF Cur.ok
                        THEN [store EXCEPT ![curtcb] =
                                [fd |-> Cur.fd,
                                 io |-> IF Cur.svc = "open" THEN Cur.io
                                                            ELSE NULL]]
                        ELSE store
            /\ UNCHANGED halted
       ELSE /\ ChanPanic(Cur.svc)
            /\ UNCHANGED <<masked, mutex, store, call>>
    /\ UNCHANGED <<curtcb, drv, iote, fds, breach>>

(* open and close store the descriptor, in user mode.  Until then the word  *)
(* after a close names an entry that another task may have opened meanwhile.*)
StoreFd ==
    /\ halted = "no"
    /\ Cur.at = "user"
    /\ store[curtcb].fd # NULL
    /\ fds' = [fds EXCEPT ![curtcb][store[curtcb].fd] = store[curtcb].io]
    /\ store' = [store EXCEPT ![curtcb] = Nothing]
    /\ UNCHANGED <<curtcb, masked, mutex, drv, iote, call, halted, breach>>

-----------------------------------------------------------------------------
(* muxx_svc_read and muxx_svc_write: on an open channel a loop of driver    *)
(* calls, one byte each, without any lock.  (The eof and ioerror flags it   *)
(* leaves are read nowhere.)  A descriptor is taken as it is: a null one is *)
(* an entry at address 0, which nobody has written, and its words decide    *)
(* whether it is ENOTOPEN or the kernel calls whatever they point to.       *)
Leads(f) == fds[curtcb][f] # NULL /\ iote[fds[curtcb][f]].open

TransferCall(f) ==
    /\ At("user")
    /\ IF Leads(f)
       THEN /\ Enter("transfer", "io", iote[fds[curtcb][f]].driver,
                     fds[curtcb][f], f)
            /\ UNCHANGED halted
       ELSE /\ halted' \in IF fds[curtcb][f] = NULL THEN {"no", "wild channel"}
                           ELSE {"no"}
            /\ UNCHANGED call
    /\ UNCHANGED <<curtcb, masked, mutex, drv, iote, fds, store, breach>>

TransferReturn ==
    /\ At("io")
    /\ Return
    /\ UNCHANGED <<curtcb, mutex, drv, iote, fds, store, halted, breach>>

-----------------------------------------------------------------------------
(* A program runs: it starts a service, or open or close ends.              *)
UserStep ==
    \/ \E m \in Mutexes : UserMutexAlloc(m) \/ UserMutexDealloc(m)
    \/ \E d \in Drivers :
          \/ DrvReg(d)
          \/ DrvStart(d)
          \/ AllocCall(d, "alloc")
          \/ AllocCall(d, "dealloc")
          \/ OpenCall(d)
    \/ \E f \in Fds : CloseCall(f) \/ TransferCall(f)
    \/ StoreFd

(* The kernel executes the running task's service.                          *)
KernelStep ==
    \/ AllocLock  \/ AllocCheck \/ SetOwner   \/ SetAlloc  \/ AllocFree
    \/ AllocReturn
    \/ OpenFind   \/ OpenLocate \/ OpenActive \/ OpenAvail \/ OpenOwner
    \/ OpenMark
    \/ CloseTest  \/ CloseClear
    \/ ChanUnlock \/ TransferReturn

Next ==
    \/ \E p \in Tasks : Preempt(p)
    \/ UserStep
    \/ KernelStep

Spec == Init /\ [][Next]_vars

-----------------------------------------------------------------------------
(* Type invariant: every index and pointer of a frame, a descriptor, an     *)
(* entry or a driver stays inside its table.  The word that close reads one *)
(* past TUCB.iote is null in every task, so it is never given to a service. *)
TypeOK ==
    /\ curtcb \in Tasks
    /\ masked \in BOOLEAN
    /\ mutex \in [Mutexes -> Tasks \cup {NULL}]
    /\ drv \in [Drivers -> Driver]
    /\ iote \in [Entries -> Entry]
    /\ fds \in [Tasks -> [Fds -> Entries \cup {NULL}]]
    /\ \A p \in Tasks : \A f \in Fds \ Table : fds[p][f] = NULL
    /\ store \in [Tasks -> Store]
    /\ call \in [Tasks -> Call]
    /\ halted \in Halts
    /\ breach \subseteq {"foreign", "open"}

(* The tasks inside the code that MUT_CHAN guards (open and close after the *)
(* lock), and inside the code that MUT_DRV guards.                          *)
InChan == {p \in Tasks : call[p].svc \in {"open", "close"}}
InDrv  == {p \in Tasks : call[p].at \in AllocAt \ {"lock", "back"}}

(* Mutual exclusion: at most one task manipulates channels and at most one  *)
(* manipulates device ownership, wherever the clock interrupts them and     *)
(* whatever programs do with the MUTEX service.                             *)
MutualExclusion ==
    \A p, q \in Tasks :
        p # q => /\ ~(p \in InChan /\ q \in InChan)
                 /\ ~(p \in InDrv /\ q \in InDrv)

(* Outside muxx_svc_alloc a device is marked allocated exactly when it has  *)
(* an owner (open tests the flag first and the owner later).                *)
OwnerMatchesFlag ==
    \A d \in Drivers :
        (\A p \in InDrv : call[p].dev # d)
            => (drv[d].alloc <=> drv[d].ownerid # NULL)

(* Entry i is in use: task p has a channel on it or is opening it.          *)
Uses(p, i) ==
    \/ \E f \in Fds : chan[p][f] = i
    \/ call[p].svc = "open" /\ call[p].io = i

(* No I/O entry is given out twice: not to two tasks, not to two            *)
(* descriptors of one task.  The descriptor of a close that has left the    *)
(* kernel does not count: it may name an entry that another task has opened *)
(* since, but the task stores null in it before it can use it again.        *)
EntriesDistinct ==
    \A i \in Entries :
        /\ \A p, q \in Tasks : Uses(p, i) /\ Uses(q, i) => p = q
        /\ \A p \in Tasks : \A f, g \in Fds :
              chan[p][f] = i /\ chan[p][g] = i => f = g

(* A channel always leads to an open entry with a driver, from the unlock   *)
(* at the end of its open to the close that clears it: read and write never *)
(* follow the null driver of an entry.                                      *)
DescriptorsOpen ==
    \A p \in Tasks, f \in Fds :
        chan[p][f] # NULL /\ ~(call[p].svc = "close" /\ call[p].fd = f)
            => iote[chan[p][f]].open /\ iote[chan[p][f]].driver # NULL

(* A channel on a device that is not shareable belongs to the owner of the  *)
(* device for as long as it is open, so no two tasks ever talk to the       *)
(* device at the same time, provided nobody deallocates what another task   *)
(* owns or what is still open.                                              *)
ExclusiveDevice ==
    breach = {} =>
        \A p \in Tasks, d \in Drivers \ Shareable :
            OpenOn(p, d) # {} => drv[d].alloc /\ drv[d].ownerid = p

(* Provided the same, the kernel panics in open or close only because the   *)
(* mutex it asks for is taken: giving a mutex back never fails, and the     *)
(* deallocation inside close fails for no other reason.                     *)
PanicsOnlyWhenLocked ==
    /\ breach = {} /\ halted = "muxx_svc_close" => mutex["DRV"] # NULL
    /\ halted \in DeallocPanics => mutex["CHAN"] \notin {NULL, curtcb}

(* The inductive strengthening of MutualExclusion and OwnerMatchesFlag.     *)
(* CallSound: the statement a frame stands at belongs to its service, and   *)
(* the service has the device, the entry and the descriptor it works on.    *)
CallSound(c) ==
    /\ c.at \in OpenAt => c.svc = "open"
    /\ c.at \in CloseAt => c.svc = "close"
    /\ c.at \in AllocAt => c.svc \in {"open", "close", "alloc", "dealloc"}
    /\ c.at = "unlock" => c.svc \in {"open", "close"}
    /\ c.at \in {"user", "io"} => c.svc \in {"none", "transfer"}
    /\ c.svc = "open" => c.dev \in Drivers /\ c.fd \in Table
    /\ c.svc = "close" => c.io \in Entries /\ c.fd \in Table
    /\ c.svc = "open" /\ c.at # "find" /\ c.ok => c.io \in Entries
    /\ c.at \in OpenAt => c.ok

(* A task inside open or close holds MUT_CHAN; a task inside the guarded    *)
(* part of alloc holds MUT_DRV.                                             *)
LocksHeld ==
    /\ \A p \in InChan : mutex["CHAN"] = p
    /\ \A p \in InDrv : mutex["DRV"] = p

(* Inside muxx_svc_alloc: what the flag and the owner are at each statement.*)
Ownership ==
    \A d \in Drivers :
        /\ (\A p \in InDrv : call[p].dev # d)
              => (drv[d].alloc <=> drv[d].ownerid # NULL)
        /\ \A p \in InDrv : call[p].dev = d =>
              /\ call[p].at \in {"check", "free"}
                    => (drv[d].alloc <=> drv[d].ownerid # NULL)
              /\ call[p].at = "set" => drv[d].ownerid # NULL
              /\ call[p].at = "reset" => drv[d].ownerid = NULL

IInv ==
    /\ TypeOK
    /\ \A p \in Tasks : CallSound(call[p])
    /\ LocksHeld
    /\ Ownership
    /\ halted \in DeallocPanics => mutex["CHAN"] \notin {NULL, curtcb}

(* A mutex taken by a service is given back: no task keeps MUT_DRV or       *)
(* MUT_CHAN forever, unless the machine stops.                              *)
MutexReleased ==
    \A m \in Mutexes, p \in Tasks :
        (mutex[m] = p) ~> (mutex[m] # p \/ halted # "no")

-----------------------------------------------------------------------------
(* Statements of the repository that the code does not meet.                *)

(* muxx_channels.c ends open with an assertion: giving MUT_CHAN back        *)
(* succeeds, else panic("muxx_svc_open: dealloc mutex").                    *)
OpenSurvives == halted # "muxx_svc_open: dealloc mutex"

=============================================================================
