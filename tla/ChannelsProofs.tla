---------------------------- MODULE ChannelsProofs ----------------------------
(***************************************************************************)
(* Proofs about Channels, for any sets of tasks, drivers and entries: the  *)
(* two kernel mutexes exclude, and ownerid and the alloc flag of a device  *)
(* agree outside the section MUT_DRV guards.  The inductive invariant IInv *)
(* of Channels adds where the locks are held and what the two fields are   *)
(* between the stores; there is one lemma per action.                      *)
(***************************************************************************)
EXTENDS Channels, TLAPS

(* All the statements at which a frame can stand.                           *)
Labels == OpenAt \cup CloseAt \cup AllocAt \cup {"user", "unlock", "io"}

(* The statements of muxx_svc_alloc that run with MUT_DRV held.             *)
Guarded == AllocAt \ {"lock", "back"}

(* The frame with these fields.                                             *)
Frame(s, l, d, i, f, o) ==
    [svc |-> s, at |-> l, dev |-> d, io |-> i, fd |-> f, ok |-> o]

(* The running task has moved to this frame, every other frame is           *)
(* unchanged.                                                               *)
Moved(s, l, d, i, f, o) ==
    /\ call' \in [Tasks -> Call]
    /\ call'[curtcb].svc = s
    /\ call'[curtcb].at = l
    /\ call'[curtcb].dev = d
    /\ call'[curtcb].io = i
    /\ call'[curtcb].fd = f
    /\ call'[curtcb].ok = o
    /\ \A q \in Tasks : q # curtcb => call'[q] = call[q]

(* Goto changes the statement of the frame only.                            *)
LEMMA GotoMoves ==
    ASSUME TypeOK, NEW l \in Labels, Goto(l)
    PROVE  Moved(Cur.svc, l, Cur.dev, Cur.io, Cur.fd, Cur.ok)
<1>1. call[curtcb] \in Call /\ curtcb \in Tasks
    BY DEF TypeOK
<1>2. [call[curtcb] EXCEPT !.at = l] \in Call
    BY <1>1 DEF Call, Labels
<1> QED  BY <1>1, <1>2 DEF TypeOK, Goto, Moved, Cur, Call

(* Fail changes the statement and records the failure.                      *)
LEMMA FailMoves ==
    ASSUME TypeOK, NEW l \in Labels, Fail(l)
    PROVE  Moved(Cur.svc, l, Cur.dev, Cur.io, Cur.fd, FALSE)
<1>1. call[curtcb] \in Call /\ curtcb \in Tasks
    BY DEF TypeOK
<1>2. [call[curtcb] EXCEPT !.at = l, !.ok = FALSE] \in Call
    BY <1>1 DEF Call, Labels
<1> QED  BY <1>1, <1>2 DEF TypeOK, Fail, Moved, Cur, Call

(* Entering a service gives the caller a fresh frame.                       *)
LEMMA EnterMoves ==
    ASSUME TypeOK, NEW s \in Services, NEW l \in Labels,
           NEW d \in Drivers \cup {NULL}, NEW i \in Entries \cup {NULL},
           NEW f \in Table \cup {NULL}, Enter(s, l, d, i, f)
    PROVE  Moved(s, l, d, i, f, TRUE)
BY DEF TypeOK, Enter, Moved, Call, Labels

(* Returning from a service puts the caller back in user mode.              *)
LEMMA ReturnMoves ==
    ASSUME TypeOK, Return
    PROVE  Moved("none", "user", NULL, NULL, NULL, TRUE)
BY DEF TypeOK, Return, UserMode, Moved, Call, Services

(* If the new frame is sound, all frames are.                               *)
LEMMA MovedSound ==
    ASSUME TypeOK, \A q \in Tasks : CallSound(call[q]),
           NEW s, NEW l, NEW d, NEW i, NEW f, NEW o,
           Moved(s, l, d, i, f, o),
           CallSound(Frame(s, l, d, i, f, o))
    PROVE  \A q \in Tasks : CallSound(call[q])'
<1>1. call'[curtcb] = Frame(s, l, d, i, f, o)
    BY DEF Moved, Call, TypeOK, Frame
<1>2. CallSound(call'[curtcb])
    BY <1>1
<1>3. ASSUME NEW q \in Tasks
      PROVE  CallSound(call'[q])
    BY <1>2 DEF Moved
<1> QED  BY <1>3 DEF CallSound

(* A step outside the part guarded by MUT_DRV that leaves the drivers       *)
(* alone keeps owner and flag in agreement.                                 *)
LEMMA OwnershipOutside ==
    ASSUME TypeOK, Ownership,
           NEW s, NEW l \in Labels \ Guarded, NEW d, NEW i, NEW f, NEW o,
           Moved(s, l, d, i, f, o), Cur.at \notin Guarded, drv' = drv
    PROVE  Ownership'
<1>1. InDrv' = InDrv /\ \A q \in InDrv : call'[q] = call[q]
    BY DEF Moved, InDrv, Guarded, Cur, TypeOK
<1> QED  BY <1>1 DEF Ownership

(* A step that changes no mutex and enters no guarded part keeps every      *)
(* lock held by the task inside.                                            *)
LEMMA LocksOutside ==
    ASSUME TypeOK, LocksHeld,
           NEW s, NEW l \in Labels, NEW d, NEW i, NEW f, NEW o,
           Moved(s, l, d, i, f, o), UNCHANGED mutex,
           s \in {"open", "close"} => Cur.svc \in {"open", "close"},
           l \in Guarded => Cur.at \in Guarded
    PROVE  LocksHeld'
BY DEF Moved, LocksHeld, InChan, InDrv, Guarded, Cur, TypeOK

(* A step of open, close or a transfer outside the guarded part of alloc    *)
(* that leaves drivers and mutexes alone preserves the invariant.           *)
LEMMA QuietStep ==
    ASSUME IInv, halted = "no", UNCHANGED <<curtcb, mutex, drv, halted>>,
           masked' \in BOOLEAN,
           iote' \in [Entries -> Entry],
           fds' \in [Tasks -> [Fds -> Entries \cup {NULL}]],
           \A q \in Tasks : \A g \in Fds \ Table : fds'[q][g] = NULL,
           store' \in [Tasks -> Store],
           breach' \subseteq {"foreign", "open"},
           NEW s, NEW l \in Labels \ Guarded, NEW d, NEW i, NEW f, NEW o,
           Moved(s, l, d, i, f, o),
           CallSound(Frame(s, l, d, i, f, o)),
           s \in {"open", "close"} => Cur.svc \in {"open", "close"},
           Cur.at \notin Guarded
    PROVE  IInv'
<1>1. TypeOK'
    BY DEF IInv, TypeOK, Moved
<1>2. (\A q \in Tasks : CallSound(call[q]))'
    BY MovedSound DEF IInv
<1>3. LocksHeld'
    BY LocksOutside DEF IInv
<1>4. Ownership'
    BY OwnershipOutside DEF IInv
<1> QED  BY <1>1, <1>2, <1>3, <1>4 DEF IInv

(* A step that moves no frame, and changes no owner or flag, preserves the  *)
(* invariant if the locks remain held.                                      *)
LEMMA StillStep ==
    ASSUME IInv, UNCHANGED <<masked, iote, fds, store, call, breach>>,
           curtcb' \in Tasks, halted = "no", halted' = "no",
           drv' \in [Drivers -> Driver],
           mutex' \in [Mutexes -> Tasks \cup {NULL}],
           \A d \in Drivers : /\ drv'[d].alloc = drv[d].alloc
                             /\ drv'[d].ownerid = drv[d].ownerid,
           LocksHeld'
    PROVE  IInv'
<1>1. TypeOK'
    BY DEF IInv, TypeOK
<1>2. Ownership'
    BY DEF IInv, Ownership, InDrv
<1> QED  BY <1>1, <1>2 DEF DeallocPanics, IInv, CallSound

(* A clock preemption, at any statement of any service, preserves the       *)
(* invariant.                                                               *)
LEMMA PreemptStep ==
    ASSUME IInv, NEW p \in Tasks, Preempt(p)
    PROVE  IInv'
<1>1. LocksHeld'
    BY DEF IInv, LocksHeld, InChan, InDrv, Preempt
<1> QED  BY <1>1, StillStep DEF Preempt, IInv, TypeOK

(* A program that takes a mutex takes it from nobody.                       *)
LEMMA UserMutexAllocStep ==
    ASSUME IInv, NEW m \in Mutexes, UserMutexAlloc(m)
    PROVE  IInv'
<1> USE ChannelsAssumption DEF UserMutexAlloc, MutexAlloc, CanAlloc
<1>1. LocksHeld'
    BY DEF IInv, LocksHeld, InChan, InDrv, TypeOK, Mutexes
<1>2. mutex' \in [Mutexes -> Tasks \cup {NULL}]
    BY DEF IInv, TypeOK
<1> QED  BY <1>1, <1>2, StillStep DEF At, IInv, TypeOK

(* A program in user mode is inside no service, so giving back a mutex it   *)
(* holds opens no guarded part.                                             *)
LEMMA UserMutexDeallocStep ==
    ASSUME IInv, NEW m \in Mutexes, UserMutexDealloc(m)
    PROVE  IInv'
<1> USE ChannelsAssumption DEF UserMutexDealloc, MutexDealloc, CanDealloc
<1>1. curtcb \notin InChan /\ curtcb \notin InDrv
    BY DEF IInv, CallSound, TypeOK, InChan, InDrv, At, Cur, AllocAt
<1>2. LocksHeld'
    BY <1>1 DEF IInv, LocksHeld, InChan, InDrv, TypeOK, Mutexes
<1>3. mutex' \in [Mutexes -> Tasks \cup {NULL}]
    BY DEF IInv, TypeOK
<1> QED  BY <1>2, <1>3, StillStep DEF At, IInv, TypeOK

(* Registering a driver does not change who owns it.                        *)
LEMMA DrvRegStep ==
    ASSUME IInv, NEW d \in Drivers, DrvReg(d)
    PROVE  IInv'
<1>1. LocksHeld'
    BY DEF IInv, LocksHeld, InChan, InDrv, DrvReg
<1>2. /\ drv' \in [Drivers -> Driver]
      /\ \A e \in Drivers : /\ drv'[e].alloc = drv[e].alloc
                           /\ drv'[e].ownerid = drv[e].ownerid
    BY DEF IInv, TypeOK, Driver, DrvReg
<1> QED  BY <1>1, <1>2, StillStep DEF DrvReg, At, IInv, TypeOK

(* Starting a driver does not change who owns it.                           *)
LEMMA DrvStartStep ==
    ASSUME IInv, NEW d \in Drivers, DrvStart(d)
    PROVE  IInv'
<1>1. LocksHeld'
    BY DEF IInv, LocksHeld, InChan, InDrv, DrvStart
<1>2. /\ drv' \in [Drivers -> Driver]
      /\ \A e \in Drivers : /\ drv'[e].alloc = drv[e].alloc
                           /\ drv'[e].ownerid = drv[e].ownerid
    BY DEF IInv, TypeOK, Driver, DrvStart
<1> QED  BY <1>1, <1>2, StillStep DEF DrvStart, At, IInv, TypeOK

(* Calling alloc or dealloc from user mode.                                 *)
LEMMA AllocCallStep ==
    ASSUME IInv, NEW d \in Drivers, NEW s \in {"alloc", "dealloc"},
           AllocCall(d, s)
    PROVE  IInv'
<1>1. Moved(s, "lock", d, NULL, NULL, TRUE)
    BY EnterMoves DEF AllocCall, IInv, Services, Labels, AllocAt
<1>2. CallSound(Frame(s, "lock", d, NULL, NULL, TRUE))
    BY DEF CallSound, Frame, OpenAt, CloseAt, AllocAt
<1> QED  BY <1>1, <1>2, QuietStep
         DEF AllocCall, At, IInv, TypeOK, Labels, Guarded, AllocAt

(* A step that at most stops the machine, for another reason than a mutex   *)
(* that could not be given back.                                            *)
LEMMA HaltStep ==
    ASSUME IInv, halted' \in Halts \ DeallocPanics,
           UNCHANGED <<curtcb, masked, mutex, drv, iote, fds, store, call, breach>>
    PROVE  IInv'
<1>1. TypeOK'
    BY DEF IInv, TypeOK
<1>2. LocksHeld' /\ Ownership'
    BY DEF IInv, LocksHeld, Ownership, InChan, InDrv
<1> QED  BY <1>1, <1>2 DEF IInv, CallSound

(* Calling read or write from user mode, with a channel or without.         *)
LEMMA TransferCallStep ==
    ASSUME IInv, NEW f \in Fds, TransferCall(f)
    PROVE  IInv'
<1> DEFINE e == fds[curtcb][f]
           d == iote[e].driver
<1>1. CASE Leads(f)
    <2>1. e \in Entries /\ d \in Drivers \cup {NULL} /\ f \in Table
        BY <1>1 DEF Leads, IInv, TypeOK, Entry
    <2>2. Enter("transfer", "io", d, e, f) /\ UNCHANGED halted
        BY <1>1 DEF TransferCall
    <2>3. Moved("transfer", "io", d, e, f, TRUE)
        BY <2>1, <2>2, EnterMoves DEF IInv, Services, Labels
    <2>4. CallSound(Frame("transfer", "io", d, e, f, TRUE))
        BY DEF CallSound, Frame, OpenAt, CloseAt, AllocAt
    <2> QED  BY <2>2, <2>3, <2>4, QuietStep
             DEF TransferCall, At, IInv, TypeOK, Labels, Guarded, AllocAt
<1>2. CASE ~Leads(f)
    <2>1. /\ halted' \in {"no", "wild channel"}
          /\ UNCHANGED <<curtcb, masked, mutex, drv, iote, fds, store, call, breach>>
        BY <1>2 DEF TransferCall
    <2> QED  BY <2>1, HaltStep DEF Halts, DeallocPanics
<1> QED  BY <1>1, <1>2

(* The end of a read or write.                                              *)
LEMMA TransferReturnStep ==
    ASSUME IInv, TransferReturn
    PROVE  IInv'
<1>1. Moved("none", "user", NULL, NULL, NULL, TRUE)
    BY ReturnMoves DEF TransferReturn, IInv
<1>2. CallSound(Frame("none", "user", NULL, NULL, NULL, TRUE))
    BY DEF CallSound, Frame, OpenAt, CloseAt, AllocAt
<1> QED  BY <1>1, <1>2, QuietStep
         DEF TransferReturn, Return, At, IInv, TypeOK, Labels, Guarded, AllocAt

(* The frame of the running task is sound.                                  *)
LEMMA CurSound ==
    ASSUME IInv
    PROVE  CallSound(Cur) /\ Cur \in Call /\ curtcb \in Tasks
BY DEF IInv, TypeOK, Cur

(* QuietStep for a step that goes on.                                       *)
LEMMA GotoQuiet ==
    ASSUME IInv, NEW l \in Labels \ Guarded, halted = "no", Goto(l),
           UNCHANGED <<curtcb, masked, mutex, drv, fds, store, halted, breach>>,
           iote' \in [Entries -> Entry],
           CallSound(Frame(Cur.svc, l, Cur.dev, Cur.io, Cur.fd, Cur.ok)),
           Cur.at \notin Guarded
    PROVE  IInv'
<1>1. Moved(Cur.svc, l, Cur.dev, Cur.io, Cur.fd, Cur.ok)
    BY GotoMoves DEF IInv
<1> HIDE DEF Cur
<1> QED  BY <1>1, QuietStep DEF IInv, TypeOK

(* QuietStep for a step that fails.                                         *)
LEMMA FailQuiet ==
    ASSUME IInv, NEW l \in Labels \ Guarded, halted = "no", Fail(l),
           UNCHANGED <<curtcb, mutex, drv, iote, fds, store, halted, breach>>,
           masked' \in BOOLEAN,
           CallSound(Frame(Cur.svc, l, Cur.dev, Cur.io, Cur.fd, FALSE)),
           Cur.at \notin Guarded
    PROVE  IInv'
<1>1. Moved(Cur.svc, l, Cur.dev, Cur.io, Cur.fd, FALSE)
    BY FailMoves DEF IInv
<1> HIDE DEF Cur
<1> QED  BY <1>1, QuietStep DEF IInv, TypeOK

(* open: the search for a free I/O table entry (muxx_channels.c:47-49).     *)
LEMMA OpenFindStep ==
    ASSUME IInv, OpenFind
    PROVE  IInv'
<1> USE CurSound DEF OpenFind, At, Labels, Guarded, OpenAt, CloseAt, AllocAt,
                     CallSound, Frame
<1>1. CASE Fail("unlock")
    BY <1>1, FailQuiet DEF IInv, TypeOK
<1>2. CASE ~Fail("unlock")
    <2>1. PICK i \in Entries : call' = [call EXCEPT ![curtcb].at = "locate",
                                                   ![curtcb].io = i]
        BY <1>2
    <2>2. [call[curtcb] EXCEPT !.at = "locate", !.io = i] \in Call
        BY DEF Call, Cur
    <2>a. call \in [Tasks -> Call]
        BY DEF IInv, TypeOK
    <2>3. Moved(Cur.svc, "locate", Cur.dev, i, Cur.fd, Cur.ok)
        BY <2>1, <2>2, <2>a DEF Moved, Cur, Call
    <2>4. CallSound(Frame(Cur.svc, "locate", Cur.dev, i, Cur.fd, Cur.ok))
        OBVIOUS
    <2> QED  BY <2>3, <2>4, QuietStep DEF IInv, TypeOK
<1> QED  BY <1>1, <1>2

(* open: the device is looked up and stored in the entry                    *)
(* (muxx_channels.c:50-53).                                                 *)
LEMMA OpenLocateStep ==
    ASSUME IInv, OpenLocate
    PROVE  IInv'
<1> USE CurSound DEF OpenLocate, At, Labels, Guarded, OpenAt, CloseAt, AllocAt,
                     CallSound, Frame
<1>1. CASE drv[Cur.dev].free
    BY <1>1, FailQuiet DEF IInv, TypeOK
<1>2. CASE ~drv[Cur.dev].free
    <2>1. iote' \in [Entries -> Entry]
        BY <1>2 DEF IInv, TypeOK, Entry
    <2> QED  BY <1>2, <2>1, GotoQuiet DEF IInv, TypeOK
<1> QED  BY <1>1, <1>2

(* open: the driver must be active; the status word of the entry is cleared*)
LEMMA OpenActiveStep ==
    ASSUME IInv, OpenActive
    PROVE  IInv'
<1>a. Cur.io \in Entries
    BY CurSound DEF CallSound, OpenActive, At, OpenAt
<1>b. iote[Cur.io] \in Entry
    BY <1>a DEF IInv, TypeOK
<1>0. [iote[Cur.io] EXCEPT !.open = FALSE, !.dealloc = FALSE] \in Entry
    BY <1>b DEF Entry
<1> USE CurSound DEF OpenActive, At, Labels, Guarded, OpenAt, CloseAt, AllocAt,
                     CallSound, Frame
<1>1. CASE ~drv[Cur.dev].active
    BY <1>1, FailQuiet DEF IInv, TypeOK
<1>2. CASE drv[Cur.dev].active
    <2>1. iote' \in [Entries -> Entry]
        BY <1>0, <1>2 DEF IInv, TypeOK
    <2>2. PICK l \in {"mark", "avail"} : Goto(l)
        BY <1>2
    <2> QED  BY <1>2, <2>1, <2>2, GotoQuiet DEF IInv, TypeOK
<1> QED  BY <1>1, <1>2

(* open: an unowned device is allocated, an owned one must be the caller's. *)
LEMMA OpenAvailStep ==
    ASSUME IInv, OpenAvail
    PROVE  IInv'
<1> USE CurSound DEF OpenAvail, At, Labels, Guarded, OpenAt, CloseAt, AllocAt,
                     CallSound, Frame
<1>1. PICK l \in {"owner", "lock"} : Goto(l)
    OBVIOUS
<1> QED  BY <1>1, GotoQuiet DEF IInv, TypeOK

(* open: the device must belong to the caller.                              *)
LEMMA OpenOwnerStep ==
    ASSUME IInv, OpenOwner
    PROVE  IInv'
<1> USE CurSound DEF OpenOwner, At, Labels, Guarded, OpenAt, CloseAt, AllocAt,
                     CallSound, Frame
<1>1. CASE Goto("mark")
    BY <1>1, GotoQuiet DEF IInv, TypeOK
<1>2. CASE Fail("unlock")
    BY <1>2, FailQuiet DEF IInv, TypeOK
<1> QED  BY <1>1, <1>2

(* open: the entry is marked open.                                          *)
LEMMA OpenMarkStep ==
    ASSUME IInv, OpenMark
    PROVE  IInv'
<1> USE CurSound DEF OpenMark, At, Labels, Guarded, OpenAt, CloseAt, AllocAt,
                     CallSound, Frame
<1>a. iote \in [Entries -> Entry]
    BY DEF IInv, TypeOK
<1>1. iote' \in [Entries -> Entry]
    BY <1>a DEF Entry
<1> QED  BY <1>1, GotoQuiet DEF IInv, TypeOK

(* close: the entry must be open; the device is given back first.           *)
LEMMA CloseTestStep ==
    ASSUME IInv, CloseTest
    PROVE  IInv'
<1> USE CurSound DEF CloseTest, At, Labels, Guarded, OpenAt, CloseAt, AllocAt,
                     CallSound, Frame
<1>1. CASE Fail("unlock")
    BY <1>1, FailQuiet DEF IInv, TypeOK
<1>2. CASE Goto("clear")
    BY <1>2, GotoQuiet DEF IInv, TypeOK
<1> DEFINE d == iote[Cur.io].driver
<1>3. CASE call' = [call EXCEPT ![curtcb].at = "lock", ![curtcb].dev = d]
    <2>1. d \in Drivers \cup {NULL}
        BY DEF IInv, TypeOK, Entry
    <2>2. [call[curtcb] EXCEPT !.at = "lock", !.dev = d] \in Call
        BY <2>1 DEF Call, Cur
    <2>3. Moved(Cur.svc, "lock", d, Cur.io, Cur.fd, Cur.ok)
        BY <1>3, <2>2 DEF Moved, IInv, TypeOK, Cur, Call
    <2>4. CallSound(Frame(Cur.svc, "lock", d, Cur.io, Cur.fd, Cur.ok))
        BY <2>1
    <2> QED  BY <2>3, <2>4, QuietStep DEF IInv, TypeOK
<1> QED  BY <1>1, <1>2, <1>3

(* close: the entry is cleared.                                             *)
LEMMA CloseClearStep ==
    ASSUME IInv, CloseClear
    PROVE  IInv'
<1>a. Cur.io \in Entries
    BY CurSound DEF CallSound, CloseClear, At, CloseAt
<1>b. iote[Cur.io] \in Entry
    BY <1>a DEF IInv, TypeOK
<1>0. [iote[Cur.io] EXCEPT !.open = FALSE, !.driver = NULL] \in Entry
    BY <1>b DEF Entry
<1> USE CurSound DEF CloseClear, At, Labels, Guarded, OpenAt, CloseAt, AllocAt,
                     CallSound, Frame
<1>1. iote' \in [Entries -> Entry]
    BY <1>0 DEF IInv, TypeOK
<1> QED  BY <1>1, GotoQuiet DEF IInv, TypeOK

(* alloc: MUT_DRV is taken, or refused (muxx_drvctl.c:116).                 *)
LEMMA AllocLockStep ==
    ASSUME IInv, AllocLock
    PROVE  IInv'
<1> USE CurSound, ChannelsAssumption DEF AllocLock, At
<1>1. CASE ~CanAlloc("DRV")
    BY <1>1, FailQuiet DEF MutexAlloc, CallSound, Frame, Labels, Guarded,
                           OpenAt, CloseAt, AllocAt
<1>2. CASE CanAlloc("DRV")
    <2>1. Goto("check") /\ MutexAlloc("DRV") /\ UNCHANGED masked
        BY <1>2
    <2>2. Moved(Cur.svc, "check", Cur.dev, Cur.io, Cur.fd, Cur.ok)
        BY <2>1, GotoMoves DEF IInv, Labels, AllocAt
    <2>3. CallSound(Frame(Cur.svc, "check", Cur.dev, Cur.io, Cur.fd, Cur.ok))
        BY DEF CallSound, Frame, OpenAt, CloseAt, AllocAt
    <2>4. TypeOK'
        <3>1. mutex' \in [Mutexes -> Tasks \cup {NULL}]
            BY <2>1 DEF IInv, TypeOK, MutexAlloc
        <3>2. call' \in [Tasks -> Call]
            BY <2>2 DEF Moved
        <3> QED  BY <2>1, <3>1, <3>2 DEF IInv, TypeOK
    <2>5. (\A q \in Tasks : CallSound(call[q]))'
        BY <2>2, <2>3, MovedSound DEF IInv
    <2>6. InDrv = {} /\ mutex'["DRV"] = curtcb /\ mutex'["CHAN"] = mutex["CHAN"]
        BY <1>2, <2>1 DEF IInv, LocksHeld, CanAlloc, MutexAlloc, InDrv, TypeOK,
                          Mutexes
    <2>7. InDrv' = {curtcb} /\ InChan' = InChan
        BY <2>2, <2>6 DEF Moved, InDrv, InChan, AllocAt, Cur
    <2>8. LocksHeld'
        BY <2>6, <2>7 DEF IInv, LocksHeld
    <2>9. Ownership'
        BY <2>2, <2>6, <2>7 DEF IInv, Ownership, Moved
    <2> QED  BY <2>4, <2>5, <2>8, <2>9 DEF DeallocPanics, IInv
<1> QED  BY <1>1, <1>2

(* A step inside the guarded part preserves the invariant when the device   *)
(* at hand has the owner and flag its next statement expects: only one      *)
(* task is inside, so nobody else has an expectation.                       *)
LEMMA GuardedMove ==
    ASSUME IInv, halted = "no", Cur.at \in Guarded,
           NEW l \in Guarded, NEW o \in {Cur.ok, FALSE},
           Moved(Cur.svc, l, Cur.dev, Cur.io, Cur.fd, o),
           UNCHANGED <<curtcb, masked, mutex, iote, fds, store, halted>>,
           drv' \in [Drivers -> Driver], breach' \subseteq {"foreign", "open"},
           \A d \in Drivers : d # Cur.dev => drv'[d] = drv[d],
           Cur.dev \in Drivers =>
              /\ l \in {"check", "free"} =>
                    (drv'[Cur.dev].alloc <=> drv'[Cur.dev].ownerid # NULL)
              /\ l = "set" => drv'[Cur.dev].ownerid # NULL
              /\ l = "reset" => drv'[Cur.dev].ownerid = NULL
    PROVE  IInv'
<1> USE CurSound
<1>1. CallSound(Frame(Cur.svc, l, Cur.dev, Cur.io, Cur.fd, o))
    BY DEF CallSound, Frame, OpenAt, CloseAt, AllocAt, Guarded
<1>2. TypeOK'
    BY DEF IInv, TypeOK, Moved
<1>3. (\A q \in Tasks : CallSound(call[q]))'
    BY <1>1, MovedSound DEF IInv
<1>4. LocksHeld'
    BY LocksOutside DEF IInv, Labels, Guarded
<1>5. InDrv = {curtcb} /\ InDrv' = {curtcb}
    BY DEF IInv, LocksHeld, InDrv, Guarded, Moved, Cur
<1>6. Ownership'
    BY <1>5 DEF IInv, Ownership, Moved, Cur
<1> QED  BY <1>2, <1>3, <1>4, <1>6 DEF IInv

(* What owner and flag are at the statement of the running task.            *)
LEMMA OwnershipCur ==
    ASSUME IInv, Cur.at \in Guarded, Cur.dev \in Drivers
    PROVE  /\ Cur.at \in {"check", "free"} =>
                 (drv[Cur.dev].alloc <=> drv[Cur.dev].ownerid # NULL)
           /\ Cur.at = "set" => drv[Cur.dev].ownerid # NULL
           /\ Cur.at = "reset" => drv[Cur.dev].ownerid = NULL
BY CurSound DEF IInv, Ownership, InDrv, Guarded, Cur

(* A store into ownerid changes that field of that device only.             *)
LEMMA OwnerStored ==
    ASSUME TypeOK, NEW o \in Tasks \cup {NULL},
           drv' = [drv EXCEPT ![Cur.dev].ownerid = o]
    PROVE  /\ drv' \in [Drivers -> Driver]
           /\ \A d \in Drivers : d # Cur.dev => drv'[d] = drv[d]
           /\ Cur.dev \in Drivers => drv'[Cur.dev].ownerid = o
<1> DEFINE e == Cur.dev
<1> HIDE DEF e
<1>1. CASE e \in Drivers
    <2>1. [drv[e] EXCEPT !.ownerid = o] \in Driver
        BY <1>1 DEF TypeOK, Driver
    <2>2. drv \in [Drivers -> Driver]
        BY DEF TypeOK
    <2> QED  BY <1>1, <2>1, <2>2 DEF Driver, e
<1>2. CASE e \notin Drivers
    BY <1>2 DEF TypeOK, e
<1> QED  BY <1>1, <1>2

(* A store into the alloc flag changes that field of that device only.      *)
LEMMA FlagStored ==
    ASSUME TypeOK, NEW b \in BOOLEAN,
           drv' = [drv EXCEPT ![Cur.dev].alloc = b]
    PROVE  /\ drv' \in [Drivers -> Driver]
           /\ \A d \in Drivers : d # Cur.dev => drv'[d] = drv[d]
           /\ Cur.dev \in Drivers =>
                 /\ drv'[Cur.dev].alloc = b
                 /\ drv'[Cur.dev].ownerid = drv[Cur.dev].ownerid
<1> DEFINE e == Cur.dev
<1> HIDE DEF e
<1>1. CASE e \in Drivers
    <2>2. drv \in [Drivers -> Driver]
        BY DEF TypeOK
    <2>1. [drv[e] EXCEPT !.alloc = b] \in Driver
        BY <1>1, <2>2 DEF Driver
    <2> QED  BY <1>1, <2>1, <2>2 DEF Driver, e
<1>2. CASE e \notin Drivers
    BY <1>2 DEF TypeOK, e
<1> QED  BY <1>1, <1>2

(* alloc: who owns the device decides what comes next.                      *)
LEMMA AllocCheckStep ==
    ASSUME IInv, AllocCheck
    PROVE  IInv'
<1> USE CurSound DEF AllocCheck, At
<1>1. breach' \subseteq {"foreign", "open"}
    BY DEF DeallocBreach, IInv, TypeOK
<1>2. \/ \E l \in {"own", "disown"} : Goto(l)
      \/ \E l \in {"disown", "free"} : Fail(l)
    OBVIOUS
<1>3. PICK l \in {"own", "disown", "free"} :
        \E o \in {Cur.ok, FALSE} : Moved(Cur.svc, l, Cur.dev, Cur.io, Cur.fd, o)
    BY <1>2, GotoMoves, FailMoves DEF IInv, Labels, AllocAt
<1> QED  BY <1>1, <1>3, GuardedMove, OwnershipCur
         DEF Guarded, AllocAt, IInv, TypeOK

(* alloc: the owner is stored or cleared; the flag does not agree with it   *)
(* until the next statement.                                                *)
LEMMA SetOwnerStep ==
    ASSUME IInv, SetOwner
    PROVE  IInv'
<1> USE CurSound, ChannelsAssumption DEF SetOwner, At
<1>1. CASE Cur.at = "own"
    <2>1. Moved(Cur.svc, "set", Cur.dev, Cur.io, Cur.fd, Cur.ok)
        BY <1>1, GotoMoves DEF IInv, Labels, AllocAt
    <2>2. /\ drv' \in [Drivers -> Driver]
          /\ \A d \in Drivers : d # Cur.dev => drv'[d] = drv[d]
          /\ Cur.dev \in Drivers => drv'[Cur.dev].ownerid # NULL
        BY <1>1, OwnerStored, curtcb \in Tasks \cup {NULL} DEF IInv
    <2> QED  BY <1>1, <2>1, <2>2, GuardedMove DEF Guarded, AllocAt, IInv, TypeOK
<1>2. CASE Cur.at = "disown"
    <2>1. Moved(Cur.svc, "reset", Cur.dev, Cur.io, Cur.fd, Cur.ok)
        BY <1>2, GotoMoves DEF IInv, Labels, AllocAt
    <2>2. /\ drv' \in [Drivers -> Driver]
          /\ \A d \in Drivers : d # Cur.dev => drv'[d] = drv[d]
          /\ Cur.dev \in Drivers => drv'[Cur.dev].ownerid = NULL
        BY <1>2, OwnerStored, NULL \in Tasks \cup {NULL} DEF IInv
    <2> QED  BY <1>2, <2>1, <2>2, GuardedMove DEF Guarded, AllocAt, IInv, TypeOK
<1> QED  BY <1>1, <1>2

(* alloc: the flag is stored and agrees with the owner again.               *)
LEMMA SetAllocStep ==
    ASSUME IInv, SetAlloc
    PROVE  IInv'
<1> USE CurSound, OwnershipCur DEF SetAlloc, At
<1>1. Moved(Cur.svc, "free", Cur.dev, Cur.io, Cur.fd, Cur.ok)
    BY GotoMoves DEF IInv, Labels, AllocAt
<1>2. /\ drv' \in [Drivers -> Driver]
      /\ \A d \in Drivers : d # Cur.dev => drv'[d] = drv[d]
      /\ Cur.dev \in Drivers =>
            /\ drv'[Cur.dev].alloc = (Cur.at = "set")
            /\ drv'[Cur.dev].ownerid = drv[Cur.dev].ownerid
    <2>1. drv' = [drv EXCEPT ![Cur.dev].alloc = (Cur.at = "set")]
        OBVIOUS
    <2> HIDE DEF SetAlloc
    <2> QED  BY <2>1, FlagStored DEF IInv
<1>3. Cur.dev \in Drivers =>
        (drv'[Cur.dev].alloc <=> drv'[Cur.dev].ownerid # NULL)
    BY <1>2 DEF Guarded, AllocAt
<1> QED  BY <1>1, <1>2, <1>3, GuardedMove DEF Guarded, AllocAt, IInv, TypeOK

(* alloc: MUT_DRV is given back with owner and flag in agreement.           *)
LEMMA AllocFreeStep ==
    ASSUME IInv, AllocFree
    PROVE  IInv'
<1> USE CurSound, ChannelsAssumption DEF AllocFree, At
<1>1. Moved(Cur.svc, "back", Cur.dev, Cur.io, Cur.fd, Cur.ok)
    BY GotoMoves DEF IInv, Labels, AllocAt
<1>2. CallSound(Frame(Cur.svc, "back", Cur.dev, Cur.io, Cur.fd, Cur.ok))
    BY DEF CallSound, Frame, OpenAt, CloseAt, AllocAt
<1>3. TypeOK'
    <2>1. mutex' \in [Mutexes -> Tasks \cup {NULL}] /\ masked' \in BOOLEAN
        BY DEF IInv, TypeOK, MutexDealloc
    <2>2. call' \in [Tasks -> Call]
        BY <1>1 DEF Moved
    <2> QED  BY <2>1, <2>2 DEF IInv, TypeOK
<1>4. (\A q \in Tasks : CallSound(call[q]))'
    BY <1>1, <1>2, MovedSound DEF IInv
<1>5. InDrv = {curtcb} /\ InDrv' = {} /\ InChan' = InChan
    BY <1>1 DEF IInv, LocksHeld, InDrv, InChan, AllocAt, Moved, Cur
<1>6. LocksHeld'
    BY <1>5 DEF IInv, LocksHeld, TypeOK, MutexDealloc, Mutexes
<1>7. Ownership'
    BY <1>5, OwnershipCur DEF IInv, Ownership, Guarded, AllocAt, Cur
<1> QED  BY <1>3, <1>4, <1>6, <1>7 DEF DeallocPanics, IInv

(* alloc: back in the caller, which is a program, open or close.            *)
LEMMA AllocReturnStep ==
    ASSUME IInv, AllocReturn
    PROVE  IInv'
<1> USE CurSound DEF AllocReturn, At
<1>1. CASE Cur.svc \in {"alloc", "dealloc"}
    <2>1. Return /\ UNCHANGED <<iote, halted>>
        BY <1>1
    <2>2. Moved("none", "user", NULL, NULL, NULL, TRUE)
        BY <2>1, ReturnMoves DEF IInv
    <2>3. CallSound(Frame("none", "user", NULL, NULL, NULL, TRUE))
        BY DEF CallSound, Frame, OpenAt, CloseAt, AllocAt
    <2> QED  BY <2>1, <2>2, <2>3, QuietStep
             DEF Return, IInv, TypeOK, Labels, Guarded, AllocAt
<1>2. CASE Cur.svc = "open" /\ Cur.ok
    <2>1. Cur.io \in Entries
        BY <1>2 DEF CallSound
    <2>a. iote[Cur.io] \in Entry
        BY <2>1 DEF IInv, TypeOK
    <2>2. [iote[Cur.io] EXCEPT !.dealloc = TRUE] \in Entry
        BY <2>a DEF Entry
    <2>3. Goto("mark") /\ iote' = [iote EXCEPT ![Cur.io].dealloc = TRUE]
        BY <1>2
    <2>4. iote' \in [Entries -> Entry]
        BY <2>1, <2>2, <2>3 DEF IInv, TypeOK
    <2>5. CallSound(Frame(Cur.svc, "mark", Cur.dev, Cur.io, Cur.fd, Cur.ok))
        BY <1>2 DEF CallSound, Frame, OpenAt, CloseAt, AllocAt
    <2> QED  BY <1>2, <2>3, <2>4, <2>5, GotoQuiet
             DEF Labels, Guarded, OpenAt, AllocAt
<1>3. CASE Cur.svc = "open" /\ ~Cur.ok
    <2>1. CallSound(Frame(Cur.svc, "unlock", Cur.dev, Cur.io, Cur.fd, Cur.ok))
        BY <1>3 DEF CallSound, Frame, OpenAt, CloseAt, AllocAt
    <2> QED  BY <1>3, <2>1, GotoQuiet DEF Labels, Guarded, AllocAt, IInv, TypeOK
<1>4. CASE Cur.svc = "close" /\ Cur.ok
    <2>1. CallSound(Frame(Cur.svc, "clear", Cur.dev, Cur.io, Cur.fd, Cur.ok))
        BY <1>4 DEF CallSound, Frame, OpenAt, CloseAt, AllocAt
    <2> QED  BY <1>4, <2>1, GotoQuiet
             DEF Labels, Guarded, CloseAt, AllocAt, IInv, TypeOK
<1>5. CASE Cur.svc = "close" /\ ~Cur.ok
    <2>1. halted' = "muxx_svc_close"
          /\ UNCHANGED <<curtcb, masked, mutex, drv, iote, fds, store, call, breach>>
        BY <1>5
    <2>2. TypeOK'
        BY <2>1 DEF IInv, TypeOK, Halts, DeallocPanics
    <2>3. LocksHeld' /\ Ownership'
        BY <2>1 DEF IInv, LocksHeld, Ownership, InChan, InDrv
    <2> QED  BY <2>1, <2>2, <2>3 DEF DeallocPanics, IInv, CallSound
<1> QED  BY <1>1, <1>2, <1>3, <1>4, <1>5

(* open and close: MUT_CHAN is taken, or the library call fails, or the     *)
(* kernel panics.                                                           *)
LEMMA ChanLockStep ==
    ASSUME IInv, At("user"),
           NEW s \in {"open", "close"}, NEW l \in {"find", "test"},
           NEW d \in Drivers \cup {NULL}, NEW i \in Entries \cup {NULL},
           NEW f \in Table, ChanLock(s, l, d, i, f),
           CallSound(Frame(s, l, d, i, f, TRUE))
    PROVE  IInv'
<1> USE CurSound, ChannelsAssumption DEF At
<1>1. curtcb \notin InChan /\ curtcb \notin InDrv
    BY DEF CallSound, InChan, InDrv, AllocAt, Cur
<1>2. CASE MutexAlloc("CHAN") /\ Enter(s, l, d, i, f) /\ UNCHANGED halted
    <2>a. s \in Services /\ l \in Labels /\ f \in Table \cup {NULL}
        BY DEF Services, Labels, OpenAt, CloseAt
    <2>b. TypeOK /\ Enter(s, l, d, i, f)
        BY <1>2 DEF IInv
    <2>1. Moved(s, l, d, i, f, TRUE)
        BY <2>a, <2>b, EnterMoves
    <2>2. TypeOK'
        BY <1>2, <2>1 DEF ChanLock, IInv, TypeOK, Moved, MutexAlloc
    <2>3. (\A q \in Tasks : CallSound(call[q]))'
        BY <2>1, MovedSound DEF IInv
    <2>4. InChan = {} /\ mutex'["CHAN"] = curtcb /\ mutex'["DRV"] = mutex["DRV"]
        BY <1>2 DEF IInv, LocksHeld, CanAlloc, MutexAlloc, InChan, TypeOK, Mutexes
    <2>5. InChan' = {curtcb} /\ InDrv' = InDrv
        BY <1>1, <2>1, <2>4 DEF Moved, InDrv, InChan, AllocAt
    <2>6. LocksHeld'
        BY <2>4, <2>5 DEF IInv, LocksHeld
    <2>7. Ownership'
        BY <1>1, <2>1, OwnershipOutside
        DEF ChanLock, IInv, Labels, Guarded, OpenAt, CloseAt, AllocAt
    <2> QED  BY <1>2, <2>2, <2>3, <2>6, <2>7 DEF DeallocPanics, IInv
<1>3. CASE MutexDealloc("CHAN") /\ UNCHANGED <<call, halted>>
    <2>1. LocksHeld'
        BY <1>1, <1>3 DEF IInv, LocksHeld, InChan, InDrv, TypeOK, Mutexes,
                          MutexDealloc, CanDealloc
    <2>2. mutex' \in [Mutexes -> Tasks \cup {NULL}]
        BY <1>3 DEF MutexDealloc, IInv, TypeOK
    <2> QED  BY <1>3, <2>1, <2>2, StillStep DEF ChanLock, IInv, TypeOK
<1>4. CASE /\ ~CanAlloc("CHAN") /\ ~CanDealloc("CHAN")
           /\ ChanPanic(s) /\ UNCHANGED <<mutex, call>>
    <2>1. UNCHANGED <<curtcb, masked, mutex, drv, iote, fds, store, call, breach>>
        BY <1>4 DEF ChanLock
    <2>2. TypeOK'
        BY <1>4, <2>1 DEF IInv, TypeOK, Halts, DeallocPanics, ChanPanic
    <2>3. LocksHeld' /\ Ownership'
        BY <2>1 DEF IInv, LocksHeld, Ownership, InChan, InDrv
    <2> QED  BY <1>4, <2>1, <2>2, <2>3 DEF IInv, CallSound, CanAlloc, CanDealloc
<1> QED  BY <1>2, <1>3, <1>4 DEF ChanLock

(* A program calls open.                                                    *)
LEMMA OpenCallStep ==
    ASSUME IInv, NEW d \in Drivers, OpenCall(d)
    PROVE  IInv'
<1>1. PICK f \in Table : ChanLock("open", "find", d, NULL, f)
    BY DEF OpenCall, FreeFds
<1>2. CallSound(Frame("open", "find", d, NULL, f, TRUE))
    BY DEF CallSound, Frame, OpenAt, CloseAt, AllocAt
<1> QED  BY <1>1, <1>2, ChanLockStep DEF OpenCall

(* A program calls close.                                                   *)
LEMMA CloseCallStep ==
    ASSUME IInv, NEW f \in Fds, CloseCall(f)
    PROVE  IInv'
<1>1. fds[curtcb][f] \in Entries /\ f \in Table
    BY DEF IInv, TypeOK, CloseCall
<1>2. CallSound(Frame("close", "test", NULL, fds[curtcb][f], f, TRUE))
    BY <1>1 DEF CallSound, Frame, OpenAt, CloseAt, AllocAt
<1> QED  BY <1>1, <1>2, ChanLockStep DEF CloseCall

(* open and close: MUT_CHAN is given back, and the descriptor is left to    *)
(* store.                                                                   *)
LEMMA ChanUnlockStep ==
    ASSUME IInv, ChanUnlock
    PROVE  IInv'
<1> USE CurSound, ChannelsAssumption DEF At
<1>1. curtcb \in InChan /\ Cur.at = "unlock" /\ halted = "no"
    BY DEF CallSound, InChan, Cur, ChanUnlock
<1>2. mutex["CHAN"] = curtcb /\ InChan = {curtcb}
    BY <1>1 DEF IInv, LocksHeld
<1>3. /\ MutexDealloc("CHAN") /\ Return /\ UNCHANGED halted
      /\ UNCHANGED <<curtcb, drv, iote, breach>>
    BY <1>2 DEF ChanUnlock, CanDealloc
<1>4. Moved("none", "user", NULL, NULL, NULL, TRUE)
    BY <1>3, ReturnMoves DEF IInv
<1>5. fds' = fds /\ store' \in [Tasks -> Store]
    <2>1. CASE Cur.ok
        <3> DEFINE e == IF Cur.svc = "open" THEN Cur.io ELSE NULL
        <3>1. e \in Entries \cup {NULL} /\ Cur.fd \in Table
            BY <1>1, <2>1 DEF CallSound
        <3>2. store' = [store EXCEPT ![curtcb] = [fd |-> Cur.fd, io |-> e]]
            BY <1>2, <2>1 DEF ChanUnlock, CanDealloc
        <3> HIDE DEF e
        <3> QED  BY <3>1, <3>2 DEF IInv, TypeOK, Store, ChanUnlock
    <2>2. CASE ~Cur.ok
        BY <1>2, <2>2 DEF ChanUnlock, CanDealloc, IInv, TypeOK
    <2> QED  BY <2>1, <2>2
<1>6. TypeOK'
    BY <1>3, <1>4, <1>5 DEF IInv, TypeOK, Moved, MutexDealloc, Return
<1>7. CallSound(Frame("none", "user", NULL, NULL, NULL, TRUE))
    BY DEF CallSound, Frame, OpenAt, CloseAt, AllocAt
<1>8. (\A q \in Tasks : CallSound(call[q]))'
    BY <1>4, <1>7, MovedSound DEF IInv
<1>9. InChan' = {} /\ InDrv' = InDrv
    BY <1>1, <1>2, <1>4 DEF Moved, InChan, InDrv, AllocAt, Cur
<1>10. LocksHeld'
    BY <1>3, <1>9 DEF IInv, LocksHeld, MutexDealloc, TypeOK, Mutexes
<1>11. Ownership'
    BY <1>1, <1>3, <1>4, OwnershipOutside
    DEF IInv, Labels, Guarded, AllocAt
<1> QED  BY <1>1, <1>3, <1>6, <1>8, <1>10, <1>11 DEF DeallocPanics, IInv

(* open and close: the descriptor is stored; it is one of the table.        *)
LEMMA StoreFdStep ==
    ASSUME IInv, StoreFd
    PROVE  IInv'
<1> DEFINE h == store[curtcb].fd
           e == store[curtcb].io
<1>1. curtcb \in Tasks /\ h \in Table /\ e \in Entries \cup {NULL}
    BY DEF IInv, TypeOK, Store, StoreFd
<1>2. /\ fds' = [fds EXCEPT ![curtcb][h] = e]
      /\ store' = [store EXCEPT ![curtcb] = Nothing]
    BY DEF StoreFd
<1>3. Nothing \in Store
    BY DEF Nothing, Store
<1> HIDE DEF h, e
<1>4. /\ fds' \in [Tasks -> [Fds -> Entries \cup {NULL}]]
      /\ \A q \in Tasks : \A g \in Fds \ Table : fds'[q][g] = NULL
      /\ store' \in [Tasks -> Store]
    BY <1>1, <1>2, <1>3 DEF IInv, TypeOK
<1>5. TypeOK'
    BY <1>4 DEF IInv, TypeOK, StoreFd
<1>6. LocksHeld' /\ Ownership'
    BY DEF IInv, LocksHeld, Ownership, InChan, InDrv, StoreFd
<1> QED  BY <1>5, <1>6 DEF IInv, CallSound, StoreFd

(* The state after boot satisfies the strengthened invariant: no service    *)
(* is running.                                                              *)
LEMMA IInvInit ==
    ASSUME Init
    PROVE  IInv
<1> USE ChannelsAssumption DEF Init, UserMode
<1>1. TypeOK
    BY DEF TypeOK, Driver, Entry, Call, Services, Halts, Store, Nothing
<1>2. \A p \in Tasks : CallSound(call[p])
    BY DEF CallSound, OpenAt, CloseAt, AllocAt
<1>3. LocksHeld /\ Ownership
    BY DEF LocksHeld, Ownership, InChan, InDrv, AllocAt
<1> QED  BY <1>1, <1>2, <1>3 DEF DeallocPanics, IInv

(* Every step of every task preserves the strengthened invariant.           *)
LEMMA IInvStep ==
    ASSUME IInv, [Next]_vars
    PROVE  IInv'
<1>1. CASE \E p \in Tasks : Preempt(p)
    BY <1>1, PreemptStep
<1>2. CASE UserStep
    BY <1>2, UserMutexAllocStep, UserMutexDeallocStep, DrvRegStep, DrvStartStep,
       AllocCallStep, OpenCallStep, CloseCallStep, TransferCallStep, StoreFdStep DEF UserStep
<1>3. CASE KernelStep
    BY <1>3, AllocLockStep, AllocCheckStep, SetOwnerStep, SetAllocStep,
       AllocFreeStep, AllocReturnStep, OpenFindStep, OpenLocateStep,
       OpenActiveStep, OpenAvailStep, OpenOwnerStep, OpenMarkStep, CloseTestStep,
       CloseClearStep, ChanUnlockStep, TransferReturnStep DEF KernelStep
<1>4. CASE UNCHANGED vars
    BY <1>4 DEF vars, IInv, TypeOK, LocksHeld, Ownership, InChan, InDrv, CallSound
<1> QED  BY <1>1, <1>2, <1>3, <1>4 DEF Next

(* The strengthened invariant holds in every reachable state, for any       *)
(* number of tasks, drivers and table entries.                              *)
THEOREM InductiveInvariant == Spec => []IInv
<1>1. Init => IInv
    BY IInvInit
<1>2. IInv /\ [Next]_vars => IInv'
    BY IInvStep
<1> QED  BY <1>1, <1>2, PTL DEF Spec

(* The type invariant: no interleaving of open, close, alloc and the clock  *)
(* leaves an index outside its table, and the word that close reads past    *)
(* TUCB.iote stays null, so close of it never reaches the kernel.           *)
THEOREM TypeCorrect == Spec => []TypeOK
<1>1. IInv => TypeOK
    BY DEF IInv
<1> QED  BY <1>1, InductiveInvariant, PTL

(* Mutual exclusion: the cells of muxx_svc_mutex keep two tasks out of      *)
(* open and close, and out of the guarded part of alloc, whatever the       *)
(* clock interrupts.                                                        *)
THEOREM MutexesExclude == Spec => []MutualExclusion
<1>1. IInv => MutualExclusion
    BY DEF IInv, LocksHeld, MutualExclusion
<1> QED  BY <1>1, InductiveInvariant, PTL

(* Whenever nobody is inside the guarded part of alloc, a device is         *)
(* flagged as allocated exactly when it has an owner, although the two      *)
(* fields are stored one after the other at priority 0.                     *)
THEOREM OwnersMatch == Spec => []OwnerMatchesFlag
<1>1. IInv => OwnerMatchesFlag
    BY DEF IInv, Ownership, OwnerMatchesFlag
<1> QED  BY <1>1, InductiveInvariant, PTL

-----------------------------------------------------------------------------
(***************************************************************************)
(* I/O entries and descriptors.  EntryInv says what a task inside open or  *)
(* close may rely on: an entry being opened has no descriptor yet and      *)
(* keeps its driver, an entry being closed is the one of the descriptor    *)
(* and stays open until it is cleared.  Only the holder of MUT_CHAN        *)
(* changes entries and descriptors, so nobody else's part is disturbed.    *)
(***************************************************************************)

(* The descriptors of a task are among the words close takes.               *)
LEMMA TableFds == Table \subseteq Fds /\ NULL \notin Fds
BY ChannelsAssumption DEF Table, Fds

(* A step that neither stores a descriptor nor leaves one to store leaves   *)
(* the channels alone.                                                      *)
LEMMA SameChan ==
    ASSUME UNCHANGED <<fds, store>>
    PROVE  chan' = chan
BY DEF chan

LEMMA ChanType ==
    ASSUME IInv
    PROVE  chan \in [Tasks -> [Fds -> Entries \cup {NULL}]]
<1>1. ASSUME NEW p \in Tasks
      PROVE  chan[p] \in [Fds -> Entries \cup {NULL}]
    BY <1>1 DEF IInv, TypeOK, chan, Store
<1>2. chan = [p \in Tasks |-> chan[p]]
    BY DEF chan
<1> QED  BY <1>1, <1>2

(* Outside the end of open and close the channels of the running task are   *)
(* its descriptors.                                                         *)
LEMMA ChanCur ==
    ASSUME IInv, store[curtcb].fd = NULL
    PROVE  chan[curtcb] = fds[curtcb]
BY DEF chan, IInv, TypeOK

(* The store of a descriptor does not change the channels.                  *)
LEMMA StoreKeepsChan ==
    ASSUME IInv, StoreFd
    PROVE  chan' = chan
<1>1. /\ curtcb \in Tasks /\ store \in [Tasks -> Store]
      /\ fds \in [Tasks -> [Fds -> Entries \cup {NULL}]]
    BY DEF IInv, TypeOK
<1>2. ASSUME NEW p \in Tasks
      PROVE  chan'[p] = chan[p]
    <2>1. CASE p = curtcb
        BY <1>1, <2>1 DEF chan, StoreFd, Nothing
    <2>2. CASE p # curtcb
        BY <1>1, <2>2 DEF chan, StoreFd
    <2> QED  BY <2>1, <2>2
<1> QED  BY <1>2 DEF chan

(* The unlock at the end of open and close changes the channel of the       *)
(* descriptor it leaves to store, if any.                                   *)
LEMMA UnlockChan ==
    ASSUME IInv, ChanUnlock
    PROVE  IF CanDealloc("CHAN") /\ Cur.ok
           THEN chan' = [chan EXCEPT ![curtcb][Cur.fd] =
                            IF Cur.svc = "open" THEN Cur.io ELSE NULL]
           ELSE chan' = chan
<1>1. /\ curtcb \in Tasks /\ store \in [Tasks -> Store]
      /\ fds \in [Tasks -> [Fds -> Entries \cup {NULL}]]
      /\ store[curtcb].fd = NULL /\ fds' = fds
    BY DEF IInv, TypeOK, ChanUnlock, At
<1>2. CASE ~(CanDealloc("CHAN") /\ Cur.ok)
    <2>1. store' = store
        BY <1>2 DEF ChanUnlock
    <2> QED  BY <1>1, <1>2, <2>1, SameChan
<1>3. CASE CanDealloc("CHAN") /\ Cur.ok
    <2> DEFINE e == IF Cur.svc = "open" THEN Cur.io ELSE NULL
               h == Cur.fd
    <2>1. /\ CanDealloc("CHAN") /\ Cur.ok
          /\ store' = [store EXCEPT ![curtcb] = [fd |-> h, io |-> e]]
        BY <1>3 DEF ChanUnlock
    <2>2. h \in Table /\ h # NULL
        BY CurSound, ChannelsAssumption
        DEF ChanUnlock, At, CallSound, Table, Fds
    <2> HIDE DEF e, h
    <2>3. ASSUME NEW p \in Tasks
          PROVE  chan'[p] = [chan EXCEPT ![curtcb][h] = e][p]
        BY <1>1, <2>1, <2>2 DEF chan
    <2>4. chan' = [chan EXCEPT ![curtcb][h] = e]
        BY <2>3 DEF chan
    <2> QED  BY <1>3, <2>4 DEF e, h
<1> QED  BY <1>2, <1>3

(* The frame c of a task inside open.                                       *)
OpenSound(c) ==
    c.svc = "open" =>
        /\ c.at = "find" => c.io = NULL
        /\ c.io # NULL => \A q \in Tasks, g \in Fds : chan[q][g] # c.io
        /\ c.at \notin {"find", "locate"} /\ c.ok => iote[c.io].driver = c.dev
        /\ c.at = "unlock" /\ c.ok => iote[c.io].open

(* The frame c of task p inside close.                                      *)
CloseSound(p, c) ==
    c.svc = "close" =>
        /\ chan[p][c.fd] = c.io
        /\ c.at # "unlock" => iote[c.io].open /\ iote[c.io].driver # NULL
        /\ c.at \in AllocAt => c.dev = iote[c.io].driver
        /\ c.at \in {"test", "clear", "unlock"} => c.ok

(* An entry has one descriptor at most, in the whole system.                *)
OneDescriptor ==
    \A p, q \in Tasks : \A f, g \in Fds :
        chan[p][f] # NULL /\ chan[p][f] = chan[q][g] => p = q /\ f = g

EntryInv ==
    /\ OneDescriptor
    /\ DescriptorsOpen
    /\ \A p \in Tasks : OpenSound(call[p]) /\ CloseSound(p, call[p])

(* Whoever is inside open or close is there alone.                          *)
LEMMA AloneInChan ==
    ASSUME IInv, Cur.svc \in {"open", "close"}
    PROVE  \A q \in Tasks : q # curtcb => call[q].svc \notin {"open", "close"}
BY CurSound DEF IInv, LocksHeld, InChan, Cur

(* A step of the running task, when it changes entries or descriptors only  *)
(* inside open and close, leaves the part of every other task as it was.    *)
LEMMA EntriesStep ==
    ASSUME IInv, EntryInv, UNCHANGED curtcb,
           NEW s, NEW l, NEW d, NEW i, NEW f, NEW o, Moved(s, l, d, i, f, o),
           UNCHANGED <<iote, chan>> \/ Cur.svc \in {"open", "close"},
           OneDescriptor', DescriptorsOpen',
           OpenSound(call[curtcb])', CloseSound(curtcb, call[curtcb])'
    PROVE  EntryInv'
<1>1. ASSUME NEW q \in Tasks, q # curtcb
      PROVE  OpenSound(call[q])' /\ CloseSound(q, call[q])'
    <2>1. call'[q] = call[q]
        BY <1>1 DEF Moved
    <2>2. CASE UNCHANGED <<iote, chan>>
        BY <2>1, <2>2 DEF EntryInv, OpenSound, CloseSound
    <2>3. CASE Cur.svc \in {"open", "close"}
        BY <1>1, <2>1, <2>3, AloneInChan DEF OpenSound, CloseSound
    <2> QED  BY <2>2, <2>3
<1>2. ASSUME NEW q \in Tasks
      PROVE  OpenSound(call[q])' /\ CloseSound(q, call[q])'
    <2>1. CASE q = curtcb
        BY <2>1
    <2> QED  BY <1>1, <2>1
<1> QED  BY <1>2 DEF EntryInv

(* A step that changes neither entries nor descriptors and leaves no close  *)
(* asks for the new frame to be sound.                                      *)
LEMMA EntriesQuiet ==
    ASSUME IInv, EntryInv, UNCHANGED <<curtcb, iote, chan>>,
           NEW s, NEW l, NEW d, NEW i, NEW f, NEW o, Moved(s, l, d, i, f, o),
           Cur.svc = "close" => s = "close" /\ f = Cur.fd,
           OpenSound(Frame(s, l, d, i, f, o)),
           CloseSound(curtcb, Frame(s, l, d, i, f, o))
    PROVE  EntryInv'
<1>1. call'[curtcb] = Frame(s, l, d, i, f, o) /\ curtcb \in Tasks
    BY CurSound DEF Moved, Call, Frame
<1>2. OpenSound(call[curtcb])' /\ CloseSound(curtcb, call[curtcb])'
    BY <1>1 DEF OpenSound, CloseSound
<1>3. OneDescriptor'
    BY DEF EntryInv, OneDescriptor
<1>4. DescriptorsOpen'
    BY DEF EntryInv, DescriptorsOpen, Moved, Cur
<1> QED  BY <1>2, <1>3, <1>4, EntriesStep

(* EntriesQuiet for a step that goes on.                                    *)
LEMMA EntriesGoto ==
    ASSUME IInv, EntryInv, UNCHANGED <<curtcb, iote, chan>>,
           NEW l \in Labels, Goto(l),
           OpenSound(Frame(Cur.svc, l, Cur.dev, Cur.io, Cur.fd, Cur.ok)),
           CloseSound(curtcb, Frame(Cur.svc, l, Cur.dev, Cur.io, Cur.fd, Cur.ok))
    PROVE  EntryInv'
<1>1. Moved(Cur.svc, l, Cur.dev, Cur.io, Cur.fd, Cur.ok)
    BY GotoMoves DEF IInv
<1> HIDE DEF Cur
<1> QED  BY <1>1, EntriesQuiet

(* EntriesQuiet for a step that fails.                                      *)
LEMMA EntriesFail ==
    ASSUME IInv, EntryInv, UNCHANGED <<curtcb, iote, chan>>,
           NEW l \in Labels, Fail(l),
           OpenSound(Frame(Cur.svc, l, Cur.dev, Cur.io, Cur.fd, FALSE)),
           CloseSound(curtcb, Frame(Cur.svc, l, Cur.dev, Cur.io, Cur.fd, FALSE))
    PROVE  EntryInv'
<1>1. Moved(Cur.svc, l, Cur.dev, Cur.io, Cur.fd, FALSE)
    BY FailMoves DEF IInv
<1> HIDE DEF Cur
<1> QED  BY <1>1, EntriesQuiet

(* The parts of the running task.                                           *)
LEMMA CurEntries ==
    ASSUME IInv, EntryInv
    PROVE  OpenSound(Cur) /\ CloseSound(curtcb, Cur)
BY CurSound DEF EntryInv, Cur

(* Steps that move no frame and touch no entry.                             *)
LEMMA EntriesStill ==
    ASSUME EntryInv, UNCHANGED <<iote, chan, call>>
    PROVE  EntryInv'
BY DEF EntryInv, OneDescriptor, DescriptorsOpen, OpenSound, CloseSound

(* The steps of alloc change no entry, and whoever called it finds the      *)
(* entry as it left it.                                                     *)
LEMMA EntriesInAlloc ==
    ASSUME IInv, EntryInv, UNCHANGED <<curtcb, iote, chan>>,
           Cur.at \in AllocAt, NEW l \in AllocAt, Goto(l) \/ Fail(l)
    PROVE  EntryInv'
<1> USE CurSound, CurEntries DEF AllocAt, OpenSound, CloseSound, Frame, Labels
<1>1. CASE Goto(l)
    BY <1>1, EntriesGoto
<1>2. CASE Fail(l)
    BY <1>2, EntriesFail
<1> QED  BY <1>1, <1>2

(* The steps of alloc.                                                      *)
LEMMA AllocEntries ==
    ASSUME IInv, EntryInv,
           AllocLock \/ AllocCheck \/ SetOwner \/ SetAlloc \/ AllocFree
    PROVE  EntryInv'
<1>1. /\ UNCHANGED <<curtcb, iote, chan>>
      /\ Cur.at \in AllocAt
      /\ \E l \in AllocAt : Goto(l) \/ Fail(l)
    BY SameChan DEF AllocLock, AllocCheck, SetOwner, SetAlloc, AllocFree, At, AllocAt
<1> QED  BY <1>1, EntriesInAlloc

(* open: the entry found has no driver, so no descriptor leads to it.       *)
LEMMA OpenFindEntries ==
    ASSUME IInv, EntryInv, OpenFind
    PROVE  EntryInv'
<1>0. Cur.at = "find" /\ Cur.svc = "open" /\ UNCHANGED <<curtcb, iote, chan>>
    BY SameChan, CurSound DEF OpenFind, At, CallSound, OpenAt
<1>1. CASE Fail("unlock")
    BY <1>0, <1>1, CurEntries, EntriesFail
    DEF OpenSound, CloseSound, Frame, Labels
<1>2. CASE ~Fail("unlock")
    <2>1. PICK i \in Entries :
            /\ iote[i].driver = NULL
            /\ call' = [call EXCEPT ![curtcb].at = "locate", ![curtcb].io = i]
        BY <1>2 DEF OpenFind
    <2>2. [call[curtcb] EXCEPT !.at = "locate", !.io = i] \in Call
        BY CurSound DEF Call, Cur, OpenAt
    <2>3. Moved(Cur.svc, "locate", Cur.dev, i, Cur.fd, Cur.ok)
        BY <2>1, <2>2, CurSound DEF Moved, IInv, TypeOK, Cur, Call
    <2>4. ASSUME NEW q \in Tasks, NEW g \in Fds, chan[q][g] = i
          PROVE  FALSE
        <3>1. call[q].svc # "close"
            BY <1>0, AloneInChan DEF Cur
        <3>2. i # NULL
            BY ChannelsAssumption
        <3> QED  BY <2>1, <2>4, <3>1, <3>2 DEF EntryInv, DescriptorsOpen
    <2>5. /\ OpenSound(Frame(Cur.svc, "locate", Cur.dev, i, Cur.fd, Cur.ok))
          /\ CloseSound(curtcb, Frame(Cur.svc, "locate", Cur.dev, i, Cur.fd, Cur.ok))
        BY <1>0, <2>4 DEF OpenSound, CloseSound, Frame
    <2> HIDE DEF Cur
    <2> QED  BY <1>0, <2>3, <2>5, EntriesQuiet
<1> QED  BY <1>1, <1>2

(* A step of open that changes the entry being opened: nobody has a         *)
(* descriptor for it.                                                       *)
LEMMA OpeningEntry ==
    ASSUME IInv, EntryInv, Cur.svc = "open", Cur.ok, Cur.at # "find",
           UNCHANGED <<curtcb, chan>>, iote' \in [Entries -> Entry],
           \A e \in Entries : e # Cur.io => iote'[e] = iote[e],
           NEW l \in Labels \ {"find", "locate"}, Goto(l),
           iote'[Cur.io].driver = Cur.dev,
           l = "unlock" => iote'[Cur.io].open
    PROVE  EntryInv'
<1> USE CurSound, CurEntries, ChannelsAssumption
<1>0. Cur.io \in Entries /\ Cur.io # NULL
    BY DEF CallSound
<1>1. Moved(Cur.svc, l, Cur.dev, Cur.io, Cur.fd, Cur.ok)
    BY GotoMoves DEF IInv
<1>2. \A q \in Tasks, g \in Fds : chan[q][g] # Cur.io
    BY <1>0 DEF OpenSound
<1> HIDE DEF Cur
<1>3. OneDescriptor'
    BY DEF EntryInv, OneDescriptor
<1>4. DescriptorsOpen'
    <2> SUFFICES ASSUME NEW q \in Tasks, NEW g \in Fds, chan[q][g] # NULL,
                        ~(call'[q].svc = "close" /\ call'[q].fd = g)
                 PROVE  iote'[chan[q][g]].open /\ iote'[chan[q][g]].driver # NULL
        BY DEF DescriptorsOpen
    <2>1. call[q].svc # "close"
        BY AloneInChan DEF Cur
    <2>2. iote[chan[q][g]].open /\ iote[chan[q][g]].driver # NULL
        BY <2>1 DEF EntryInv, DescriptorsOpen
    <2>3. iote'[chan[q][g]] = iote[chan[q][g]]
        BY ChanType, <1>2 DEF IInv, TypeOK
    <2> QED  BY <2>2, <2>3
<1>5. OpenSound(call[curtcb])' /\ CloseSound(curtcb, call[curtcb])'
    BY <1>1, <1>2 DEF OpenSound, CloseSound, Moved
<1> QED  BY <1>1, <1>3, <1>4, <1>5, EntriesStep

(* open: the driver is stored, the status word cleared, the flags set.      *)
LEMMA OpenEntries ==
    ASSUME IInv, EntryInv, OpenLocate \/ OpenActive \/ OpenMark
    PROVE  EntryInv'
<1>0. Cur.svc = "open" /\ Cur.ok /\ Cur.at \in {"locate", "active", "mark"}
      /\ Cur.io \in Entries /\ Cur.dev \in Drivers
    BY CurSound DEF OpenLocate, OpenActive, OpenMark, At, CallSound, OpenAt
<1>a. iote \in [Entries -> Entry] /\ iote[Cur.io] \in Entry
    BY <1>0 DEF IInv, TypeOK
<1>1. CASE Fail("unlock") /\ UNCHANGED <<curtcb, iote, chan>>
    BY <1>0, <1>1, CurEntries, EntriesFail
    DEF OpenSound, CloseSound, Frame, Labels
<1> DEFINE e == Cur.io
           d == Cur.dev
<1>2. CASE OpenLocate /\ ~drv[d].free
    <2>1. /\ iote' = [iote EXCEPT ![e].driver = d]
          /\ Goto("active") /\ UNCHANGED <<curtcb, chan>>
        BY SameChan, <1>2 DEF OpenLocate
    <2>2. /\ iote' \in [Entries -> Entry] /\ iote'[e].driver = d
          /\ \A x \in Entries : x # e => iote'[x] = iote[x]
        BY <1>0, <1>a, <2>1 DEF Entry
    <2> QED  BY <1>0, <2>1, <2>2, OpeningEntry DEF Labels, OpenAt
<1>3. CASE OpenActive /\ drv[d].active
    <2>1. /\ iote' = [iote EXCEPT ![e].open = FALSE, ![e].dealloc = FALSE]
          /\ \E l \in {"mark", "avail"} : Goto(l)
          /\ UNCHANGED <<curtcb, chan>> /\ Cur.at = "active"
        BY SameChan, <1>3 DEF OpenActive, At
    <2>a. [iote[e] EXCEPT !.open = FALSE, !.dealloc = FALSE] \in Entry
        BY <1>a DEF Entry
    <2>2. /\ iote' \in [Entries -> Entry] /\ iote'[e].driver = iote[e].driver
          /\ \A x \in Entries : x # e => iote'[x] = iote[x]
        BY <1>0, <1>a, <2>1, <2>a DEF Entry
    <2>3. iote[e].driver = d
        BY <1>0, <2>1, CurEntries DEF OpenSound
    <2> QED  BY <1>0, <2>1, <2>2, <2>3, OpeningEntry DEF Labels, OpenAt
<1>4. CASE OpenMark
    <2>1. /\ iote' = [iote EXCEPT ![e].open = TRUE]
          /\ Goto("unlock") /\ UNCHANGED <<curtcb, chan>> /\ Cur.at = "mark"
        BY SameChan, <1>4 DEF OpenMark, At
    <2>2. /\ iote' \in [Entries -> Entry] /\ iote'[e].driver = iote[e].driver
          /\ iote'[e].open
          /\ \A x \in Entries : x # e => iote'[x] = iote[x]
        BY <1>0, <1>a, <2>1 DEF Entry
    <2>3. iote[e].driver = d
        BY <1>0, <2>1, CurEntries DEF OpenSound
    <2> QED  BY <1>0, <2>1, <2>2, <2>3, OpeningEntry DEF Labels
<1> QED  BY <1>1, <1>2, <1>3, <1>4, SameChan DEF OpenLocate, OpenActive

(* open: the tests of the device.                                           *)
LEMMA OpenTestEntries ==
    ASSUME IInv, EntryInv, OpenAvail \/ OpenOwner
    PROVE  EntryInv'
<1>0. Cur.svc = "open" /\ Cur.at \in {"avail", "owner"}
      /\ UNCHANGED <<curtcb, iote, chan>>
    BY SameChan, CurSound DEF OpenAvail, OpenOwner, At, CallSound, OpenAt
<1>1. Fail("unlock") \/ \E l \in {"owner", "lock", "mark"} : Goto(l)
    BY DEF OpenAvail, OpenOwner
<1> USE <1>0, CurEntries DEF OpenSound, CloseSound, Frame, Labels, OpenAt, AllocAt
<1>2. CASE Fail("unlock")
    BY <1>2, EntriesFail
<1>3. ASSUME NEW l \in {"owner", "lock", "mark"}, Goto(l)
      PROVE  EntryInv'
    BY <1>3, EntriesGoto
<1> QED  BY <1>1, <1>2, <1>3

(* alloc returns to a program, to open or to close.                         *)
LEMMA AllocReturnEntries ==
    ASSUME IInv, EntryInv, AllocReturn
    PROVE  EntryInv'
<1>0. Cur.at = "back" /\ UNCHANGED <<curtcb, chan>>
      /\ Cur.svc \in {"alloc", "dealloc", "open", "close"}
    BY SameChan DEF AllocReturn, At
<1>1. CASE Cur.svc \in {"alloc", "dealloc"}
    <2>1. Return /\ UNCHANGED iote
        BY <1>1 DEF AllocReturn
    <2>2. Moved("none", "user", NULL, NULL, NULL, TRUE)
        BY <2>1, ReturnMoves DEF IInv
    <2>3. /\ OpenSound(Frame("none", "user", NULL, NULL, NULL, TRUE))
          /\ CloseSound(curtcb, Frame("none", "user", NULL, NULL, NULL, TRUE))
        BY DEF OpenSound, CloseSound, Frame
    <2> QED  BY <1>0, <1>1, <2>1, <2>2, <2>3, EntriesQuiet
<1> DEFINE e == Cur.io
<1>2. CASE Cur.svc = "open" /\ Cur.ok
    <2>0. e \in Entries /\ iote \in [Entries -> Entry] /\ iote[e] \in Entry
        BY <1>0, <1>2, CurSound DEF CallSound, IInv, TypeOK
    <2>1. iote' = [iote EXCEPT ![e].dealloc = TRUE] /\ Goto("mark")
        BY <1>2 DEF AllocReturn
    <2>2. /\ iote' \in [Entries -> Entry] /\ iote'[e].driver = iote[e].driver
          /\ \A x \in Entries : x # e => iote'[x] = iote[x]
        BY <2>0, <2>1 DEF Entry
    <2>3. iote[e].driver = Cur.dev
        BY <1>0, <1>2, CurEntries DEF OpenSound
    <2> QED  BY <1>0, <1>2, <2>1, <2>2, <2>3, OpeningEntry DEF Labels, OpenAt
<1> USE CurEntries DEF OpenSound, CloseSound, Frame, Labels, OpenAt, CloseAt, AllocAt
<1>3. CASE Cur.svc = "open" /\ ~Cur.ok
    <2>1. Goto("unlock") /\ UNCHANGED iote
        BY <1>3 DEF AllocReturn
    <2> QED  BY <1>0, <1>3, <2>1, EntriesGoto
<1>4. CASE Cur.svc = "close" /\ Cur.ok
    <2>1. Goto("clear") /\ UNCHANGED iote
        BY <1>4 DEF AllocReturn
    <2> QED  BY <1>0, <1>4, <2>1, EntriesGoto
<1>5. CASE Cur.svc = "close" /\ ~Cur.ok
    BY <1>0, <1>5, EntriesStill DEF AllocReturn
<1> QED  BY <1>0, <1>1, <1>2, <1>3, <1>4, <1>5

(* close: the entry of a descriptor is open, so the test never fails.       *)
LEMMA CloseTestEntries ==
    ASSUME IInv, EntryInv, CloseTest
    PROVE  EntryInv'
<1>0. Cur.at = "test" /\ Cur.svc = "close" /\ UNCHANGED <<curtcb, iote, chan>>
    BY SameChan, CurSound DEF CloseTest, At, CallSound, CloseAt
<1> DEFINE e == iote[Cur.io]
<1>1. e.open /\ e.driver # NULL /\ e.driver \in Drivers \cup {NULL}
    BY <1>0, CurSound, CurEntries DEF CloseSound, CallSound, IInv, TypeOK, Entry
<1>2. CASE Goto("clear")
    BY <1>0, <1>1, <1>2, EntriesGoto, CurEntries
    DEF OpenSound, CloseSound, Frame, Labels, CloseAt, AllocAt
<1>3. CASE call' = [call EXCEPT ![curtcb].at = "lock", ![curtcb].dev = e.driver]
    <2>1. [call[curtcb] EXCEPT !.at = "lock", !.dev = e.driver] \in Call
        BY <1>1, CurSound DEF Call, Cur, AllocAt
    <2>2. Moved(Cur.svc, "lock", e.driver, Cur.io, Cur.fd, Cur.ok)
        BY <1>3, <2>1, CurSound DEF Moved, IInv, TypeOK, Cur, Call
    <2>3. /\ OpenSound(Frame(Cur.svc, "lock", e.driver, Cur.io, Cur.fd, Cur.ok))
          /\ CloseSound(curtcb,
                        Frame(Cur.svc, "lock", e.driver, Cur.io, Cur.fd, Cur.ok))
        BY <1>0, <1>1, CurEntries DEF OpenSound, CloseSound, Frame
    <2> HIDE DEF Cur, e
    <2> QED  BY <1>0, <2>2, <2>3, EntriesQuiet
<1> QED  BY <1>1, <1>2, <1>3 DEF CloseTest

(* close: no other descriptor leads to the entry that is cleared.           *)
LEMMA CloseClearEntries ==
    ASSUME IInv, EntryInv, CloseClear
    PROVE  EntryInv'
<1>0. Cur.at = "clear" /\ Cur.svc = "close" /\ Cur.io \in Entries
      /\ Cur.fd \in Fds /\ UNCHANGED <<curtcb, chan>> /\ curtcb \in Tasks
      /\ Goto("unlock")
    BY TableFds, SameChan, CurSound DEF CloseClear, At, CallSound, CloseAt
<1>1. Moved(Cur.svc, "unlock", Cur.dev, Cur.io, Cur.fd, Cur.ok)
    BY <1>0, GotoMoves DEF IInv, Labels
<1>2. \A x \in Entries : x # Cur.io => iote'[x] = iote[x]
    BY <1>0 DEF CloseClear, IInv, TypeOK
<1>3. chan[curtcb][Cur.fd] = Cur.io
    BY <1>0, CurEntries DEF CloseSound
<1>4. OneDescriptor'
    BY <1>0 DEF EntryInv, OneDescriptor
<1>5. DescriptorsOpen'
    <2> SUFFICES ASSUME NEW q \in Tasks, NEW g \in Fds, chan[q][g] # NULL,
                        ~(call'[q].svc = "close" /\ call'[q].fd = g)
                 PROVE  iote'[chan[q][g]].open /\ iote'[chan[q][g]].driver # NULL
        BY <1>0 DEF DescriptorsOpen
    <2>1. ~(call[q].svc = "close" /\ call[q].fd = g)
        BY <1>0, <1>1 DEF Moved, Cur
    <2>2. iote[chan[q][g]].open /\ iote[chan[q][g]].driver # NULL
        BY <2>1 DEF EntryInv, DescriptorsOpen
    <2>3. ~(q = curtcb /\ g = Cur.fd)
        BY <1>0, <2>1 DEF Cur
    <2>4. chan[q][g] # Cur.io
        BY <1>0, <1>3, <2>3 DEF EntryInv, OneDescriptor
    <2>5. iote'[chan[q][g]] = iote[chan[q][g]]
        BY ChanType, <1>2, <2>4 DEF IInv, TypeOK
    <2> QED  BY <2>2, <2>5
<1>6. Cur.ok
    BY <1>0, CurEntries DEF CloseSound
<1>7. OpenSound(call[curtcb])' /\ CloseSound(curtcb, call[curtcb])'
    BY <1>0, <1>1, <1>3, <1>6 DEF OpenSound, CloseSound, Moved, AllocAt
<1> HIDE DEF Cur
<1> QED  BY <1>0, <1>1, <1>4, <1>5, <1>7, EntriesStep

(* A program in user mode enters a service with a frame of its own.         *)
LEMMA EntriesEnter ==
    ASSUME IInv, EntryInv, At("user"), UNCHANGED <<curtcb, iote, chan>>,
           NEW s \in Services, NEW l \in Labels, NEW d \in Drivers \cup {NULL},
           NEW i \in Entries \cup {NULL}, NEW f \in Table \cup {NULL},
           Enter(s, l, d, i, f),
           OpenSound(Frame(s, l, d, i, f, TRUE)),
           CloseSound(curtcb, Frame(s, l, d, i, f, TRUE))
    PROVE  EntryInv'
<1>1. Moved(s, l, d, i, f, TRUE)
    BY EnterMoves DEF IInv
<1>2. Cur.svc # "close"
    BY CurSound DEF At, CallSound
<1> QED  BY <1>1, <1>2, EntriesQuiet

(* The services a program calls: alloc, read and write.                     *)
LEMMA CallEntries ==
    ASSUME IInv, EntryInv,
           \/ \E d \in Drivers : AllocCall(d, "alloc") \/ AllocCall(d, "dealloc")
           \/ \E f \in Fds : TransferCall(f)
    PROVE  EntryInv'
<1>1. ASSUME NEW d \in Drivers, NEW s \in {"alloc", "dealloc"}, AllocCall(d, s)
      PROVE  EntryInv'
    <2>1. /\ OpenSound(Frame(s, "lock", d, NULL, NULL, TRUE))
          /\ CloseSound(curtcb, Frame(s, "lock", d, NULL, NULL, TRUE))
        BY DEF OpenSound, CloseSound, Frame
    <2> QED  BY SameChan, <1>1, <2>1, EntriesEnter DEF AllocCall, Services, Labels, AllocAt
<1>2. ASSUME NEW f \in Fds, TransferCall(f)
      PROVE  EntryInv'
    <2>1. CASE ~Leads(f)
        BY <1>2, <2>1, SameChan, EntriesStill DEF TransferCall
    <2>2. CASE Leads(f)
        <3> DEFINE i == fds[curtcb][f]
                   d == iote[i].driver
        <3>1. i \in Entries /\ d \in Drivers \cup {NULL} /\ f \in Table
            BY <2>2 DEF Leads, IInv, TypeOK, Entry
        <3>2. /\ At("user") /\ UNCHANGED <<curtcb, iote, chan>>
              /\ Enter("transfer", "io", d, i, f)
            BY <1>2, <2>2, SameChan DEF TransferCall
        <3>3. /\ OpenSound(Frame("transfer", "io", d, i, f, TRUE))
              /\ CloseSound(curtcb, Frame("transfer", "io", d, i, f, TRUE))
            BY DEF OpenSound, CloseSound, Frame
        <3> HIDE DEF i, d
        <3> QED  BY <3>1, <3>2, <3>3, EntriesEnter DEF Services, Labels
    <2> QED  BY <2>1, <2>2
<1> QED  BY <1>1, <1>2

(* read and write return.                                                   *)
LEMMA TransferReturnEntries ==
    ASSUME IInv, EntryInv, TransferReturn
    PROVE  EntryInv'
<1>1. Moved("none", "user", NULL, NULL, NULL, TRUE)
    BY ReturnMoves DEF TransferReturn, IInv
<1>2. Cur.svc # "close"
    BY CurSound DEF TransferReturn, At, CallSound
<1>3. /\ OpenSound(Frame("none", "user", NULL, NULL, NULL, TRUE))
      /\ CloseSound(curtcb, Frame("none", "user", NULL, NULL, NULL, TRUE))
    BY DEF OpenSound, CloseSound, Frame
<1> QED  BY SameChan, <1>1, <1>2, <1>3, EntriesQuiet DEF TransferReturn

(* A program calls open or close.                                           *)
LEMMA ChanCallEntries ==
    ASSUME IInv, EntryInv,
           \/ \E d \in Drivers : OpenCall(d)
           \/ \E f \in Fds : CloseCall(f)
    PROVE  EntryInv'
<1>1. ASSUME NEW d \in Drivers, OpenCall(d)
      PROVE  EntryInv'
    <2>1. PICK f \in Table : ChanLock("open", "find", d, NULL, f)
        BY <1>1 DEF OpenCall, FreeFds
    <2>2. CASE UNCHANGED call
        BY SameChan, <2>1, <2>2, EntriesStill DEF ChanLock
    <2>3. CASE Enter("open", "find", d, NULL, f)
        <3>1. /\ OpenSound(Frame("open", "find", d, NULL, f, TRUE))
              /\ CloseSound(curtcb, Frame("open", "find", d, NULL, f, TRUE))
            BY DEF OpenSound, CloseSound, Frame
        <3>2. At("user") /\ UNCHANGED <<curtcb, iote, chan>>
            BY SameChan, <1>1, <2>1 DEF OpenCall, ChanLock
        <3> QED  BY <2>3, <3>1, <3>2, EntriesEnter DEF Services, Labels, OpenAt
    <2> QED  BY <2>1, <2>2, <2>3 DEF ChanLock
<1>2. ASSUME NEW f \in Fds, CloseCall(f)
      PROVE  EntryInv'
    <2> DEFINE i == chan[curtcb][f]
    <2>a. chan[curtcb] = fds[curtcb]
        BY <1>2, ChanCur DEF CloseCall, At
    <2>1. /\ ChanLock("close", "test", NULL, i, f) /\ At("user")
          /\ i \in Entries /\ i # NULL /\ curtcb \in Tasks /\ f \in Table
        BY <1>2, <2>a DEF CloseCall, IInv, TypeOK
    <2>2. CASE UNCHANGED call
        BY SameChan, <2>1, <2>2, EntriesStill DEF ChanLock
    <2>3. CASE Enter("close", "test", NULL, i, f)
        <3>1. call[curtcb].svc # "close"
            BY <2>1, CurSound DEF At, CallSound, Cur
        <3>2. iote[i].open /\ iote[i].driver # NULL
            BY <2>1, <3>1 DEF EntryInv, DescriptorsOpen
        <3>3. /\ OpenSound(Frame("close", "test", NULL, i, f, TRUE))
              /\ CloseSound(curtcb, Frame("close", "test", NULL, i, f, TRUE))
            BY <3>2 DEF OpenSound, CloseSound, Frame, AllocAt
        <3>4. UNCHANGED <<curtcb, iote, chan>>
            BY SameChan, <2>1 DEF ChanLock
        <3> HIDE DEF i
        <3> QED  BY <2>1, <2>3, <3>3, <3>4, EntriesEnter DEF Services, Labels, CloseAt
    <2> QED  BY <2>1, <2>2, <2>3 DEF ChanLock
<1> QED  BY <1>1, <1>2

(* The end of open and close.  open stores an entry that nobody has, open   *)
(* and with a driver; close forgets the entry it cleared.                   *)
LEMMA ChanUnlockEntries ==
    ASSUME IInv, EntryInv, ChanUnlock
    PROVE  EntryInv'
<1>0. /\ Cur.at = "unlock" /\ Cur.svc \in {"open", "close"} /\ Cur.fd \in Fds
      /\ UNCHANGED <<curtcb, iote>> /\ curtcb \in Tasks
    BY TableFds, CurSound DEF ChanUnlock, At, CallSound
<1>1. mutex["CHAN"] = curtcb
    BY <1>0 DEF IInv, LocksHeld, InChan, Cur
<1>2. Return
    BY <1>1 DEF ChanUnlock, CanDealloc
<1>3. Moved("none", "user", NULL, NULL, NULL, TRUE)
    BY <1>2, ReturnMoves DEF IInv
<1>4. OpenSound(call[curtcb])' /\ CloseSound(curtcb, call[curtcb])'
    BY <1>0, <1>3 DEF OpenSound, CloseSound, Moved
<1>5. \A q \in Tasks : q # curtcb => call[q].svc # "close"
    BY <1>0, AloneInChan
<1>6. CASE ~Cur.ok
    <2>1. Cur.svc = "open" /\ chan' = chan
        BY SameChan, <1>0, <1>1, <1>6, CurEntries DEF CloseSound, ChanUnlock, CanDealloc
    <2> HIDE DEF Cur
    <2>2. /\ OpenSound(Frame("none", "user", NULL, NULL, NULL, TRUE))
          /\ CloseSound(curtcb, Frame("none", "user", NULL, NULL, NULL, TRUE))
        BY DEF OpenSound, CloseSound, Frame
    <2> QED  BY <1>0, <1>3, <2>1, <2>2, EntriesQuiet
<1>7. CASE Cur.ok
    <2> DEFINE e == IF Cur.svc = "open" THEN Cur.io ELSE NULL
               h == Cur.fd
    <2>1. chan' = [chan EXCEPT ![curtcb][h] = e]
        BY <1>1, <1>7, UnlockChan DEF CanDealloc
    <2>2. e = NULL \/ /\ \A q \in Tasks, g \in Fds : chan[q][g] # e
                      /\ iote[e].open /\ iote[e].driver # NULL
        <3>1. CASE Cur.svc = "open"
            <4>1. Cur.io \in Entries /\ Cur.dev \in Drivers
                BY <1>0, <1>7, <3>1, CurSound DEF CallSound
            <4>2. Cur.io # NULL /\ Cur.dev # NULL
                BY <4>1, ChannelsAssumption
            <4> QED  BY <1>0, <1>7, <3>1, <4>2, CurEntries DEF OpenSound
        <3> QED  BY <1>0, <3>1
    <2>3. e = NULL => Cur.svc = "close"
        BY <1>0, <1>7, CurSound, ChannelsAssumption DEF CallSound
    <2>a. h \in Fds /\ chan \in [Tasks -> [Fds -> Entries \cup {NULL}]]
        BY ChanType, <1>0 DEF IInv, TypeOK
    <2>b. Cur.svc = "close" => call[curtcb].fd = h
        BY DEF Cur
    <2>c. call[curtcb].svc = Cur.svc
        BY DEF Cur
    <2> HIDE DEF e, h, Cur
    <2>4. /\ chan'[curtcb][h] = e
          /\ \A g \in Fds : g # h => chan'[curtcb][g] = chan[curtcb][g]
          /\ \A q \in Tasks : q # curtcb => chan'[q] = chan[q]
        BY <1>0, <2>1, <2>a
    <2>5. ASSUME NEW q \in Tasks, NEW g \in Fds
          PROVE  chan'[q][g] = IF q = curtcb /\ g = h THEN e ELSE chan[q][g]
        BY <2>4
    <2>6. OneDescriptor'
        <3> SUFFICES ASSUME NEW q \in Tasks, NEW r \in Tasks, NEW g \in Fds,
                            NEW k \in Fds, chan'[q][g] # NULL,
                            chan'[q][g] = chan'[r][k]
                     PROVE  q = r /\ g = k
            BY DEF OneDescriptor
        <3> QED  BY <2>2, <2>5 DEF EntryInv, OneDescriptor
    <2>7. DescriptorsOpen'
        <3> SUFFICES ASSUME NEW q \in Tasks, NEW g \in Fds, chan'[q][g] # NULL
                     PROVE  iote[chan'[q][g]].open /\ iote[chan'[q][g]].driver # NULL
            BY <1>0 DEF DescriptorsOpen
        <3>1. CASE q = curtcb /\ g = h
            BY <2>2, <2>5, <3>1
        <3>2. CASE ~(q = curtcb /\ g = h)
            <4>1. chan'[q][g] = chan[q][g]
                BY <2>5, <3>2
            <4>2. ~(call[q].svc = "close" /\ call[q].fd = g)
                BY <1>5, <2>b, <2>c, <3>2
            <4> QED  BY <4>1, <4>2 DEF EntryInv, DescriptorsOpen
        <3> QED  BY <3>1, <3>2
    <2> QED  BY <1>0, <1>3, <1>4, <2>6, <2>7, EntriesStep
<1> QED  BY <1>6, <1>7

(* Every step of every task preserves EntryInv.                             *)
LEMMA EntryInvStep ==
    ASSUME IInv, EntryInv, [Next]_vars
    PROVE  EntryInv'
<1>1. CASE (\E p \in Tasks : Preempt(p)) \/ UNCHANGED vars
    BY SameChan, <1>1, EntriesStill DEF Preempt, vars
<1>2. CASE UserStep
    <2>1. CASE \/ \E m \in Mutexes : UserMutexAlloc(m) \/ UserMutexDealloc(m)
               \/ \E d \in Drivers : DrvReg(d) \/ DrvStart(d)
        BY SameChan, <2>1, EntriesStill
        DEF UserMutexAlloc, UserMutexDealloc, DrvReg, DrvStart
    <2>2. CASE StoreFd
        BY <2>2, StoreKeepsChan, EntriesStill DEF StoreFd
    <2> QED  BY <1>2, <2>1, <2>2, CallEntries, ChanCallEntries DEF UserStep
<1>3. CASE KernelStep
    BY <1>3, AllocEntries, AllocReturnEntries, OpenFindEntries, OpenEntries,
       OpenTestEntries, CloseTestEntries, CloseClearEntries, ChanUnlockEntries,
       TransferReturnEntries DEF KernelStep
<1> QED  BY <1>1, <1>2, <1>3 DEF Next

(* EntryInv holds in every reachable state.                                 *)
THEOREM EntriesInvariant == Spec => []EntryInv
<1>1. Init => EntryInv
    BY ChannelsAssumption
    DEF Init, chan, Nothing, EntryInv, OneDescriptor, DescriptorsOpen, OpenSound, CloseSound,
        UserMode
<1>2. IInv /\ EntryInv /\ [Next]_vars => EntryInv'
    BY EntryInvStep
<1> QED  BY <1>1, <1>2, InductiveInvariant, PTL DEF Spec

(* No I/O entry is given out twice, for any number of tasks and entries:    *)
(* the search and the store of the driver are two statements, and only      *)
(* MUT_CHAN keeps a second open from finding the same entry.  A descriptor  *)
(* counts from the unlock of its open to the unlock of its close; open and  *)
(* close store it later, in user mode.                                      *)
THEOREM EntriesGivenOnce == Spec => []EntriesDistinct
<1>1. IInv /\ EntryInv => EntriesDistinct
    <2> SUFFICES ASSUME IInv, EntryInv, NEW i \in Entries PROVE
                 /\ \A p, q \in Tasks : Uses(p, i) /\ Uses(q, i) => p = q
                 /\ \A p \in Tasks : \A f, g \in Fds :
                       chan[p][f] = i /\ chan[p][g] = i => f = g
        BY DEF EntriesDistinct
    <2>1. i # NULL
        BY ChannelsAssumption
    <2>2. ASSUME NEW p \in Tasks, NEW q \in Tasks, Uses(p, i), Uses(q, i)
          PROVE  p = q
        <3>1. CASE call[p].svc = "open" /\ call[q].svc = "open"
            BY <3>1 DEF IInv, LocksHeld, InChan
        <3>2. ASSUME NEW r \in Tasks, NEW t \in Tasks, NEW f \in Fds,
                     chan[r][f] = i, call[t].svc = "open", call[t].io = i
              PROVE  FALSE
            BY <2>1, <3>2 DEF EntryInv, OpenSound
        <3>3. CASE \E f, g \in Fds : chan[p][f] = i /\ chan[q][g] = i
            BY <2>1, <3>3 DEF EntryInv, OneDescriptor
        <3> QED  BY <2>2, <3>1, <3>2, <3>3 DEF Uses
    <2> QED  BY <2>1, <2>2 DEF EntryInv, OneDescriptor
<1> QED  BY <1>1, InductiveInvariant, EntriesInvariant, PTL

(* A channel leads to an open entry with a driver, whatever opens and       *)
(* closes go on: read and write never follow the null driver of an entry.   *)
THEOREM DescriptorsLeadToDrivers == Spec => []DescriptorsOpen
<1>1. EntryInv => DescriptorsOpen
    BY DEF EntryInv
<1> QED  BY <1>1, EntriesInvariant, PTL

-----------------------------------------------------------------------------
(***************************************************************************)
(* Exclusive devices.  DeviceInv follows the ownership of a device that is *)
(* not shareable through alloc, open and close: a channel on it is backed  *)
(* by the ownership of its task from the mark of open to the deallocation  *)
(* of close, as long as no program broke the rules that breach records.    *)
(***************************************************************************)

(* Task p owns device d.                                                    *)
Owns(p, d) == drv[d].alloc /\ drv[d].ownerid = p

(* What the frame c of task p relies on whatever programs did: the fields   *)
(* of the device between the stores of alloc, and the dealloc flag, which   *)
(* marks entries on devices that are not shareable.                         *)
StageSound(p, c) ==
    /\ c.at \in AllocAt => c.dev \in Drivers
    /\ c.at = "own" => ~drv[c.dev].alloc /\ drv[c.dev].ownerid = NULL
    /\ c.at = "set" => ~drv[c.dev].alloc /\ drv[c.dev].ownerid = p
    /\ c.at = "disown" => drv[c.dev].alloc
    /\ c.at = "reset" => drv[c.dev].ownerid = NULL
    /\ c.at \in {"lock", "check", "own", "set"} => c.ok
    /\ c.at \in {"own", "set"} => c.svc \in {"open", "alloc"}
    /\ c.at \in {"disown", "reset"} => c.svc \in {"close", "dealloc"}
    /\ c.svc = "open" /\ c.at \in {"avail", "owner"} \cup AllocAt
          => c.dev \notin Shareable
    /\ c.svc = "close" /\ c.at \in AllocAt => iote[c.io].dealloc
    /\ c.svc = "open" /\ c.ok /\ c.at \in {"mark", "unlock"}
          /\ iote[c.io].dealloc => c.dev \notin Shareable

(* The descriptors of task p whose entries are marked dealloc.              *)
FlagsSound(p) ==
    \A f \in Fds : chan[p][f] # NULL /\ iote[chan[p][f]].dealloc
                      => iote[chan[p][f]].driver \notin Shareable

(* What the frame c of task p relies on without a breach.                   *)
HeldSound(p, c) ==
    /\ c.svc = "open" /\ c.ok /\ c.dev \notin Shareable
          /\ c.at \in {"mark", "unlock", "back", "free"} => Owns(p, c.dev)
    /\ c.at = "disown" => drv[c.dev].ownerid = p /\ OpenOn(p, c.dev) = {}
    /\ c.svc = "close" /\ c.at \in {"disown", "reset", "free"} => c.ok
    /\ c.svc = "close" /\ c.at = "back" /\ ~c.ok
          => curtcb = p /\ masked /\ mutex["DRV"] # NULL

(* A close that has given the device of entry i back, or needs not to.      *)
Leaving(c, i) ==
    c.svc = "close" /\ c.io = i /\ c.at \notin {"test", "lock", "check"}

(* Without a breach, the channels of task p are on devices it owns.         *)
ChannelsOwned(p) ==
    \A f \in Fds :
        ( /\ chan[p][f] # NULL
          /\ iote[chan[p][f]].driver \in Drivers \ Shareable
          /\ ~Leaving(call[p], chan[p][f]) )
        => Owns(p, iote[chan[p][f]].driver)

ClosePanicSound == halted = "muxx_svc_close" => mutex["DRV"] # NULL

DeviceInv ==
    /\ \A p \in Tasks : StageSound(p, call[p]) /\ FlagsSound(p)
    /\ breach = {} =>
          /\ \A p \in Tasks : HeldSound(p, call[p]) /\ ChannelsOwned(p)
          /\ ClosePanicSound

(* Whoever is inside the guarded part of alloc is there alone.              *)
LEMMA AloneInDrv ==
    ASSUME IInv, Cur.at \in Guarded
    PROVE  \A q \in Tasks : q # curtcb => call[q].at \notin Guarded
BY CurSound DEF IInv, LocksHeld, InDrv, Cur, Guarded

(* The fields of a driver that say who has it.                              *)
SameOwner ==
    \A d \in Drivers : /\ drv'[d].alloc = drv[d].alloc
                       /\ drv'[d].ownerid = drv[d].ownerid

(* The descriptors of task q and the entries they lead to are unchanged.    *)
SameChannels(q) ==
    /\ chan'[q] = chan[q]
    /\ \A g \in Fds : chan[q][g] # NULL => iote'[chan[q][g]] = iote[chan[q][g]]

(* A step of the running task, when it changes devices only inside the      *)
(* guarded part of alloc and entries only inside open and close, takes      *)
(* nothing from another task.                                               *)
LEMMA OthersKeep ==
    ASSUME IInv, EntryInv, DeviceInv, UNCHANGED curtcb,
           NEW s, NEW l, NEW d, NEW i, NEW f, NEW o, Moved(s, l, d, i, f, o),
           UNCHANGED iote \/ Cur.svc \in {"open", "close"},
           SameOwner \/ Cur.at \in Guarded,
           breach \subseteq breach',
           NEW q \in Tasks, q # curtcb, SameChannels(q),
           breach' = {} => \A e \in Drivers : Owns(q, e) => Owns(q, e)'
    PROVE  /\ StageSound(q, call[q])' /\ FlagsSound(q)'
           /\ breach' = {} => HeldSound(q, call[q])' /\ ChannelsOwned(q)'
<1>0. call'[q] = call[q] /\ call[q] \in Call
    BY DEF Moved, IInv, TypeOK
<1>1. StageSound(q, call[q]) /\ FlagsSound(q) /\ CallSound(call[q])
    BY DEF DeviceInv, IInv
<1>2. call[q].at \in Guarded =>
        /\ call[q].dev \in Drivers
        /\ drv'[call[q].dev].alloc = drv[call[q].dev].alloc
        /\ drv'[call[q].dev].ownerid = drv[call[q].dev].ownerid
    BY <1>1, AloneInDrv DEF SameOwner, StageSound, Guarded
<1>3. call[q].svc \in {"open", "close"} => UNCHANGED iote
    BY AloneInChan
<1>4. StageSound(q, call[q])'
    BY <1>0, <1>1, <1>2, <1>3 DEF StageSound, Guarded, AllocAt
<1>5. FlagsSound(q)'
    BY <1>1 DEF FlagsSound, SameChannels
<1>6. ASSUME breach' = {}
      PROVE  HeldSound(q, call[q])' /\ ChannelsOwned(q)'
    <2>1. HeldSound(q, call[q]) /\ ChannelsOwned(q)
        BY <1>6 DEF DeviceInv
    <2>2. ASSUME call[q].at = "disown"
          PROVE  OpenOn(q, call[q].dev)' = {}
        <3>1. OpenOn(q, call[q].dev) = {}
            BY <2>1, <2>2 DEF HeldSound
        <3> SUFFICES ASSUME NEW x \in Entries, x \in OpenOn(q, call[q].dev)'
                     PROVE  FALSE
            BY DEF OpenOn
        <3>2. PICK g \in Fds : chan'[q][g] = x
            BY DEF OpenOn
        <3>3. chan[q][g] = x /\ iote'[x] = iote[x]
            BY <3>2, ChannelsAssumption DEF SameChannels
        <3>4. x \in OpenOn(q, call[q].dev)
            BY <1>0, <3>3 DEF OpenOn
        <3> QED  BY <3>1, <3>4
    <2>3. HeldSound(q, call[q])'
        <3>1. call[q].svc = "open" => call[q].dev \in Drivers
            BY <1>1 DEF CallSound
        <3>2. /\ call[q].svc = "open" /\ call[q].ok /\ call[q].dev \notin Shareable
                    /\ call[q].at \in {"mark", "unlock", "back", "free"}
                    => Owns(q, call[q].dev)
              /\ call[q].at = "disown" => drv[call[q].dev].ownerid = q
              /\ call[q].svc = "close" /\ call[q].at \in {"disown", "reset", "free"}
                    => call[q].ok
              /\ ~(call[q].svc = "close" /\ call[q].at = "back" /\ ~call[q].ok)
            BY <2>1 DEF HeldSound
        <3>3. call[q].svc = "open" /\ Owns(q, call[q].dev)
                => drv'[call[q].dev].alloc /\ drv'[call[q].dev].ownerid = q
            BY <1>6, <3>1 DEF Owns
        <3>4. call[q].at = "disown" => drv'[call[q].dev].ownerid = q
            BY <1>2, <3>2 DEF Guarded, AllocAt
        <3> QED  BY <1>0, <2>2, <3>2, <3>3, <3>4 DEF HeldSound, Owns
    <2>4. ChannelsOwned(q)'
        BY <1>0, <1>6, <2>1 DEF ChannelsOwned, SameChannels, Leaving, Owns
    <2> QED  BY <2>3, <2>4
<1> QED  BY <1>4, <1>5, <1>6

(* Such a step preserves DeviceInv when the running task has what its new   *)
(* statement relies on.                                                     *)
LEMMA DeviceStep ==
    ASSUME IInv, EntryInv, DeviceInv, UNCHANGED curtcb,
           NEW s, NEW l, NEW d, NEW i, NEW f, NEW o, Moved(s, l, d, i, f, o),
           UNCHANGED iote \/ Cur.svc \in {"open", "close"},
           SameOwner \/ Cur.at \in Guarded,
           breach \subseteq breach', halted' # "muxx_svc_close",
           \A q \in Tasks : q # curtcb => SameChannels(q),
           breach' = {} => \A q \in Tasks, e \in Drivers :
                              q # curtcb /\ Owns(q, e) => Owns(q, e)',
           StageSound(curtcb, call[curtcb])', FlagsSound(curtcb)',
           breach' = {} => /\ HeldSound(curtcb, call[curtcb])'
                           /\ ChannelsOwned(curtcb)'
    PROVE  DeviceInv'
<1>1. ASSUME NEW q \in Tasks
      PROVE  /\ StageSound(q, call[q])' /\ FlagsSound(q)'
             /\ breach' = {} => HeldSound(q, call[q])' /\ ChannelsOwned(q)'
    <2>1. CASE q = curtcb
        BY <2>1
    <2>2. CASE q # curtcb
        <3>1. SameChannels(q)
            BY <2>2
        <3>2. breach' = {} => \A e \in Drivers : Owns(q, e) => Owns(q, e)'
            BY <2>2
        <3> QED  BY <2>2, <3>1, <3>2, OthersKeep
    <2> QED  BY <2>1, <2>2
<1> QED  BY <1>1 DEF DeviceInv, ClosePanicSound

(* A step that changes no device, no entry and no descriptor.               *)
LEMMA DeviceQuiet ==
    ASSUME IInv, EntryInv, DeviceInv, UNCHANGED <<curtcb, iote, chan, drv>>,
           NEW s, NEW l, NEW d, NEW i, NEW f, NEW o, Moved(s, l, d, i, f, o),
           breach \subseteq breach', halted' # "muxx_svc_close",
           \A x \in Entries : Leaving(Cur, x) => Leaving(Frame(s, l, d, i, f, o), x),
           StageSound(curtcb, Frame(s, l, d, i, f, o)),
           breach' = {} => HeldSound(curtcb, call[curtcb])'
    PROVE  DeviceInv'
<1>1. call'[curtcb] = Frame(s, l, d, i, f, o) /\ curtcb \in Tasks
    BY CurSound DEF Moved, Call, Frame
<1>2. StageSound(curtcb, call[curtcb])'
    BY <1>1 DEF StageSound
<1>3. FlagsSound(curtcb)'
    BY <1>1 DEF DeviceInv, FlagsSound
<1>4. ASSUME breach' = {}
      PROVE  ChannelsOwned(curtcb)'
    <2>1. ChannelsOwned(curtcb)
        BY <1>1, <1>4 DEF DeviceInv
    <2> SUFFICES ASSUME NEW g \in Fds, chan[curtcb][g] # NULL,
                        iote[chan[curtcb][g]].driver \in Drivers \ Shareable,
                        ~Leaving(call'[curtcb], chan[curtcb][g])
                 PROVE  Owns(curtcb, iote[chan[curtcb][g]].driver)
        BY DEF ChannelsOwned, Owns, Leaving
    <2>2. chan[curtcb][g] \in Entries
        BY ChanType, <1>1 DEF IInv, TypeOK
    <2>3. ~Leaving(Cur, chan[curtcb][g])
        BY <1>1, <2>2
    <2> QED  BY <2>1, <2>3 DEF ChannelsOwned, Cur
<1>5. SameOwner /\ \A q \in Tasks : SameChannels(q)
    BY DEF SameOwner, SameChannels
<1>6. \A q \in Tasks, e \in Drivers : Owns(q, e) => Owns(q, e)'
    BY DEF Owns
<1> QED  BY <1>2, <1>3, <1>4, <1>5, <1>6, DeviceStep

(* The parts of the running task.                                           *)
LEMMA CurDevice ==
    ASSUME IInv, DeviceInv
    PROVE  /\ StageSound(curtcb, Cur) /\ FlagsSound(curtcb)
           /\ breach = {} => HeldSound(curtcb, Cur) /\ ChannelsOwned(curtcb)
BY CurSound DEF DeviceInv, Cur

(* A step that moves no frame: a preemption, the MUTEX service, a driver    *)
(* registered or started, a refused open or close.                          *)
LEMMA DeviceStill ==
    ASSUME IInv, DeviceInv, halted = "no", halted' # "muxx_svc_close",
           UNCHANGED <<iote, chan, call, breach, masked>>, SameOwner,
           Cur.at = "user" \/ ~masked
    PROVE  DeviceInv'
<1>1. ASSUME NEW p \in Tasks
      PROVE  StageSound(p, call[p])' /\ FlagsSound(p)'
    <2>1. call[p].at \in AllocAt => call[p].dev \in Drivers
        BY DEF DeviceInv, StageSound
    <2> QED  BY <2>1 DEF DeviceInv, StageSound, FlagsSound, SameOwner, AllocAt
<1>2. ASSUME NEW p \in Tasks, breach = {}
      PROVE  HeldSound(p, call[p])' /\ ChannelsOwned(p)'
    <2>1. HeldSound(p, call[p]) /\ ChannelsOwned(p) /\ StageSound(p, call[p])
          /\ CallSound(call[p])
        BY <1>2 DEF DeviceInv, IInv
    <2>2. ~(call[p].svc = "close" /\ call[p].at = "back" /\ ~call[p].ok)
        BY <2>1 DEF HeldSound, Cur
    <2>3. OpenOn(p, call[p].dev)' = OpenOn(p, call[p].dev)
        BY DEF OpenOn
    <2>4. /\ call[p].svc = "open" => call[p].dev \in Drivers
          /\ call[p].at = "disown" => call[p].dev \in Drivers
        BY <2>1 DEF CallSound, StageSound, AllocAt
    <2>5. HeldSound(p, call[p])'
        BY <2>1, <2>2, <2>3, <2>4 DEF HeldSound, Owns, SameOwner
    <2>6. ChannelsOwned(p)'
        BY <2>1 DEF ChannelsOwned, Leaving, Owns, SameOwner
    <2> QED  BY <2>5, <2>6
<1> QED  BY <1>1, <1>2 DEF DeviceInv, ClosePanicSound

(* At most statements nothing is asked of the device without a breach.      *)
LEMMA HeldElsewhere ==
    ASSUME NEW s, NEW l, NEW d, NEW i, NEW f, NEW o, Moved(s, l, d, i, f, o),
           UNCHANGED curtcb,
           \/ l \notin {"mark", "unlock", "back", "free", "disown", "reset"}
           \/ s = "open" /\ ~o /\ l # "disown"
           \/ s \notin {"open", "close"} /\ l # "disown"
    PROVE  HeldSound(curtcb, call[curtcb])'
BY DEF HeldSound, Moved

(* A program calls a service.                                               *)
LEMMA DeviceEnter ==
    ASSUME IInv, EntryInv, DeviceInv, At("user"),
           UNCHANGED <<curtcb, iote, chan, drv, halted, breach>>,
           NEW s \in Services, NEW l \in {"find", "test", "lock", "io"},
           NEW d \in Drivers \cup {NULL},
           NEW i \in Entries \cup {NULL}, NEW f \in Table \cup {NULL},
           Enter(s, l, d, i, f),
           l = "lock" => s \in {"alloc", "dealloc"} /\ d \in Drivers
    PROVE  DeviceInv'
<1>1. Moved(s, l, d, i, f, TRUE)
    BY EnterMoves DEF IInv, Labels, OpenAt, CloseAt, AllocAt
<1>2. Cur.svc # "close" /\ halted = "no"
    BY CurSound DEF At, CallSound
<1>3. \A x \in Entries : ~Leaving(Cur, x)
    BY <1>2 DEF Leaving
<1>4. StageSound(curtcb, Frame(s, l, d, i, f, TRUE))
    BY DEF StageSound, Frame, AllocAt
<1>5. HeldSound(curtcb, call[curtcb])'
    BY <1>1, HeldElsewhere
<1> QED  BY <1>1, <1>2, <1>3, <1>4, <1>5, DeviceQuiet

(* The steps of a program.                                                  *)
LEMMA UserDevice ==
    ASSUME IInv, EntryInv, DeviceInv, UserStep
    PROVE  DeviceInv'
<1>1. CASE \/ \E m \in Mutexes : UserMutexAlloc(m) \/ UserMutexDealloc(m)
           \/ \E d \in Drivers : DrvReg(d) \/ DrvStart(d)
    <2>1. /\ Cur.at = "user" /\ halted = "no"
          /\ UNCHANGED <<iote, chan, call, breach, masked, halted>>
        BY SameChan, <1>1 DEF UserMutexAlloc, UserMutexDealloc, DrvReg, DrvStart, At
    <2>2. SameOwner
        <3>1. CASE UNCHANGED drv
            BY <3>1 DEF SameOwner
        <3>2. ASSUME NEW d \in Drivers, DrvReg(d) PROVE SameOwner
            BY <3>2 DEF DrvReg, SameOwner, IInv, TypeOK, Driver
        <3>3. ASSUME NEW d \in Drivers, DrvStart(d) PROVE SameOwner
            BY <3>3 DEF DrvStart, SameOwner, IInv, TypeOK, Driver
        <3> QED  BY <1>1, <3>1, <3>2, <3>3 DEF UserMutexAlloc, UserMutexDealloc
    <2> QED  BY <2>1, <2>2, DeviceStill
<1>2. ASSUME NEW d \in Drivers, NEW s \in {"alloc", "dealloc"}, AllocCall(d, s)
      PROVE  DeviceInv'
    BY SameChan, <1>2, DeviceEnter DEF AllocCall, Services
<1>3. ASSUME NEW f \in Fds, TransferCall(f)
      PROVE  DeviceInv'
    <2>1. CASE ~Leads(f)
        <3>1. /\ halted = "no" /\ halted' # "muxx_svc_close" /\ Cur.at = "user"
              /\ UNCHANGED <<curtcb, iote, chan, call, breach, masked, drv, mutex>>
            BY <1>3, <2>1, SameChan DEF TransferCall, At
        <3> QED  BY <3>1, DeviceStill DEF SameOwner
    <2>2. CASE Leads(f)
        <3> DEFINE i == fds[curtcb][f]
                   d == iote[i].driver
        <3>1. i \in Entries /\ d \in Drivers \cup {NULL} /\ f \in Table
            BY <2>2 DEF Leads, IInv, TypeOK, Entry
        <3>2. /\ At("user") /\ Enter("transfer", "io", d, i, f)
              /\ UNCHANGED <<curtcb, iote, chan, drv, halted, breach>>
            BY <1>3, <2>2, SameChan DEF TransferCall
        <3> HIDE DEF i, d
        <3> QED  BY <3>1, <3>2, DeviceEnter DEF Services
    <2> QED  BY <2>1, <2>2
<1>4. ASSUME NEW s \in {"open", "close"}, NEW l \in {"find", "test"},
             NEW d \in Drivers \cup {NULL}, NEW i \in Entries \cup {NULL},
             NEW f \in Table, At("user"), ChanLock(s, l, d, i, f)
      PROVE  DeviceInv'
    <2>1. CASE Enter(s, l, d, i, f) /\ UNCHANGED halted
        BY SameChan, <1>4, <2>1, DeviceEnter DEF ChanLock, Services
    <2>2. CASE UNCHANGED call
        <3>1. Cur.at = "user" /\ halted = "no" /\ halted' # "muxx_svc_close"
            BY <1>4 DEF ChanLock, ChanPanic, At
        <3> QED  BY SameChan, <1>4, <2>2, <3>1, DeviceStill DEF ChanLock, SameOwner
    <2> QED  BY <1>4, <2>1, <2>2 DEF ChanLock
<1>5. ASSUME NEW d \in Drivers, OpenCall(d)
      PROVE  DeviceInv'
    BY <1>4, <1>5 DEF OpenCall, FreeFds
<1>6. ASSUME NEW f \in Fds, CloseCall(f)
      PROVE  DeviceInv'
    <2>1. fds[curtcb][f] \in Entries \cup {NULL} /\ f \in Table
        BY <1>6 DEF IInv, TypeOK, CloseCall
    <2> QED  BY <1>4, <1>6, <2>1 DEF CloseCall
<1>7. CASE StoreFd
    <2>1. /\ halted = "no" /\ Cur.at = "user"
          /\ UNCHANGED <<iote, chan, call, breach, masked, drv, mutex, halted>>
        BY <1>7, StoreKeepsChan DEF StoreFd
    <2> QED  BY <2>1, DeviceStill DEF SameOwner
<1> QED  BY <1>1, <1>2, <1>3, <1>5, <1>6, <1>7 DEF UserStep

(* alloc: MUT_DRV is taken, or refused; then the task goes on masked.       *)
LEMMA AllocLockDevice ==
    ASSUME IInv, EntryInv, DeviceInv, AllocLock
    PROVE  DeviceInv'
<1>0. /\ Cur.at = "lock" /\ halted = "no"
      /\ UNCHANGED <<curtcb, iote, chan, drv, halted, breach>>
    BY SameChan DEF AllocLock, At
<1>1. \A x \in Entries : ~Leaving(Cur, x)
    BY <1>0 DEF Leaving
<1>2. StageSound(curtcb, Cur)
    BY CurDevice
<1>3. CASE Goto("check")
    <2>1. Moved(Cur.svc, "check", Cur.dev, Cur.io, Cur.fd, Cur.ok)
        BY <1>3, GotoMoves DEF IInv, Labels, AllocAt
    <2>2. StageSound(curtcb, Frame(Cur.svc, "check", Cur.dev, Cur.io, Cur.fd, Cur.ok))
        BY <1>0, <1>2 DEF StageSound, Frame, AllocAt
    <2> HIDE DEF Cur
    <2>3. HeldSound(curtcb, call[curtcb])'
        BY <1>0, <2>1, HeldElsewhere
    <2> QED  BY <1>0, <1>1, <2>1, <2>2, <2>3, DeviceQuiet
<1>4. CASE Fail("back") /\ masked' = TRUE /\ UNCHANGED mutex /\ ~CanAlloc("DRV")
    <2>1. Moved(Cur.svc, "back", Cur.dev, Cur.io, Cur.fd, FALSE)
        BY <1>4, FailMoves DEF IInv, Labels, AllocAt
    <2>2. StageSound(curtcb, Frame(Cur.svc, "back", Cur.dev, Cur.io, Cur.fd, FALSE))
        BY <1>0, <1>2 DEF StageSound, Frame, AllocAt
    <2> HIDE DEF Cur
    <2>3. HeldSound(curtcb, call[curtcb])'
        BY <1>0, <1>4, <2>1 DEF HeldSound, Moved, CanAlloc
    <2> QED  BY <1>0, <1>1, <2>1, <2>2, <2>3, DeviceQuiet
<1> QED  BY <1>3, <1>4 DEF AllocLock

(* alloc: the tests.  Without a breach a close finds its device allocated   *)
(* and its own.                                                             *)
LEMMA AllocCheckDevice ==
    ASSUME IInv, EntryInv, DeviceInv, AllocCheck
    PROVE  DeviceInv'
<1> DEFINE d == Cur.dev
<1>0. /\ Cur.at = "check" /\ halted = "no" /\ curtcb \in Tasks
      /\ UNCHANGED <<curtcb, iote, chan, drv, halted>>
      /\ breach \subseteq breach'
    BY SameChan, CurSound DEF AllocCheck, At
<1>1. \A x \in Entries : ~Leaving(Cur, x)
    BY <1>0 DEF Leaving
<1>2. StageSound(curtcb, Cur) /\ d \in Drivers /\ Cur.ok
    BY <1>0, CurDevice DEF StageSound, AllocAt
<1>3. drv[d].alloc <=> drv[d].ownerid # NULL
    BY <1>0, <1>2, OwnershipCur DEF Guarded, AllocAt
<1>4. Cur.svc = "close" /\ breach = {} => Owns(curtcb, d)
    <2> SUFFICES ASSUME Cur.svc = "close", breach = {} PROVE Owns(curtcb, d)
        OBVIOUS
    <2>1. /\ chan[curtcb][Cur.fd] = Cur.io /\ iote[Cur.io].driver = d
          /\ iote[Cur.io].dealloc /\ Cur.fd \in Fds /\ Cur.io \in Entries
        BY TableFds, <1>0, <1>2, CurSound, CurEntries
        DEF CloseSound, CallSound, StageSound, AllocAt
    <2>2. Cur.io # NULL
        BY <2>1, ChannelsAssumption
    <2>3. d \notin Shareable
        BY <2>1, <2>2, CurDevice DEF FlagsSound
    <2>4. ~Leaving(call[curtcb], Cur.io)
        BY <1>0 DEF Leaving, Cur
    <2> QED  BY <1>2, <2>1, <2>2, <2>3, <2>4, CurDevice DEF ChannelsOwned
<1>5. CASE Goto("own") /\ ~drv[d].alloc /\ Cur.svc \in {"open", "alloc"}
    <2>1. Moved(Cur.svc, "own", d, Cur.io, Cur.fd, Cur.ok)
        BY <1>5, GotoMoves DEF IInv, Labels, AllocAt
    <2>2. StageSound(curtcb, Frame(Cur.svc, "own", d, Cur.io, Cur.fd, Cur.ok))
        BY <1>0, <1>2, <1>3, <1>5 DEF StageSound, Frame, AllocAt
    <2> HIDE DEF Cur, d
    <2>3. HeldSound(curtcb, call[curtcb])'
        BY <1>0, <2>1, HeldElsewhere
    <2> QED  BY <1>0, <1>1, <2>1, <2>2, <2>3, DeviceQuiet
<1>6. CASE Fail("free") /\ (Cur.svc = "close" => ~drv[d].alloc)
    <2>1. Moved(Cur.svc, "free", d, Cur.io, Cur.fd, FALSE)
        BY <1>6, FailMoves DEF IInv, Labels, AllocAt
    <2>2. StageSound(curtcb, Frame(Cur.svc, "free", d, Cur.io, Cur.fd, FALSE))
        BY <1>0, <1>2 DEF StageSound, Frame, AllocAt
    <2>3. breach' = {} => Cur.svc # "close"
        BY <1>0, <1>4, <1>6 DEF Owns
    <2> HIDE DEF Cur, d
    <2>4. breach' = {} => HeldSound(curtcb, call[curtcb])'
        BY <1>0, <2>1, <2>3, HeldElsewhere DEF Services
    <2> QED  BY <1>0, <1>1, <2>1, <2>2, <2>4, DeviceQuiet
<1>7. ASSUME drv[d].alloc, breach' = breach \cup DeallocBreach(d),
             NEW o \in BOOLEAN, Moved(Cur.svc, "disown", d, Cur.io, Cur.fd, o),
             drv[d].ownerid = curtcb => o, Cur.svc \in {"close", "dealloc"}
      PROVE  DeviceInv'
    <2>1. StageSound(curtcb, Frame(Cur.svc, "disown", d, Cur.io, Cur.fd, o))
        BY <1>0, <1>2, <1>7 DEF StageSound, Frame, AllocAt
    <2>2. ASSUME breach' = {} PROVE HeldSound(curtcb, call[curtcb])'
        <3>1. drv[d].ownerid = curtcb /\ OpenOn(curtcb, d) = {}
            BY <1>7, <2>2 DEF DeallocBreach
        <3>2. call'[curtcb].svc = call[curtcb].svc
              /\ call'[curtcb].io = call[curtcb].io
            BY <1>7 DEF Moved, Cur
        <3>3. {x \in Entries : /\ iote'[x].driver = d
                               /\ iote'[x].open
                               /\ \E g \in Fds : chan'[curtcb][g] = x
                               /\ ~(call'[curtcb].svc = "close"
                                    /\ call'[curtcb].io = x)} = {}
            BY <1>0, <3>1, <3>2 DEF OpenOn
        <3>4. call'[curtcb].at = "disown" /\ call'[curtcb].dev = d
              /\ call'[curtcb].ok
            BY <1>7, <3>1 DEF Moved
        <3> HIDE DEF Cur, d
        <3>5. OpenOn(curtcb, call[curtcb].dev)' = {}
            BY <1>0, <3>3, <3>4 DEF OpenOn
        <3> QED  BY <1>0, <3>1, <3>4, <3>5 DEF HeldSound
    <2> HIDE DEF Cur, d
    <2> QED  BY <1>0, <1>1, <1>7, <2>1, <2>2, DeviceQuiet
<1>8. CASE /\ drv[d].alloc /\ breach' = breach \cup DeallocBreach(d)
           /\ Goto("disown") \/ (Fail("disown") /\ drv[d].ownerid # curtcb)
           /\ Cur.svc \in {"close", "dealloc"}
    <2>1. CASE Goto("disown")
        <3>1. Moved(Cur.svc, "disown", d, Cur.io, Cur.fd, Cur.ok)
            BY <2>1, GotoMoves DEF IInv, Labels, AllocAt
        <3>2. Cur.ok \in BOOLEAN
            BY CurSound DEF Call
        <3> QED  BY <1>2, <1>7, <1>8, <3>1, <3>2
    <2>2. CASE Fail("disown") /\ drv[d].ownerid # curtcb
        <3>1. Moved(Cur.svc, "disown", d, Cur.io, Cur.fd, FALSE)
            BY <2>2, FailMoves DEF IInv, Labels, AllocAt
        <3> QED  BY <1>7, <1>8, <2>2, <3>1
    <2> QED  BY <1>8, <2>1, <2>2
<1> QED  BY <1>5, <1>6, <1>8 DEF AllocCheck

(* A step of alloc that stores into the device: the frame moves on, and no  *)
(* entry or descriptor changes.                                             *)
LEMMA DeviceStore ==
    ASSUME IInv, EntryInv, DeviceInv, Cur.at \in Guarded, halted = "no",
           UNCHANGED <<curtcb, iote, chan, halted, breach>>,
           NEW l \in Guarded, Moved(Cur.svc, l, Cur.dev, Cur.io, Cur.fd, Cur.ok),
           \A e \in Drivers : e # Cur.dev => drv'[e] = drv[e],
           breach = {} => \A q \in Tasks, e \in Drivers :
                             q # curtcb /\ Owns(q, e) => Owns(q, e)',
           StageSound(curtcb, call[curtcb])',
           breach = {} => /\ HeldSound(curtcb, call[curtcb])'
                          /\ ChannelsOwned(curtcb)'
    PROVE  DeviceInv'
<1>1. FlagsSound(curtcb)'
    BY CurDevice DEF FlagsSound
<1>2. \A q \in Tasks : SameChannels(q)
    BY DEF SameChannels
<1> HIDE DEF Cur
<1> QED  BY <1>1, <1>2, DeviceStep

(* alloc: ownerid is stored.  Before, nobody owned the device that is being *)
(* allocated; without a breach, the device being deallocated was the        *)
(* caller's and had no other channel.                                       *)
LEMMA SetOwnerDevice ==
    ASSUME IInv, EntryInv, DeviceInv, SetOwner
    PROVE  DeviceInv'
<1> DEFINE d == Cur.dev
<1>0. /\ Cur.at \in {"own", "disown"} /\ halted = "no" /\ curtcb \in Tasks
      /\ UNCHANGED <<curtcb, iote, chan, halted, breach>>
      /\ Cur.at \in Guarded
    BY SameChan, CurSound DEF SetOwner, At, Guarded, AllocAt
<1>1. StageSound(curtcb, Cur) /\ d \in Drivers
    BY <1>0, CurDevice DEF StageSound, AllocAt
<1>2. Cur.svc = "open" => d \notin Shareable
    BY <1>0, <1>1 DEF StageSound, AllocAt
<1>3. CASE Cur.at = "own"
    <2>1. drv' = [drv EXCEPT ![d].ownerid = curtcb] /\ Goto("set")
        BY <1>3 DEF SetOwner, At
    <2>2. Moved(Cur.svc, "set", d, Cur.io, Cur.fd, Cur.ok)
        BY <2>1, GotoMoves DEF IInv, Labels, AllocAt
    <2>3. ~drv[d].alloc /\ Cur.ok
        BY <1>1, <1>3 DEF StageSound
    <2>4. /\ \A e \in Drivers : e # d => drv'[e] = drv[e]
          /\ drv'[d].alloc = drv[d].alloc /\ drv'[d].ownerid = curtcb
        BY <1>1, <2>1 DEF IInv, TypeOK, Driver
    <2>5. \A q \in Tasks, e \in Drivers : Owns(q, e) => e # d /\ Owns(q, e)'
        BY <2>3, <2>4 DEF Owns
    <2>6. StageSound(curtcb, call[curtcb])'
        BY <1>0, <1>1, <1>3, <2>2, <2>3, <2>4 DEF StageSound, Moved, AllocAt
    <2>7. HeldSound(curtcb, call[curtcb])'
        BY <1>0, <2>2, HeldElsewhere
    <2>8. ASSUME breach = {} PROVE ChannelsOwned(curtcb)'
        <3>1. ChannelsOwned(curtcb)
            BY <2>8, CurDevice
        <3>2. \A x \in Entries : ~Leaving(call[curtcb], x)
            BY <1>1, <1>3 DEF Leaving, Cur, StageSound
        <3> QED  BY ChanType, <1>0, <2>5, <3>1, <3>2 DEF ChannelsOwned, IInv, TypeOK
    <2> QED  BY <1>0, <2>2, <2>4, <2>5, <2>6, <2>7, <2>8, DeviceStore
             DEF Guarded, AllocAt
<1>4. CASE Cur.at = "disown"
    <2>1. drv' = [drv EXCEPT ![d].ownerid = NULL] /\ Goto("reset")
        BY <1>4 DEF SetOwner, At
    <2>2. Moved(Cur.svc, "reset", d, Cur.io, Cur.fd, Cur.ok)
        BY <2>1, GotoMoves DEF IInv, Labels, AllocAt
    <2>4. /\ \A e \in Drivers : e # d => drv'[e] = drv[e]
          /\ drv'[d].alloc = drv[d].alloc /\ drv'[d].ownerid = NULL
        BY <1>1, <2>1 DEF IInv, TypeOK, Driver
    <2>5. breach = {} => \A q \in Tasks, e \in Drivers :
                            q # curtcb /\ Owns(q, e) => Owns(q, e)'
        BY <1>4, <2>4, CurDevice DEF Owns, HeldSound
    <2>6. StageSound(curtcb, call[curtcb])'
        BY <1>0, <1>1, <1>4, <2>2, <2>4 DEF StageSound, Moved, AllocAt
    <2>7. ASSUME breach = {}
          PROVE  HeldSound(curtcb, call[curtcb])' /\ ChannelsOwned(curtcb)'
        <3>1. HeldSound(curtcb, Cur) /\ ChannelsOwned(curtcb)
            BY <2>7, CurDevice
        <3>2. HeldSound(curtcb, call[curtcb])'
            BY <1>0, <1>4, <2>2, <3>1 DEF HeldSound, Moved
        <3>3. ASSUME NEW g \in Fds, chan[curtcb][g] # NULL,
                     iote[chan[curtcb][g]].driver = d,
                     ~Leaving(call'[curtcb], chan[curtcb][g])
              PROVE  FALSE
            <4> DEFINE x == chan[curtcb][g]
            <4>1. x \in Entries
                BY ChanType, <1>0, <3>3 DEF IInv, TypeOK
            <4>2. ~(call[curtcb].svc = "close" /\ call[curtcb].io = x)
                BY <2>2, <3>3 DEF Leaving, Moved, Cur
            <4>3. ~(call[curtcb].svc = "close" /\ call[curtcb].fd = g)
                BY <1>0, <4>2, CurEntries DEF CloseSound, Cur
            <4>4. iote[x].open
                BY <1>0, <3>3, <4>3 DEF EntryInv, DescriptorsOpen
            <4>5. x \in OpenOn(curtcb, d)
                BY <3>3, <4>1, <4>2, <4>4 DEF OpenOn
            <4> QED  BY <1>4, <3>1, <4>5 DEF HeldSound
        <3>4. ChannelsOwned(curtcb)'
            <4> SUFFICES ASSUME NEW g \in Fds, chan[curtcb][g] # NULL,
                                iote[chan[curtcb][g]].driver \in Drivers \ Shareable,
                                ~Leaving(call'[curtcb], chan[curtcb][g])
                         PROVE  Owns(curtcb, iote[chan[curtcb][g]].driver)'
                BY <1>0 DEF ChannelsOwned, Owns, Leaving
            <4>1. iote[chan[curtcb][g]].driver # d
                BY <3>3
            <4>2. ~Leaving(call[curtcb], chan[curtcb][g])
                BY <2>2 DEF Leaving, Moved, Cur
            <4>3. Owns(curtcb, iote[chan[curtcb][g]].driver)
                BY <3>1, <4>2 DEF ChannelsOwned
            <4> QED  BY <1>0, <2>4, <4>1, <4>3 DEF Owns
        <3> QED  BY <3>2, <3>4
    <2> QED  BY <1>0, <2>2, <2>4, <2>5, <2>6, <2>7, DeviceStore
             DEF Guarded, AllocAt
<1> QED  BY <1>0, <1>3, <1>4

(* alloc: the flag is stored.  Set, it completes the ownership of the       *)
(* caller; reset, it takes it from nobody, for the device has no owner.     *)
LEMMA SetAllocDevice ==
    ASSUME IInv, EntryInv, DeviceInv, SetAlloc
    PROVE  DeviceInv'
<1> DEFINE d == Cur.dev
<1>0. /\ Cur.at \in {"set", "reset"} /\ halted = "no" /\ curtcb \in Tasks
      /\ UNCHANGED <<curtcb, iote, chan, halted, breach>>
      /\ Cur.at \in Guarded /\ Goto("free")
    BY SameChan, CurSound DEF SetAlloc, At, Guarded, AllocAt
<1>1. StageSound(curtcb, Cur) /\ d \in Drivers
    BY <1>0, CurDevice DEF StageSound, AllocAt
<1>2. Moved(Cur.svc, "free", d, Cur.io, Cur.fd, Cur.ok)
    BY <1>0, GotoMoves DEF IInv, Labels, AllocAt
<1>3. drv' = [drv EXCEPT ![d].alloc = (Cur.at = "set")]
    BY DEF SetAlloc, At
<1>4. /\ \A e \in Drivers : e # d => drv'[e] = drv[e]
      /\ drv'[d].alloc = (Cur.at = "set") /\ drv'[d].ownerid = drv[d].ownerid
    BY <1>1, <1>3, FlagStored DEF IInv
<1>5. \A q \in Tasks, e \in Drivers : Owns(q, e) => Owns(q, e)'
    <2>1. Cur.at = "reset" => drv[d].ownerid \notin Tasks
        BY <1>1, ChannelsAssumption DEF StageSound
    <2> QED  BY <1>0, <1>4, <2>1 DEF Owns
<1>6. StageSound(curtcb, call[curtcb])'
    BY <1>0, <1>1, <1>2 DEF StageSound, Moved, AllocAt
<1>7. ASSUME breach = {}
      PROVE  HeldSound(curtcb, call[curtcb])' /\ ChannelsOwned(curtcb)'
    <2>1. HeldSound(curtcb, Cur) /\ ChannelsOwned(curtcb)
        BY <1>7, CurDevice
    <2>2. Cur.svc = "open" => drv'[d].alloc /\ drv'[d].ownerid = curtcb
        BY <1>0, <1>1, <1>4 DEF StageSound
    <2>3. Cur.svc = "close" => Cur.ok
        BY <1>0, <1>1, <2>1 DEF StageSound, HeldSound
    <2>4. HeldSound(curtcb, call[curtcb])'
        BY <1>0, <1>2, <2>2, <2>3 DEF HeldSound, Moved, Owns
    <2>5. \A x \in Entries : Leaving(call[curtcb], x) => Leaving(call'[curtcb], x)
        BY <1>2 DEF Leaving, Moved, Cur
    <2>6. ChannelsOwned(curtcb)'
        <3> SUFFICES ASSUME NEW g \in Fds, chan[curtcb][g] # NULL,
                            iote[chan[curtcb][g]].driver \in Drivers \ Shareable,
                            ~Leaving(call'[curtcb], chan[curtcb][g])
                     PROVE  Owns(curtcb, iote[chan[curtcb][g]].driver)'
            BY <1>0 DEF ChannelsOwned, Owns, Leaving
        <3>1. chan[curtcb][g] \in Entries
            BY ChanType, <1>0 DEF IInv, TypeOK
        <3>2. Owns(curtcb, iote[chan[curtcb][g]].driver)
            BY <2>1, <2>5, <3>1 DEF ChannelsOwned
        <3> QED  BY <1>0, <1>5, <3>2 DEF Owns
    <2> QED  BY <2>4, <2>6
<1> QED  BY <1>0, <1>2, <1>4, <1>5, <1>6, <1>7, DeviceStore DEF Guarded, AllocAt

(* alloc: MUT_DRV is given back.                                            *)
LEMMA AllocFreeDevice ==
    ASSUME IInv, EntryInv, DeviceInv, AllocFree
    PROVE  DeviceInv'
<1>0. /\ Cur.at = "free" /\ halted = "no" /\ Goto("back")
      /\ UNCHANGED <<curtcb, iote, chan, drv, halted, breach>>
    BY SameChan DEF AllocFree, At
<1>1. Moved(Cur.svc, "back", Cur.dev, Cur.io, Cur.fd, Cur.ok)
    BY <1>0, GotoMoves DEF IInv, Labels, AllocAt
<1>2. \A x \in Entries : Leaving(Cur, x) =>
        Leaving(Frame(Cur.svc, "back", Cur.dev, Cur.io, Cur.fd, Cur.ok), x)
    BY DEF Leaving, Frame
<1>3. StageSound(curtcb, Frame(Cur.svc, "back", Cur.dev, Cur.io, Cur.fd, Cur.ok))
    BY <1>0, CurDevice DEF StageSound, Frame, AllocAt
<1>4. ASSUME breach = {} PROVE HeldSound(curtcb, call[curtcb])'
    BY <1>0, <1>1, <1>4, CurDevice DEF HeldSound, Moved, Owns
<1> HIDE DEF Cur
<1> QED  BY <1>0, <1>1, <1>2, <1>3, <1>4, DeviceQuiet

(* A step of open that changes the entry being opened: no descriptor leads  *)
(* to it.                                                                   *)
LEMMA OpeningDevice ==
    ASSUME IInv, EntryInv, DeviceInv, Cur.svc = "open", Cur.ok, Cur.at # "find",
           UNCHANGED <<curtcb, chan, drv, halted, breach>>, halted = "no",
           \A e \in Entries : e # Cur.io => iote'[e] = iote[e],
           NEW l \in {"active", "mark", "avail", "unlock"},
           Moved(Cur.svc, l, Cur.dev, Cur.io, Cur.fd, Cur.ok),
           l = "avail" => Cur.dev \notin Shareable,
           iote'[Cur.io].dealloc => Cur.dev \notin Shareable \/ l = "active",
           breach = {} => HeldSound(curtcb, call[curtcb])'
    PROVE  DeviceInv'
<1>0. Cur.io \in Entries /\ Cur.io # NULL /\ curtcb \in Tasks
    BY CurSound, ChannelsAssumption DEF CallSound
<1>1. \A q \in Tasks, g \in Fds : chan[q][g] # Cur.io
    BY <1>0, CurEntries DEF OpenSound
<1>2. \A q \in Tasks : SameChannels(q)
    BY ChanType, <1>1 DEF SameChannels, IInv, TypeOK
<1>3. SameOwner /\ \A q \in Tasks, e \in Drivers : Owns(q, e) => Owns(q, e)'
    BY DEF SameOwner, Owns
<1>4. StageSound(curtcb, call[curtcb])'
    BY DEF StageSound, Moved, AllocAt
<1>5. FlagsSound(curtcb)'
    BY <1>0, <1>2, CurDevice DEF FlagsSound, SameChannels
<1>6. ASSUME breach = {} PROVE ChannelsOwned(curtcb)'
    <2>1. ChannelsOwned(curtcb)
        BY <1>6, CurDevice
    <2>2. \A x \in Entries : ~Leaving(call[curtcb], x)
        BY DEF Leaving, Cur
    <2>3. SameChannels(curtcb)
        BY <1>0, <1>2
    <2> QED  BY ChanType, <1>0, <2>1, <2>2, <2>3
             DEF ChannelsOwned, SameChannels, Owns, IInv, TypeOK
<1> HIDE DEF Cur
<1> QED  BY <1>2, <1>3, <1>4, <1>5, <1>6, DeviceStep

(* open: the driver is stored, the status word cleared, the entry marked.   *)
LEMMA OpenDevice ==
    ASSUME IInv, EntryInv, DeviceInv, OpenLocate \/ OpenActive \/ OpenMark
    PROVE  DeviceInv'
<1> DEFINE e == Cur.io
           d == Cur.dev
<1>0. /\ Cur.svc = "open" /\ Cur.ok /\ e \in Entries /\ halted = "no"
      /\ Cur.at \in {"locate", "active", "mark"}
      /\ UNCHANGED <<curtcb, chan, drv, halted, breach>>
    BY SameChan, CurSound DEF OpenLocate, OpenActive, OpenMark, At, CallSound, OpenAt
<1>a. iote \in [Entries -> Entry] /\ iote[e] \in Entry
    BY <1>0 DEF IInv, TypeOK
<1>1. CASE Fail("unlock") /\ UNCHANGED iote
    <2>1. Moved(Cur.svc, "unlock", d, e, Cur.fd, FALSE)
        BY <1>1, FailMoves DEF IInv, Labels
    <2>2. \A x \in Entries : ~Leaving(Cur, x)
        BY <1>0 DEF Leaving
    <2>3. StageSound(curtcb, Frame(Cur.svc, "unlock", d, e, Cur.fd, FALSE))
        BY DEF StageSound, Frame, AllocAt
    <2> HIDE DEF Cur, d, e
    <2>4. HeldSound(curtcb, call[curtcb])'
        BY <1>0, <2>1, HeldElsewhere
    <2> QED  BY <1>0, <1>1, <2>1, <2>2, <2>3, <2>4, DeviceQuiet
<1>2. CASE OpenLocate /\ ~drv[d].free
    <2>1. iote' = [iote EXCEPT ![e].driver = d] /\ Goto("active")
        BY <1>2 DEF OpenLocate
    <2>2. \A x \in Entries : x # e => iote'[x] = iote[x]
        BY <1>a, <2>1
    <2>3. Moved(Cur.svc, "active", d, e, Cur.fd, Cur.ok)
        BY <2>1, GotoMoves DEF IInv, Labels, OpenAt
    <2>4. HeldSound(curtcb, call[curtcb])'
        BY <1>0, <2>3, HeldElsewhere
    <2> QED  BY <1>0, <2>2, <2>3, <2>4, OpeningDevice
<1>3. CASE OpenActive /\ drv[d].active
    <2>1. /\ iote' = [iote EXCEPT ![e].open = FALSE, ![e].dealloc = FALSE]
          /\ Goto(IF d \in Shareable THEN "mark" ELSE "avail")
        BY <1>3 DEF OpenActive
    <2>2. /\ \A x \in Entries : x # e => iote'[x] = iote[x]
          /\ ~iote'[e].dealloc
        BY <1>0, <1>a, <2>1 DEF Entry
    <2>3. PICK l \in {"mark", "avail"} :
            Goto(l) /\ (l = "mark" <=> d \in Shareable)
        BY <2>1
    <2>4. Moved(Cur.svc, l, d, e, Cur.fd, Cur.ok)
        BY <2>3, GotoMoves DEF IInv, Labels, OpenAt
    <2>5. HeldSound(curtcb, call[curtcb])'
        BY <1>0, <2>3, <2>4 DEF HeldSound, Moved
    <2> QED  BY <1>0, <2>2, <2>3, <2>4, <2>5, OpeningDevice
<1>4. CASE OpenMark
    <2>1. iote' = [iote EXCEPT ![e].open = TRUE] /\ Goto("unlock") /\ Cur.at = "mark"
        BY <1>4 DEF OpenMark, At
    <2>2. /\ \A x \in Entries : x # e => iote'[x] = iote[x]
          /\ iote'[e].dealloc = iote[e].dealloc
        BY <1>0, <1>a, <2>1 DEF Entry
    <2>3. iote[e].dealloc => d \notin Shareable
        BY <1>0, <2>1, CurDevice DEF StageSound
    <2>4. Moved(Cur.svc, "unlock", d, e, Cur.fd, Cur.ok)
        BY <2>1, GotoMoves DEF IInv, Labels
    <2>5. ASSUME breach = {} PROVE HeldSound(curtcb, call[curtcb])'
        BY <1>0, <2>1, <2>4, <2>5, CurDevice DEF HeldSound, Moved, Owns
    <2> QED  BY <1>0, <2>2, <2>3, <2>4, <2>5, OpeningDevice
<1> QED  BY <1>1, <1>2, <1>3, <1>4 DEF OpenLocate, OpenActive

(* A device that has the running task as its owner is marked allocated,     *)
(* unless that task is storing the fields itself.                           *)
LEMMA OwnerHasFlag ==
    ASSUME IInv, DeviceInv, NEW d \in Drivers, drv[d].ownerid = curtcb,
           Cur.at \notin Guarded
    PROVE  Owns(curtcb, d)
<1>0. drv[d].ownerid # NULL /\ curtcb \in Tasks
    BY CurSound, ChannelsAssumption
<1>1. CASE \A p \in InDrv : call[p].dev # d
    BY <1>0, <1>1 DEF IInv, Ownership, Owns
<1>2. ASSUME NEW p \in InDrv, call[p].dev = d
      PROVE  drv[d].alloc
    <2>1. p \in Tasks /\ call[p].at \in Guarded /\ p # curtcb
        BY <1>2 DEF InDrv, Guarded, Cur
    <2>2. StageSound(p, call[p])
        BY <2>1 DEF DeviceInv
    <2>3. call[p].at \in {"check", "free"} => (drv[d].alloc <=> drv[d].ownerid # NULL)
        BY <1>2 DEF IInv, Ownership
    <2> QED  BY <1>0, <1>2, <2>1, <2>2, <2>3 DEF StageSound, Guarded, AllocAt
<1> QED  BY <1>1, <1>2 DEF Owns

(* open: the search for an entry.                                           *)
LEMMA OpenFindDevice ==
    ASSUME IInv, EntryInv, DeviceInv, OpenFind
    PROVE  DeviceInv'
<1>0. /\ Cur.at = "find" /\ Cur.svc = "open" /\ halted = "no"
      /\ UNCHANGED <<curtcb, iote, chan, drv, halted, breach>>
    BY SameChan, CurSound DEF OpenFind, At, CallSound, OpenAt
<1>1. \A x \in Entries : ~Leaving(Cur, x)
    BY <1>0 DEF Leaving
<1>2. PICK l \in {"unlock", "locate"}, i \in Entries \cup {NULL}, o \in BOOLEAN :
        /\ Moved(Cur.svc, l, Cur.dev, i, Cur.fd, o)
        /\ l = "unlock" => ~o
    <2>1. CASE Fail("unlock")
        <3>1. Moved(Cur.svc, "unlock", Cur.dev, Cur.io, Cur.fd, FALSE)
            BY <2>1, FailMoves DEF IInv, Labels
        <3> QED  BY <3>1, CurSound DEF Call
    <2>2. CASE ~Fail("unlock")
        <3>1. PICK i \in Entries :
                call' = [call EXCEPT ![curtcb].at = "locate", ![curtcb].io = i]
            BY <2>2 DEF OpenFind
        <3>2. [call[curtcb] EXCEPT !.at = "locate", !.io = i] \in Call
            BY CurSound DEF Call, Cur, OpenAt
        <3>3. Moved(Cur.svc, "locate", Cur.dev, i, Cur.fd, Cur.ok)
            BY <3>1, <3>2, CurSound DEF Moved, IInv, TypeOK, Cur, Call
        <3> QED  BY <3>3, CurSound DEF Call
    <2> QED  BY <2>1, <2>2
<1>3. StageSound(curtcb, Frame(Cur.svc, l, Cur.dev, i, Cur.fd, o))
    BY <1>2 DEF StageSound, Frame, AllocAt
<1> HIDE DEF Cur
<1>4. HeldSound(curtcb, call[curtcb])'
    BY <1>0, <1>2, HeldElsewhere
<1> QED  BY <1>0, <1>1, <1>2, <1>3, <1>4, DeviceQuiet

(* open: the tests of the flag and of the owner.                            *)
LEMMA OpenTestDevice ==
    ASSUME IInv, EntryInv, DeviceInv, OpenAvail \/ OpenOwner
    PROVE  DeviceInv'
<1>0. /\ Cur.svc = "open" /\ Cur.at \in {"avail", "owner"} /\ halted = "no"
      /\ UNCHANGED <<curtcb, iote, chan, drv, halted, breach>>
      /\ Cur.dev \in Drivers /\ Cur.ok
    BY SameChan, CurSound DEF OpenAvail, OpenOwner, At, CallSound, OpenAt
<1>1. \A x \in Entries : ~Leaving(Cur, x)
    BY <1>0 DEF Leaving
<1>2. Cur.dev \notin Shareable
    BY <1>0, CurDevice DEF StageSound
<1>3. PICK l \in {"owner", "lock", "mark", "unlock"}, o \in BOOLEAN :
        /\ Moved(Cur.svc, l, Cur.dev, Cur.io, Cur.fd, o)
        /\ l = "unlock" => ~o
        /\ l = "lock" => o
        /\ l = "mark" => drv[Cur.dev].ownerid = curtcb
    <2>1. CASE Fail("unlock")
        BY <2>1, FailMoves DEF IInv, Labels
    <2>2. ASSUME NEW l \in {"owner", "lock", "mark"}, Goto(l)
          PROVE  Moved(Cur.svc, l, Cur.dev, Cur.io, Cur.fd, Cur.ok)
        BY <2>2, GotoMoves DEF IInv, Labels, OpenAt, AllocAt
    <2>3. CASE OpenAvail
        BY <1>0, <2>2, <2>3 DEF OpenAvail
    <2>4. CASE OpenOwner
        BY <1>0, <2>1, <2>2, <2>4 DEF OpenOwner
    <2> QED  BY <2>3, <2>4
<1>4. StageSound(curtcb, Frame(Cur.svc, l, Cur.dev, Cur.io, Cur.fd, o))
    BY <1>0, <1>2, <1>3 DEF StageSound, Frame, AllocAt
<1>5. l = "mark" => Owns(curtcb, Cur.dev)
    BY <1>0, <1>3, OwnerHasFlag DEF Guarded, AllocAt
<1> HIDE DEF Cur
<1>6. HeldSound(curtcb, call[curtcb])'
    BY <1>0, <1>3, <1>5 DEF HeldSound, Moved, Owns
<1> QED  BY <1>0, <1>1, <1>3, <1>4, <1>6, DeviceQuiet

(* alloc returns.  A close that got this far without a breach goes on, or   *)
(* panics because MUT_DRV was refused.                                      *)
LEMMA AllocReturnDevice ==
    ASSUME IInv, EntryInv, DeviceInv, AllocReturn
    PROVE  DeviceInv'
<1> DEFINE e == Cur.io
           d == Cur.dev
<1>0. /\ Cur.at = "back" /\ halted = "no" /\ UNCHANGED <<curtcb, chan, drv, mutex, breach>>
      /\ Cur.svc \in {"alloc", "dealloc", "open", "close"}
    BY SameChan DEF AllocReturn, At
<1>1. CASE Cur.svc \in {"alloc", "dealloc"}
    <2>1. Return /\ UNCHANGED <<iote, halted>>
        BY <1>1 DEF AllocReturn
    <2>2. Moved("none", "user", NULL, NULL, NULL, TRUE)
        BY <2>1, ReturnMoves DEF IInv
    <2>3. StageSound(curtcb, Frame("none", "user", NULL, NULL, NULL, TRUE))
        BY DEF StageSound, Frame, AllocAt
    <2>4. \A x \in Entries : ~Leaving(Cur, x)
        BY <1>1 DEF Leaving
    <2>5. HeldSound(curtcb, call[curtcb])'
        BY <1>0, <2>2, HeldElsewhere
    <2> QED  BY <1>0, <2>1, <2>2, <2>3, <2>4, <2>5, DeviceQuiet
<1>2. CASE Cur.svc = "open" /\ Cur.ok
    <2>0. e \in Entries /\ iote \in [Entries -> Entry]
        BY <1>0, <1>2, CurSound DEF CallSound, IInv, TypeOK
    <2>1. /\ iote' = [iote EXCEPT ![e].dealloc = TRUE] /\ Goto("mark")
          /\ UNCHANGED halted
        BY <1>2 DEF AllocReturn
    <2>2. \A x \in Entries : x # e => iote'[x] = iote[x]
        BY <2>0, <2>1
    <2>3. d \notin Shareable
        BY <1>0, <1>2, CurDevice DEF StageSound, AllocAt
    <2>4. Moved(Cur.svc, "mark", d, e, Cur.fd, Cur.ok)
        BY <2>1, GotoMoves DEF IInv, Labels, OpenAt
    <2>5. ASSUME breach = {} PROVE HeldSound(curtcb, call[curtcb])'
        BY <1>0, <1>2, <2>3, <2>4, <2>5, CurDevice DEF HeldSound, Moved, Owns
    <2> QED  BY <1>0, <1>2, <2>1, <2>2, <2>3, <2>4, <2>5, OpeningDevice
<1>3. CASE Cur.svc = "open" /\ ~Cur.ok
    <2>1. Goto("unlock") /\ UNCHANGED <<iote, halted>>
        BY <1>3 DEF AllocReturn
    <2>2. Moved(Cur.svc, "unlock", d, e, Cur.fd, Cur.ok)
        BY <2>1, GotoMoves DEF IInv, Labels
    <2>3. \A x \in Entries : ~Leaving(Cur, x)
        BY <1>3 DEF Leaving
    <2>4. StageSound(curtcb, Frame(Cur.svc, "unlock", d, e, Cur.fd, Cur.ok))
        BY <1>3 DEF StageSound, Frame, AllocAt
    <2> HIDE DEF Cur, d, e
    <2>5. HeldSound(curtcb, call[curtcb])'
        BY <1>0, <1>3, <2>2, HeldElsewhere
    <2> QED  BY <1>0, <2>1, <2>2, <2>3, <2>4, <2>5, DeviceQuiet
<1>4. CASE Cur.svc = "close" /\ Cur.ok
    <2>1. Goto("clear") /\ UNCHANGED <<iote, halted>>
        BY <1>4 DEF AllocReturn
    <2>2. Moved(Cur.svc, "clear", d, e, Cur.fd, Cur.ok)
        BY <2>1, GotoMoves DEF IInv, Labels, CloseAt
    <2>3. \A x \in Entries : Leaving(Cur, x) =>
            Leaving(Frame(Cur.svc, "clear", d, e, Cur.fd, Cur.ok), x)
        BY DEF Leaving, Frame
    <2>4. StageSound(curtcb, Frame(Cur.svc, "clear", d, e, Cur.fd, Cur.ok))
        BY <1>4 DEF StageSound, Frame, AllocAt
    <2> HIDE DEF Cur, d, e
    <2>5. HeldSound(curtcb, call[curtcb])'
        BY <1>0, <2>2, HeldElsewhere
    <2> QED  BY <1>0, <2>1, <2>2, <2>3, <2>4, <2>5, DeviceQuiet
<1>5. CASE Cur.svc = "close" /\ ~Cur.ok
    <2>1. UNCHANGED <<curtcb, masked, mutex, drv, iote, chan, call, breach>>
        BY SameChan, <1>5 DEF AllocReturn
    <2>2. breach = {} => mutex["DRV"] # NULL
        BY <1>0, <1>5, CurDevice DEF HeldSound
    <2> QED  BY <2>1, <2>2
             DEF DeviceInv, StageSound, FlagsSound, HeldSound, ChannelsOwned,
                 Leaving, Owns, OpenOn, ClosePanicSound
<1> QED  BY <1>0, <1>1, <1>2, <1>3, <1>4, <1>5

(* close: an entry that allocated its device goes on to deallocate it.      *)
LEMMA CloseTestDevice ==
    ASSUME IInv, EntryInv, DeviceInv, CloseTest
    PROVE  DeviceInv'
<1> DEFINE e == iote[Cur.io]
<1>0. /\ Cur.at = "test" /\ Cur.svc = "close" /\ halted = "no"
      /\ UNCHANGED <<curtcb, iote, chan, drv, halted, breach>>
    BY SameChan, CurSound DEF CloseTest, At, CallSound, CloseAt
<1>1. e.open /\ e.driver \in Drivers /\ Cur.ok
    BY <1>0, CurSound, CurEntries DEF CloseSound, CallSound, IInv, TypeOK, Entry
<1>2. \A x \in Entries : ~Leaving(Cur, x)
    BY <1>0 DEF Leaving
<1>3. CASE Goto("clear")
    <2>1. Moved(Cur.svc, "clear", Cur.dev, Cur.io, Cur.fd, Cur.ok)
        BY <1>3, GotoMoves DEF IInv, Labels, CloseAt
    <2>2. StageSound(curtcb, Frame(Cur.svc, "clear", Cur.dev, Cur.io, Cur.fd, Cur.ok))
        BY <1>0 DEF StageSound, Frame, AllocAt
    <2> HIDE DEF Cur
    <2>3. HeldSound(curtcb, call[curtcb])'
        BY <1>0, <2>1, HeldElsewhere
    <2> QED  BY <1>0, <1>2, <2>1, <2>2, <2>3, DeviceQuiet
<1>4. CASE /\ call' = [call EXCEPT ![curtcb].at = "lock", ![curtcb].dev = e.driver]
           /\ e.dealloc
    <2>1. [call[curtcb] EXCEPT !.at = "lock", !.dev = e.driver] \in Call
        BY <1>1, CurSound DEF Call, Cur, AllocAt
    <2>2. Moved(Cur.svc, "lock", e.driver, Cur.io, Cur.fd, Cur.ok)
        BY <1>4, <2>1, CurSound DEF Moved, IInv, TypeOK, Cur, Call
    <2>3. StageSound(curtcb, Frame(Cur.svc, "lock", e.driver, Cur.io, Cur.fd, Cur.ok))
        BY <1>0, <1>1, <1>4 DEF StageSound, Frame, AllocAt
    <2> HIDE DEF Cur, e
    <2>4. HeldSound(curtcb, call[curtcb])'
        BY <1>0, <2>2, HeldElsewhere
    <2> QED  BY <1>0, <1>2, <2>2, <2>3, <2>4, DeviceQuiet
<1> QED  BY <1>1, <1>3, <1>4 DEF CloseTest

(* close: the entry is cleared; no other descriptor leads to it.            *)
LEMMA CloseClearDevice ==
    ASSUME IInv, EntryInv, DeviceInv, CloseClear
    PROVE  DeviceInv'
<1> DEFINE e == Cur.io
<1>0. /\ Cur.at = "clear" /\ Cur.svc = "close" /\ e \in Entries
      /\ Cur.fd \in Fds /\ curtcb \in Tasks /\ halted = "no"
      /\ UNCHANGED <<curtcb, chan, drv, halted, breach>> /\ Goto("unlock")
    BY TableFds, SameChan, CurSound DEF CloseClear, At, CallSound, CloseAt
<1>1. Moved(Cur.svc, "unlock", Cur.dev, e, Cur.fd, Cur.ok)
    BY <1>0, GotoMoves DEF IInv, Labels
<1>a. iote \in [Entries -> Entry] /\ iote[e] \in Entry
    BY <1>0 DEF IInv, TypeOK
<1>2. /\ \A x \in Entries : x # e => iote'[x] = iote[x]
      /\ iote'[e].driver = NULL
    BY <1>0, <1>a DEF CloseClear, Entry
<1>3. chan[curtcb][Cur.fd] = e /\ e # NULL
    BY <1>0, CurEntries, ChannelsAssumption DEF CloseSound
<1>4. ASSUME NEW q \in Tasks, q # curtcb PROVE SameChannels(q)
    <2>1. \A g \in Fds : chan[q][g] # e
        BY <1>0, <1>3, <1>4 DEF EntryInv, OneDescriptor
    <2> QED  BY ChanType, <1>0, <1>2, <2>1 DEF SameChannels, IInv, TypeOK
<1>5. NULL \notin Drivers /\ NULL \notin Shareable
    BY ChannelsAssumption
<1>6. StageSound(curtcb, call[curtcb])'
    BY <1>0, <1>1 DEF StageSound, Moved, AllocAt
<1>7. FlagsSound(curtcb)'
    <2> SUFFICES ASSUME NEW g \in Fds, chan[curtcb][g] # NULL,
                        iote'[chan[curtcb][g]].dealloc
                 PROVE  iote'[chan[curtcb][g]].driver \notin Shareable
        BY <1>0 DEF FlagsSound
    <2>1. chan[curtcb][g] \in Entries
        BY ChanType, <1>0 DEF IInv, TypeOK
    <2> QED  BY <1>2, <1>5, <2>1, CurDevice DEF FlagsSound
<1>8. ASSUME breach = {}
      PROVE  HeldSound(curtcb, call[curtcb])' /\ ChannelsOwned(curtcb)'
    <2>1. HeldSound(curtcb, call[curtcb])'
        BY <1>0, <1>1 DEF HeldSound, Moved
    <2>2. ChannelsOwned(curtcb)'
        <3> SUFFICES ASSUME NEW g \in Fds, chan[curtcb][g] # NULL,
                            iote'[chan[curtcb][g]].driver \in Drivers \ Shareable,
                            ~Leaving(call'[curtcb], chan[curtcb][g])
                     PROVE  Owns(curtcb, iote'[chan[curtcb][g]].driver)
            BY <1>0 DEF ChannelsOwned, Owns, Leaving
        <3>1. chan[curtcb][g] \in Entries /\ chan[curtcb][g] # e
            BY ChanType, <1>0, <1>2, <1>5 DEF IInv, TypeOK
        <3>2. ~Leaving(call[curtcb], chan[curtcb][g])
            BY <3>1 DEF Leaving, Cur
        <3> QED  BY <1>2, <1>8, <3>1, <3>2, CurDevice DEF ChannelsOwned
    <2> QED  BY <2>1, <2>2
<1>9. SameOwner /\ \A q \in Tasks, x \in Drivers : Owns(q, x) => Owns(q, x)'
    BY <1>0 DEF SameOwner, Owns
<1> HIDE DEF Cur, e
<1> QED  BY <1>0, <1>1, <1>4, <1>6, <1>7, <1>8, <1>9, DeviceStep

(* The end of open and close.  The descriptor open stores leads to a device *)
(* that is shareable or that the task owns.                                 *)
LEMMA ChanUnlockDevice ==
    ASSUME IInv, EntryInv, DeviceInv, ChanUnlock
    PROVE  DeviceInv'
<1>0. /\ Cur.at = "unlock" /\ Cur.svc \in {"open", "close"} /\ Cur.fd \in Fds
      /\ UNCHANGED <<curtcb, drv, iote, breach>> /\ curtcb \in Tasks
      /\ halted = "no"
    BY TableFds, CurSound DEF ChanUnlock, At, CallSound
<1>1. mutex["CHAN"] = curtcb
    BY <1>0 DEF IInv, LocksHeld, InChan, Cur
<1>2. Return /\ UNCHANGED halted
    BY <1>1 DEF ChanUnlock, CanDealloc
<1>3. Moved("none", "user", NULL, NULL, NULL, TRUE)
    BY <1>2, ReturnMoves DEF IInv
<1> DEFINE e == IF Cur.svc = "open" THEN Cur.io ELSE NULL
           h == Cur.fd
<1>a. chan \in [Tasks -> [Fds -> Entries \cup {NULL}]]
    BY ChanType DEF IInv, TypeOK
<1>4. chan' = chan \/ (Cur.ok /\ chan' = [chan EXCEPT ![curtcb][h] = e])
    BY UnlockChan
<1>5. /\ \A q \in Tasks : q # curtcb => chan'[q] = chan[q]
      /\ \A g \in Fds : chan'[curtcb][g] = chan[curtcb][g]
                        \/ (Cur.ok /\ g = h /\ chan'[curtcb][g] = e)
    <2>1. h \in Fds
        BY <1>0
    <2> HIDE DEF e, h, Cur
    <2> QED  BY <1>0, <1>4, <1>a, <2>1
<1>6. Cur.svc = "close" => Cur.ok /\ chan'[curtcb][h] = NULL
    <2> SUFFICES ASSUME Cur.svc = "close" PROVE Cur.ok /\ chan'[curtcb][h] = NULL
        OBVIOUS
    <2>1. Cur.ok
        BY <1>0, CurEntries DEF CloseSound
    <2>2. chan' = [chan EXCEPT ![curtcb][h] = NULL]
        BY <1>1, <2>1, UnlockChan DEF CanDealloc
    <2>3. h \in Fds
        BY <1>0
    <2> HIDE DEF h, Cur
    <2> QED  BY <1>0, <1>a, <2>1, <2>2, <2>3
<1>7. \A q \in Tasks : q # curtcb => SameChannels(q)
    BY <1>0, <1>5 DEF SameChannels
<1>8. StageSound(curtcb, call[curtcb])' /\ HeldSound(curtcb, call[curtcb])'
    BY <1>0, <1>3 DEF StageSound, HeldSound, Moved, AllocAt
<1>9. Cur.ok /\ e # NULL =>
        /\ Cur.svc = "open" /\ iote[e].driver = Cur.dev
        /\ iote[e].dealloc => Cur.dev \notin Shareable
        /\ breach = {} /\ Cur.dev \notin Shareable => Owns(curtcb, Cur.dev)
    BY <1>0, CurEntries, CurDevice DEF OpenSound, StageSound, HeldSound
<1>10. FlagsSound(curtcb)'
    <2> SUFFICES ASSUME NEW g \in Fds, chan'[curtcb][g] # NULL,
                        iote[chan'[curtcb][g]].dealloc
                 PROVE  iote[chan'[curtcb][g]].driver \notin Shareable
        BY <1>0 DEF FlagsSound
    <2>1. CASE chan'[curtcb][g] = chan[curtcb][g]
        BY <2>1, CurDevice DEF FlagsSound
    <2>2. CASE Cur.ok /\ chan'[curtcb][g] = e
        BY <1>9, <2>2
    <2> QED  BY <1>5, <2>1, <2>2
<1>11. ASSUME breach = {} PROVE ChannelsOwned(curtcb)'
    <2> SUFFICES ASSUME NEW g \in Fds, chan'[curtcb][g] # NULL,
                        iote[chan'[curtcb][g]].driver \in Drivers \ Shareable
                 PROVE  Owns(curtcb, iote[chan'[curtcb][g]].driver)
        BY <1>0 DEF ChannelsOwned, Owns
    <2>1. CASE Cur.ok /\ chan'[curtcb][g] = e
        BY <1>9, <1>11, <2>1
    <2>2. CASE chan'[curtcb][g] = chan[curtcb][g]
        <3>1. ~Leaving(call[curtcb], chan[curtcb][g])
            <4>1. CASE Cur.svc = "open"
                BY <4>1 DEF Leaving, Cur
            <4>2. CASE Cur.svc = "close"
                <5>1. g # h
                    BY <1>6, <4>2
                <5>2. chan[curtcb][h] = Cur.io
                    BY <4>2, CurEntries DEF CloseSound
                <5>3. chan[curtcb][g] # Cur.io
                    BY <1>0, <2>2, <5>1, <5>2 DEF EntryInv, OneDescriptor
                <5> QED  BY <5>3 DEF Leaving, Cur
            <4> QED  BY <1>0, <4>1, <4>2
        <3> QED  BY <1>11, <2>2, <3>1, CurDevice DEF ChannelsOwned
    <2> QED  BY <1>5, <2>1, <2>2
<1>12. SameOwner /\ \A q \in Tasks, x \in Drivers : Owns(q, x) => Owns(q, x)'
    BY <1>0 DEF SameOwner, Owns
<1> HIDE DEF Cur, e, h
<1> QED  BY <1>0, <1>2, <1>3, <1>7, <1>8, <1>10, <1>11, <1>12, DeviceStep

(* read and write return.                                                   *)
LEMMA TransferReturnDevice ==
    ASSUME IInv, EntryInv, DeviceInv, TransferReturn
    PROVE  DeviceInv'
<1>0. /\ Cur.svc # "close" /\ halted = "no"
      /\ UNCHANGED <<curtcb, drv, iote, chan, halted, breach>>
    BY SameChan, CurSound DEF TransferReturn, At, CallSound
<1>1. Moved("none", "user", NULL, NULL, NULL, TRUE)
    BY ReturnMoves DEF TransferReturn, IInv
<1>2. \A x \in Entries : ~Leaving(Cur, x)
    BY <1>0 DEF Leaving
<1>3. StageSound(curtcb, Frame("none", "user", NULL, NULL, NULL, TRUE))
    BY DEF StageSound, Frame, AllocAt
<1>4. HeldSound(curtcb, call[curtcb])'
    BY <1>0, <1>1, HeldElsewhere
<1> QED  BY <1>0, <1>1, <1>2, <1>3, <1>4, DeviceQuiet

(* Every step of every task preserves DeviceInv.                            *)
LEMMA DeviceInvStep ==
    ASSUME IInv, EntryInv, DeviceInv, [Next]_vars
    PROVE  DeviceInv'
<1>1. ASSUME NEW p \in Tasks, Preempt(p) PROVE DeviceInv'
    BY SameChan, <1>1, DeviceStill DEF Preempt, SameOwner
<1>2. CASE UserStep
    BY <1>2, UserDevice
<1>3. CASE KernelStep
    BY <1>3, AllocLockDevice, AllocCheckDevice, SetOwnerDevice, SetAllocDevice,
       AllocFreeDevice, AllocReturnDevice, OpenFindDevice, OpenDevice,
       OpenTestDevice, CloseTestDevice, CloseClearDevice, ChanUnlockDevice,
       TransferReturnDevice DEF KernelStep
<1>4. CASE UNCHANGED vars
    BY SameChan, <1>4 DEF vars, DeviceInv, StageSound, FlagsSound, HeldSound, ChannelsOwned,
                Leaving, Owns, OpenOn, ClosePanicSound
<1> QED  BY <1>1, <1>2, <1>3, <1>4 DEF Next

(* DeviceInv holds in every reachable state.                                *)
THEOREM DevicesInvariant == Spec => []DeviceInv
<1>1. Init => DeviceInv
    BY ChannelsAssumption
    DEF Init, chan, Nothing, DeviceInv, StageSound, FlagsSound, HeldSound, ChannelsOwned,
        ClosePanicSound, UserMode, AllocAt
<1>2. IInv /\ EntryInv /\ DeviceInv /\ [Next]_vars => DeviceInv'
    BY DeviceInvStep
<1> QED  BY <1>1, <1>2, InductiveInvariant, EntriesInvariant, PTL DEF Spec

(* A device that is not shareable has the channels of one task only, its    *)
(* owner, as long as nobody deallocates what another task owns or what is   *)
(* still open.                                                              *)
THEOREM DevicesExclusive == Spec => []ExclusiveDevice
<1>1. IInv /\ EntryInv /\ DeviceInv => ExclusiveDevice
    <2> SUFFICES ASSUME IInv, EntryInv, DeviceInv, breach = {}, NEW p \in Tasks,
                        NEW d \in Drivers \ Shareable, NEW i \in OpenOn(p, d)
                 PROVE  Owns(p, d)
        BY DEF ExclusiveDevice, Owns
    <2>1. PICK f \in Fds : chan[p][f] = i
        BY DEF OpenOn
    <2>2. i # NULL /\ iote[i].driver = d /\ ~Leaving(call[p], i)
        BY ChannelsAssumption DEF OpenOn, Leaving
    <2> QED  BY <2>1, <2>2 DEF DeviceInv, ChannelsOwned
<1> QED  BY <1>1, InductiveInvariant, EntriesInvariant, DevicesInvariant, PTL

(* Without a breach, the panics of open and close mean that a mutex was     *)
(* taken: never that one could not be given back, and never that close      *)
(* found its device no longer its own.                                      *)
THEOREM PanicsOnlyForLocks == Spec => []PanicsOnlyWhenLocked
<1>1. IInv /\ DeviceInv => PanicsOnlyWhenLocked
    BY DEF IInv, DeviceInv, ClosePanicSound, PanicsOnlyWhenLocked
<1> QED  BY <1>1, InductiveInvariant, DevicesInvariant, PTL

=============================================================================
