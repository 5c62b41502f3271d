----------------------------- MODULE TaskCreate ------------------------------
(***************************************************************************)
(* Task creation and physical memory: muxx_svc_creprc / muxx_svc_loadprc   *)
(* (muxx_creprc.c) with all they call, muxx_taskinit (a PID and a slot of  *)
(* the task table), muxx_setup_taskmem (the pages of the task) and         *)
(* muxx_mem_getblock (a chunk carved from the free area, described by an   *)
(* entry of the MMCB table).                                               *)
(*                                                                         *)
(* The services run at priority 0 and take no mutex, so the clock may give *)
(* the processor to another creator between any two of their statements:   *)
(* a call is a frame with a program counter, and the steps of the frames   *)
(* interleave.  One step is one statement that touches shared state, or a  *)
(* loop over a table whose entries other creators only ever take.          *)
(*                                                                         *)
(* Memory is counted in units of 32 MMU blocks (2 KB), the largest unit in *)
(* which every size the code uses is a whole number.  Nothing is ever      *)
(* given back: muxx_mem_freeblock is empty and no task ends.               *)
(***************************************************************************)
EXTENDS Integers, FiniteSets, Sequences

CONSTANTS
    MAX_TASKS,   \* slots of the task table
    MEM_NMCBS,   \* entries of the MMCB table
    Creators,    \* tasks that call creprc or loadprc
    Types,       \* the task types they ask for
    PageSize, StackSize, BufSize,       \* 0200, 0100 and DRV_BUFSIZ/64 blocks
    FreeAddr, FreeSize, IOAddr, IOSize, \* entries 4 and 5 of muxx_mem_init
    WORD,        \* 2^16, in units
    minspid, maxspid, minupid, maxupid  \* h/SCB.s

(* The task type word: kind, task size and stack size.                      *)
TaskType == [kind : {"SYS", "USR", "DRV", "OTHER"},
             size : {"SMALL", "MED", "BIG"},
             stack : {"SMALLS", "MEDS"}]

ASSUME TaskCreateAssumption ==
    /\ MAX_TASKS \in Nat \ {0}
    /\ MEM_NMCBS \in Nat /\ MEM_NMCBS > 6
    /\ Types \subseteq TaskType
    /\ {PageSize, StackSize, BufSize, FreeAddr, FreeSize, IOAddr, IOSize} \subseteq Nat
    /\ WORD \in Nat \ {0}
    /\ 3 * PageSize + StackSize <= FreeAddr
    /\ FreeAddr + FreeSize < WORD /\ IOAddr + IOSize < WORD
    /\ {minspid, maxspid, minupid, maxupid} \subseteq Nat
    /\ 1 <= minspid /\ minspid <= maxspid
    /\ maxspid < minupid /\ minupid <= maxupid

VARIABLES
    topspid, topupid, \* highest PIDs given out
    tct,              \* the task table: PID, type, PARs, and whether page 3 is to
                      \* hold the name of the file to load, and does
    mmcbt,            \* the MMCB table
    ready,            \* slots handed to muxx_qAddTask
    frame,            \* the call of every creator
    halted            \* "no", or the panic or loop the machine is in

vars == <<topspid, topupid, tct, mmcbt, ready, frame, halted>>

Slots == 0 .. MAX_TASKS - 1
Entries == 0 .. MEM_NMCBS - 1
NONE == -1                       \* NULL, and the ownerPID of an unused entry
Pids == 0 .. maxupid
Pages == 3 .. 6

Task == [pid : Pids, type : TaskType, par : [Pages -> Int],
         file : {"none", "wanted", "there"}]
MMCB == [addr : 0 .. WORD - 1, size : 0 .. WORD - 1, owner : {NONE} \cup Pids,
         par : 0 .. 7, next : {NONE} \cup Entries]

(* A call of muxx_mem_getblock: the size and the page it is asked for (the  *)
(* page is what the entry records), and the PAR and the offset with which   *)
(* muxx_setup_taskmem then maps the chunk.                                  *)
Request == [n : {PageSize, StackSize, BufSize}, page : Pages, map : Pages,
            off : {0, StackSize}]

Labels == {"idle", "pid", "bump", "slot", "store", "scan", "find", "carve",
           "advance", "own", "map", "copy", "enqueue"}
NoType == [kind |-> "OTHER", size |-> "SMALL", stack |-> "SMALLS"]
Idle == [at |-> "idle", svc |-> "none", type |-> NoType, pid |-> 0, slot |-> 0,
         todo |-> <<>>, cur |-> NONE, new |-> NONE]

-----------------------------------------------------------------------------
NoPars == [p \in Pages |-> 0]
FreeTask == [pid |-> 0, type |-> NoType, par |-> NoPars, file |-> "none"]
INITTask == [FreeTask EXCEPT !.pid = 1, !.par[6] = 3 * PageSize - StackSize]

(* One entry of muxx_mem_init.                                              *)
Block(addr, size, owner, par, next) ==
    [addr |-> addr, size |-> size, owner |-> owner, par |-> par, next |-> next]

Unused == Block(0, 0, NONE, 0, NONE)

(* muxx_mem_init: the three kernel pages, INIT's stack, the free area and   *)
(* the I/O page, chained in this order; all other entries are unused.       *)
muxx_mem_init ==
    LET blocks == << Block(0, PageSize, 1, 0, 1),
                     Block(PageSize, PageSize, 1, 1, 2),
                     Block(2 * PageSize, PageSize, 1, 2, 3),
                     Block(3 * PageSize, StackSize, 1, 6, 4),
                     Block(FreeAddr, FreeSize, 0, 0, 5),
                     Block(IOAddr, IOSize, 1, 7, NONE) >>
    IN  [e \in Entries |-> IF e < 6 THEN blocks[e + 1] ELSE Unused]

Free == 4                        \* the entry of the free area

(* muxx_tctinit, muxx_fakeproc (INIT in slot 0 with PID 1), muxx_mem_init.  *)
Init ==
    /\ topspid = 1
    /\ topupid = 0
    /\ tct = [s \in Slots |-> IF s = 0 THEN INITTask ELSE FreeTask]
    /\ mmcbt = muxx_mem_init
    /\ ready = {}
    /\ frame = [c \in Creators |-> Idle]
    /\ halted = "no"

At(c, l) == halted = "no" /\ frame[c].at = l
Goto(c, l) == frame' = [frame EXCEPT ![c].at = l]
panic(why) == halted' = why /\ UNCHANGED frame

-----------------------------------------------------------------------------
(* muxx_taskinit.  The curtasks test never refuses: nothing counts curtasks *)
(* up.  The switch is on the whole type word, so only a SYS or DRV task     *)
(* with the smallest task and stack sizes (both encoded as 0) gets a        *)
(* system PID.                                                              *)
Call(c, svc) ==
    /\ At(c, "idle")
    /\ \E ty \in Types :
        frame' = [frame EXCEPT ![c] = [Idle EXCEPT !.at = "pid", !.svc = svc, !.type = ty]]
    /\ UNCHANGED <<topspid, topupid, tct, mmcbt, ready, halted>>

SystemPid(ty) ==
    ty.kind \in {"SYS", "DRV"} /\ ty.size = "SMALL" /\ ty.stack = "SMALLS"

First(top, min) == IF top = 0 THEN min ELSE top

(* Mutant of TakePid: the last PID is given out again.                      *)
TakePid_Same(c) ==
    /\ At(c, "pid")
    /\ LET sys == SystemPid(frame[c].type)
           top == IF sys THEN First(topspid, minspid) ELSE First(topupid, minupid)
       IN  /\ topspid' = IF sys THEN top ELSE topspid
           /\ topupid' = IF sys THEN topupid ELSE top
           /\ IF top + 1 > (IF sys THEN maxspid ELSE maxupid)
              THEN panic(IF sys THEN "REUSESPID" ELSE "REUSEUPID")
              ELSE /\ frame' = [frame EXCEPT ![c].at = "slot", ![c].pid = top + 1]
                   /\ UNCHANGED halted
    /\ UNCHANGED <<tct, mmcbt, ready>>

(* The PID after the highest one given out; past the last one is a panic.   *)
TakePid(c) ==
    /\ At(c, "pid")
    /\ LET sys == SystemPid(frame[c].type)
           top == IF sys THEN First(topspid, minspid) ELSE First(topupid, minupid)
       IN  /\ topspid' = IF sys THEN top ELSE topspid
           /\ topupid' = IF sys THEN topupid ELSE top
           /\ IF top + 1 > (IF sys THEN maxspid ELSE maxupid)
              THEN panic(IF sys THEN "REUSESPID" ELSE "REUSEUPID")
              ELSE /\ frame' = [frame EXCEPT ![c].at = "bump", ![c].pid = top + 1]
                   /\ UNCHANGED halted
    /\ UNCHANGED <<tct, mmcbt, ready>>

(* topspid++ or topupid++.                                                  *)
BumpTop(c) ==
    /\ At(c, "bump")
    /\ IF SystemPid(frame[c].type)
       THEN topspid' = topspid + 1 /\ UNCHANGED topupid
       ELSE topupid' = topupid + 1 /\ UNCHANGED topspid
    /\ Goto(c, "slot")
    /\ UNCHANGED <<tct, mmcbt, ready, halted>>

(* Mutant of FindSlot: the search looks at one slot too many.               *)
FindSlot_OffByOne(c) ==
    /\ At(c, "slot")
    /\ LET open == {s \in 1 .. MAX_TASKS : s \in Slots => tct[s].pid = 0}
       IN  frame' = [frame EXCEPT ![c].at = "store",
                        ![c].slot = CHOOSE s \in open : \A r \in open : s <= r]
    /\ UNCHANGED <<topspid, topupid, tct, mmcbt, ready, halted>>

(* The first slot with PID 0; slot 0 does not count, found = 0 means none.  *)
FindSlot(c) ==
    /\ At(c, "slot")
    /\ LET open == {s \in Slots \ {0} : tct[s].pid = 0}
       IN  IF open = {}
           THEN panic("TCT full")
           ELSE /\ frame' = [frame EXCEPT
                        ![c].at = "store",
                        ![c].slot = CHOOSE s \in open : \A r \in open : s <= r]
                /\ UNCHANGED halted
    /\ UNCHANGED <<topspid, topupid, tct, mmcbt, ready>>

-----------------------------------------------------------------------------
(* muxx_setup_taskmem: the type check, then one request after the other.    *)
ValidType(ty) ==
    /\ ty.stack = "SMALLS"
    /\ ty.kind # "OTHER"
    /\ ~(ty.kind = "DRV" /\ ty.size = "BIG")

Page(p) == [n |-> PageSize, page |-> p, map |-> p, off |-> 0]

(* Mutant of Requests: a medium task gets no second page.                   *)
Requests_OnlyBig(ty) ==
      <<Page(3)>>
   \o (IF ty.size = "BIG" THEN <<Page(4), Page(5)>> ELSE <<>>)
   \o <<[n |-> StackSize, page |-> 6, map |-> 6, off |-> StackSize]>>
   \o (IF ty.kind = "DRV" THEN <<[n |-> BufSize, page |-> 5, map |-> 4, off |-> 0]>>
                          ELSE <<>>)

(* The chunks a task of type ty is given, in the order they are asked for.  *)
(* The stack grows down, so its PAR is the chunk's address less its size.   *)
(* The driver buffer is asked for as page 5 and mapped with PAR 4.          *)
Requests(ty) ==
      <<Page(3)>>
   \o (IF ty.size \in {"MED", "BIG"} THEN <<Page(4)>> ELSE <<>>)
   \o (IF ty.size = "BIG" THEN <<Page(5)>> ELSE <<>>)
   \o <<[n |-> StackSize, page |-> 6, map |-> 6, off |-> StackSize]>>
   \o (IF ty.kind = "DRV" THEN <<[n |-> BufSize, page |-> 5, map |-> 4, off |-> 0]>>
                          ELSE <<>>)

(* What muxx_tcbinit and the stores of muxx_taskinit leave in the slot.     *)
NewTask(f) ==
    [FreeTask EXCEPT !.pid = f.pid, !.type = f.type,
                     !.file = IF f.svc = "loadprc" THEN "wanted" ELSE "none"]

(* The end of muxx_taskinit (muxx_tcbinit and the stores into the slot) and *)
(* the checks of muxx_setup_taskmem: for a type it does not support creprc  *)
(* returns -1 and the slot stays taken.                                     *)
StoreTask(c) ==
    /\ At(c, "store")
    /\ LET f == frame[c]
       IN  /\ tct' = [tct EXCEPT ![f.slot] = NewTask(f)]
           /\ frame' = [frame EXCEPT ![c] =
                IF ValidType(f.type)
                THEN [f EXCEPT !.at = "scan", !.todo = Requests(f.type)]
                ELSE Idle]
    /\ UNCHANGED <<topspid, topupid, mmcbt, ready, halted>>

-----------------------------------------------------------------------------
(* muxx_mem_getblock.  Chain[n] is the entry reached after n links.         *)
Chain ==
    LET chain[n \in 0 .. MEM_NMCBS] ==
            IF n = 0 THEN 0
            ELSE LET e == chain[n - 1] IN IF e = NONE THEN NONE ELSE mmcbt[e].next
    IN  chain

Fits(e, n) == mmcbt[e].owner = 0 /\ mmcbt[e].size >= n

(* The scan of the chain.  It finds an entry; or it comes to the end, and   *)
(* creprc returns -1; or the chain has a cycle and it never returns.        *)
Scan(c) ==
    /\ At(c, "scan")
    /\ LET chain == Chain
           stops == {i \in 0 .. MEM_NMCBS :
                        chain[i] = NONE \/ Fits(chain[i], Head(frame[c].todo).n)}
           hit   == chain[CHOOSE i \in stops : \A j \in stops : i <= j]
       IN  IF stops = {}
           THEN panic("endless scan")
           ELSE /\ frame' = [frame EXCEPT ![c] =
                        IF hit = NONE THEN Idle ELSE [@ EXCEPT !.at = "find", !.cur = hit]]
                /\ UNCHANGED halted
    /\ UNCHANGED <<topspid, topupid, tct, mmcbt, ready>>

(* findFreeMMCB: the first unused entry of the table; none is a panic.      *)
findFreeMMCB(c) ==
    /\ At(c, "find")
    /\ LET open == {e \in Entries : mmcbt[e].owner = NONE}
       IN  IF open = {}
           THEN panic("PANIC2")
           ELSE /\ frame' = [frame EXCEPT
                        ![c].at = "carve",
                        ![c].new = CHOOSE e \in open : \A d \in open : e <= d]
                /\ UNCHANGED halted
    /\ UNCHANGED <<topspid, topupid, tct, mmcbt, ready>>

(* The chunk is described, the free entry still starts at the same address. *)
Carve(c) ==
    /\ At(c, "carve")
    /\ LET f == frame[c]
           n == Head(f.todo).n
       IN  mmcbt' = [mmcbt EXCEPT
                ![f.cur].size = (@ + WORD - n) % WORD,
                ![f.new].size = n,
                ![f.new].addr = mmcbt[f.cur].addr]
    /\ Goto(c, "advance")
    /\ UNCHANGED <<topspid, topupid, tct, ready, halted>>

(* Mutant of Advance: the free area keeps its start.                        *)
Advance_Not(c) ==
    /\ At(c, "advance")
    /\ Goto(c, "own")
    /\ UNCHANGED <<topspid, topupid, tct, mmcbt, ready, halted>>

(* Mutant of Advance: the free area starts one unit late.                   *)
Advance_TooFar(c) ==
    /\ At(c, "advance")
    /\ mmcbt' = [mmcbt EXCEPT ![frame[c].cur].addr = (@ + Head(frame[c].todo).n + 1) % WORD]
    /\ Goto(c, "own")
    /\ UNCHANGED <<topspid, topupid, tct, ready, halted>>

Advance(c) ==
    /\ At(c, "advance")
    /\ mmcbt' = [mmcbt EXCEPT ![frame[c].cur].addr = (@ + Head(frame[c].todo).n) % WORD]
    /\ Goto(c, "own")
    /\ UNCHANGED <<topspid, topupid, tct, ready, halted>>

(* Mutant of Own: the last two links are set in the other order, which      *)
(* makes the chain a list again.                                            *)
Own_Linked(c) ==
    /\ At(c, "own")
    /\ LET f == frame[c]
       IN  mmcbt' = [mmcbt EXCEPT
                ![f.cur].next = f.new,
                ![f.new] = [@ EXCEPT !.owner = tct[f.slot].pid,
                                     !.par = Head(f.todo).page,
                                     !.next = mmcbt[f.cur].next]]
    /\ Goto(c, "map")
    /\ UNCHANGED <<topspid, topupid, tct, ready, halted>>

(* The new entry gets its owner and page and is linked behind cur.  The     *)
(* code sets cur->nextBlock before it copies it, so the new entry becomes   *)
(* its own successor.  (prevBlock and the flags are written, never read.)   *)
Own(c) ==
    /\ At(c, "own")
    /\ LET f == frame[c]
       IN  mmcbt' = [mmcbt EXCEPT
                ![f.cur].next = f.new,
                ![f.new] = [@ EXCEPT !.owner = tct[f.slot].pid,
                                     !.par = Head(f.todo).page,
                                     !.next = f.new]]
    /\ Goto(c, "map")
    /\ UNCHANGED <<topspid, topupid, tct, ready, halted>>

(* Back in muxx_setup_taskmem: the PAR is loaded, and on to the next        *)
(* request.                                                                 *)
MapBlock(c) ==
    /\ At(c, "map")
    /\ LET f == frame[c]
           r == Head(f.todo)
       IN  /\ tct' = [tct EXCEPT ![f.slot].par[r.map] = mmcbt[f.new].addr - r.off]
           /\ frame' = [frame EXCEPT ![c] =
                [f EXCEPT !.at = IF Tail(f.todo) # <<>> THEN "scan"
                                 ELSE IF f.svc = "loadprc" THEN "copy" ELSE "enqueue",
                          !.todo = Tail(f.todo), !.cur = NONE, !.new = NONE]]
    /\ UNCHANGED <<topspid, topupid, mmcbt, ready, halted>>

(* muxx_findtcb: the first slot with the PID.                               *)
muxx_findtcb(pid) ==
    CHOOSE s \in Slots : tct[s].pid = pid /\ \A r \in Slots : tct[r].pid = pid => s <= r

(* loadprc copies the file name into page 3 of the task that has the new    *)
(* PID (muxx_svc_xcopy, at priority 7; it cannot fail: the slot is taken,   *)
(* and every task has uic 0 or, INIT, the OPERPRV privilege).               *)
CopyName(c) ==
    /\ At(c, "copy")
    /\ tct' = [tct EXCEPT ![muxx_findtcb(tct[frame[c].slot].pid)].file = "there"]
    /\ Goto(c, "enqueue")
    /\ UNCHANGED <<topspid, topupid, mmcbt, ready, halted>>

(* Back in creprc or loadprc: the task is put in the ready queue.           *)
Enqueue(c) ==
    /\ At(c, "enqueue")
    /\ ready' = ready \cup {frame[c].slot}
    /\ frame' = [frame EXCEPT ![c] = Idle]
    /\ UNCHANGED <<topspid, topupid, tct, mmcbt, halted>>

Next ==
    \E c \in Creators :
        \/ Call(c, "creprc") \/ Call(c, "loadprc") \/ TakePid(c) \/ BumpTop(c) \/ FindSlot(c) \/ StoreTask(c)
        \/ Scan(c) \/ findFreeMMCB(c) \/ Carve(c) \/ Advance(c) \/ Own(c)
        \/ MapBlock(c) \/ CopyName(c) \/ Enqueue(c)

Spec == Init /\ [][Next]_vars

-----------------------------------------------------------------------------
(* The state has the types of the C declarations; a PID never exceeds its   *)
(* limit in h/SCB.s, a table index never leaves its table.                  *)
TypeOK ==
    /\ topspid \in 0 .. maxspid
    /\ topupid \in 0 .. maxupid
    /\ tct \in [Slots -> Task]
    /\ mmcbt \in [Entries -> MMCB]
    /\ ready \subseteq Slots
    /\ \A c \in Creators :
        LET f == frame[c]
        IN  /\ f.at \in Labels
            /\ f.type \in TaskType
            /\ f.pid \in Pids
            /\ f.slot \in Slots
            /\ \A i \in 1 .. Len(f.todo) : f.todo[i] \in Request
            /\ {f.cur, f.new} \subseteq {NONE} \cup Entries

(* The memory an entry describes, and the entries of tasks other than INIT. *)
Blocks(e) == mmcbt[e].addr .. mmcbt[e].addr + mmcbt[e].size - 1
TaskEntries == {e \in Entries : e > 5 /\ mmcbt[e].owner # NONE}

(* No creator is between the two stores that move memory from the free      *)
(* entry to the new one.                                                    *)
Settled == \A c \in Creators : frame[c].at \notin {"advance", "own"}

(* The memory manager hands out the free area and nothing else, once:       *)
(* chunks owned by tasks overlap neither each other nor the kernel's pages  *)
(* nor what is left of the free area (muxx_memsvc.c:47-58).                 *)
ChunksDisjoint ==
    Settled =>
        \A e \in TaskEntries : \A d \in TaskEntries \cup 0 .. Free :
            d # e => Blocks(e) \cap Blocks(d) = {}

(* No unit of memory is lost: every unit of the original free area belongs  *)
(* to a task or is still free (muxx_memsvc.c:47-50).                        *)
MemoryConserved ==
    Settled =>
        FreeAddr .. FreeAddr + FreeSize - 1
            = UNION {Blocks(e) : e \in TaskEntries \cup {Free}}

(* The pages muxx_setup_taskmem allocates for a type (muxx_memsvc.c:234-302)*)
(* and whether page p of task t is mapped on a chunk of n units that the    *)
(* table has for that page of that task.                                    *)
PagesOf(ty) ==
    {3, 6} \cup (IF ty.size = "SMALL" THEN {} ELSE {4})
           \cup (IF ty.size = "BIG" THEN {5} ELSE {})

HasChunk(t, p, n) ==
    \E e \in TaskEntries :
        /\ mmcbt[e].owner = t.pid
        /\ mmcbt[e].par = p
        /\ mmcbt[e].size = n
        /\ mmcbt[e].addr = t.par[p] + (IF p = 6 THEN StackSize ELSE 0)

(* Page p of task t shows the buffer of a driver.                           *)
ShowsBuffer(t, p) ==
    /\ t.type.kind = "DRV"
    /\ \E e \in TaskEntries : /\ mmcbt[e].owner = t.pid
                              /\ mmcbt[e].size = BufSize
                              /\ mmcbt[e].addr = t.par[p]

(* What creprc and loadprc promise of a task they make ready: its pages are *)
(* mapped on chunks of its own, a driver reaches its buffer, and a loaded   *)
(* task finds its file name (muxx_creprc.c:19, 39-43).  The exception is a  *)
(* page that the buffer hides.  A comment (muxx_memsvc.c:330-331) says that *)
(* there is none: the buffer is at page 5, which "should always be free".   *)
(* The code maps it with PAR 4 (337-340), over the second page of a medium  *)
(* driver, which then owns that chunk and cannot reach it.                  *)
ReadyTasksComplete ==
    \A s \in ready : LET t == tct[s] IN
        /\ t.file # "wanted"
        /\ t.type.kind = "DRV" => \E p \in Pages : ShowsBuffer(t, p)
        /\ \A p \in PagesOf(t.type) :
            \/ HasChunk(t, p, IF p = 6 THEN StackSize ELSE PageSize)
            \/ ShowsBuffer(t, p)

(* A PID names one task: muxx_findtcb, the owners of chunks and of devices  *)
(* all rely on it (muxx_taskinit.c:31-50).                                  *)
PidsUnique ==
    \A s, r \in Slots : s # r /\ tct[s].pid # 0 => tct[s].pid # tct[r].pid

(* A task whose creation was refused owns no memory: creprc returns -1 and  *)
(* nothing could ever give the memory back (muxx_creprc.c:19-20).  It holds *)
(* because a request that finds too little memory never returns.            *)
Creating == {frame[c].slot : c \in {d \in Creators : frame[d].at # "idle"}}
RefusedOwnNothing ==
    \A s \in Slots \ ({0} \cup ready \cup Creating) :
        \A e \in TaskEntries : mmcbt[e].owner # tct[s].pid

-----------------------------------------------------------------------------
(* What comments in the source say of this code, and the code does not do.  *)

(* muxx_memsvc.c:39, "No luck: error": a scan that finds no chunk ends.     *)
ScanEnds == halted # "endless scan"

(* muxx_memsvc.c:14-15, "finds a block of contiguous, free memory, marks it *)
(* as allocated to a PID": two ready tasks never share their page 3.        *)
PrivatePages ==
    \A s, r \in ready : s # r => tct[s].par[3] # tct[r].par[3]
=============================================================================
