-------------------------------- MODULE XCopy --------------------------------
(***************************************************************************)
(* The XCOPY service (muxx_svc_xcopy): copy memory of one task to another  *)
(* through two windows of the kernel map, page 4 for the source and page 5 *)
(* for the destination, at IPL 7.                                          *)
(*                                                                         *)
(* A page has PAGESIZE bytes and a task two private pages, of two frames   *)
(* of physical memory that need not be neighbours.  The caller is the task *)
(* "self"; PID 0 and its own PID both mean it.  A PID that nobody has      *)
(* leads to a null TCB, which is read all the same: what is found there    *)
(* (owner and page addresses) is left open.                                *)
(***************************************************************************)
EXTENDS Integers

CONSTANTS
    PAGESIZE,     \* bytes of a page
    MaxSize       \* bound on the size of a copy

ASSUME XCopyAssumption == PAGESIZE \in Nat \ {0} /\ MaxSize \in Nat

VARIABLES
    req,      \* the call: PIDs, addresses, size, and who may do what
    upar,     \* TCB.mmuState.upar of the tasks, pages 3 and 4
    mem,      \* physical memory
    win,      \* the kernel map: frames in pages 4 and 5
    cp,       \* the loop: bytes copied, offsets and windows of both sides
    pc,       \* where the service stands
    rc        \* its result, or how the machine stopped

vars == <<req, upar, mem, win, cp, pc, rc>>

Pids   == {"0", "self", "peer", "nobody"}
Frames == 1 .. 4
Pages  == {3, 4}
Bytes  == 3 * PAGESIZE .. 5 * PAGESIZE - 1

Request == [srcpid : Pids, dstpid : Pids, srcaddr : Bytes, dstaddr : Bytes,
            size : 0 .. MaxSize, srcok : BOOLEAN, dstok : BOOLEAN]

(* Memory as it is before the call: every byte is different.                *)
Before == [f \in Frames |-> [o \in 0 .. PAGESIZE - 1 |-> <<f, o>>]]

Own(p) == p \in {"0", "self"}

(* The task of a PID; upar of "nobody" is whatever stands at the null       *)
(* pointer.                                                                 *)
Task(p) == IF p = "0" THEN "self" ELSE p

(* srcok and dstok are the outcomes of the tests of owner and privilege:    *)
(* a task always passes them for itself.                                    *)
Init ==
    /\ req \in Request
    /\ Own(req.srcpid) => req.srcok
    /\ Own(req.dstpid) => req.dstok
    /\ req.srcaddr + req.size <= 5 * PAGESIZE
    /\ req.dstaddr + req.size <= 5 * PAGESIZE
    /\ \E f \in Frames :
          upar = [self   |-> [p \in Pages |-> IF p = 3 THEN 1 ELSE 3],
                  peer   |-> [p \in Pages |-> IF p = 3 THEN 2 ELSE 4],
                  nobody |-> [p \in Pages |-> f]]
    /\ mem = Before
    /\ win = [p \in {4, 5} |-> IF p = 4 THEN upar["self"][4] ELSE 0]
    /\ cp = [n |-> 0, spage |-> 4, soff |-> 0, dpage |-> 5, doff |-> 0]
    /\ pc = "call"
    /\ rc = "EOK"

PageOf(a) == a \div PAGESIZE
OffOf(a)  == a % PAGESIZE

(* The byte of task t at virtual address a.                                 *)
FrameOf(t, a) == upar[t][PageOf(a)]

(* memcpy within the caller, external: what it does to disjoint areas.      *)
memcpy ==
    [f \in Frames |-> [o \in 0 .. PAGESIZE - 1 |->
        LET Hits == {i \in 0 .. req.size - 1 :
                        /\ FrameOf("self", req.dstaddr + i) = f
                        /\ OffOf(req.dstaddr + i) = o}
        IN  IF Hits = {} THEN mem[f][o]
            ELSE LET a == req.srcaddr + (CHOOSE i \in Hits : TRUE)
                 IN  mem[FrameOf("self", a)][OffOf(a)]]]

(* An empty copy returns at once.  Between two areas of the caller memcpy   *)
(* copies first, and the service goes on all the same.                      *)
Call ==
    /\ pc = "call"
    /\ pc' = IF req.size = 0 THEN "done" ELSE "check"
    /\ mem' = IF req.size > 0 /\ req.srcpid = "0" /\ req.dstpid = "0"
              THEN memcpy ELSE mem
    /\ UNCHANGED <<req, upar, win, cp, rc>>

(* Mutant of Check: the windows are swapped.                                *)
Check_Swapped ==
    /\ pc = "check"
    /\ IF req.srcok /\ req.dstok
       THEN /\ win' = [p \in {4, 5} |->
                          IF p = 5 THEN FrameOf(Task(req.srcpid), req.srcaddr)
                                   ELSE FrameOf(Task(req.dstpid), req.dstaddr)]
            /\ cp' = [cp EXCEPT !.soff = OffOf(req.srcaddr),
                                !.doff = OffOf(req.dstaddr)]
            /\ pc' = "loop"
            /\ UNCHANGED rc
       ELSE /\ rc' = "ENOPRIV"
            /\ pc' = "done"
            /\ UNCHANGED <<win, cp>>
    /\ UNCHANGED <<req, upar, mem>>

(* Permissions, then the windows.  ENOPID is overwritten by either result.  *)
Check ==
    /\ pc = "check"
    /\ IF req.srcok /\ req.dstok
       THEN /\ win' = [p \in {4, 5} |->
                          IF p = 4 THEN FrameOf(Task(req.srcpid), req.srcaddr)
                                   ELSE FrameOf(Task(req.dstpid), req.dstaddr)]
            /\ cp' = [cp EXCEPT !.soff = OffOf(req.srcaddr),
                                !.doff = OffOf(req.dstaddr)]
            /\ pc' = "loop"
            /\ UNCHANGED rc
       ELSE /\ rc' = "ENOPRIV"
            /\ pc' = "done"
            /\ UNCHANGED <<win, cp>>
    /\ UNCHANGED <<req, upar, mem>>

(* Mutant of Window: the page ends one byte early.                          *)
Window_Early(off, page) ==
    IF off >= PAGESIZE - 1 THEN [off |-> 0, page |-> page + 1]
                           ELSE [off |-> off, page |-> page]

(* At the end of a page the offset starts again and the pointer goes to the *)
(* next page of the kernel: from the source to the destination's window,    *)
(* from there to the stack.  The pointer to the PAR moves, not the PAR.     *)
Window(off, page) ==
    IF off >= PAGESIZE THEN [off |-> 0, page |-> page + 1]
                       ELSE [off |-> off, page |-> page]

(* The condition of the loop.                                               *)
More == cp.n < req.size

(* One byte.  The stack page is not mapped at its low end.                  *)
CopyByte ==
    LET s == Window(cp.soff, cp.spage)
        d == Window(cp.doff, cp.dpage)
    IN  /\ pc = "loop"
        /\ More
        /\ IF d.page = 6
           THEN /\ pc' = "halted"
                /\ rc' = "MMU abort"
                /\ UNCHANGED <<mem, cp>>
           ELSE /\ mem' = [mem EXCEPT ![win[d.page]][d.off] =
                                          mem[win[s.page]][s.off]]
                /\ cp' = [n |-> cp.n + 1, spage |-> s.page, soff |-> s.off + 1,
                          dpage |-> d.page, doff |-> d.off + 1]
                /\ UNCHANGED <<pc, rc>>
        /\ UNCHANGED <<req, upar, win>>

(* Mutant of Restore: one window stays open.                                *)
Restore_One ==
    /\ pc = "loop"
    /\ cp.n = req.size
    /\ IF cp.spage = 4
       THEN pc' = "done" /\ win' = [win EXCEPT ![4] = upar["self"][4]]
                         /\ UNCHANGED rc
       ELSE pc' = "halted" /\ rc' = "bus error" /\ UNCHANGED win
    /\ UNCHANGED <<req, upar, mem, cp>>

(* The windows get their old contents back, through pointers that a crossed *)
(* page has moved to where no register answers.                             *)
Restore ==
    /\ pc = "loop"
    /\ cp.n = req.size
    /\ IF cp.spage = 4
       THEN /\ pc' = "done"
            /\ win' = [p \in {4, 5} |-> IF p = 4 THEN upar["self"][4] ELSE 0]
            /\ UNCHANGED rc
       ELSE pc' = "halted" /\ rc' = "bus error" /\ UNCHANGED win
    /\ UNCHANGED <<req, upar, mem, cp>>

Next == Call \/ Check \/ CopyByte \/ Restore

Spec == Init /\ [][Next]_vars

-----------------------------------------------------------------------------
Crosses(a) == PageOf(a) # PageOf(a + req.size - 1)

(* The physical bytes of the two areas of the call.                         *)
Area(pid, a) ==
    {<<FrameOf(Task(pid), a + i), OffOf(a + i)>> : i \in 0 .. req.size - 1}

(* What a copy should leave.                                                *)
Copied ==
    /\ \A i \in 0 .. req.size - 1 :
          mem[FrameOf(Task(req.dstpid), req.dstaddr + i)]
             [OffOf(req.dstaddr + i)]
            = <<FrameOf(Task(req.srcpid), req.srcaddr + i),
                OffOf(req.srcaddr + i)>>
    /\ \A f \in Frames, o \in 0 .. PAGESIZE - 1 :
          <<f, o>> \notin Area(req.dstpid, req.dstaddr)
              => mem[f][o] = <<f, o>>

(* A copy between disjoint areas that ends well leaves exactly the bytes of *)
(* the source in the destination and touches nothing else, copied once or   *)
(* twice.                                                                   *)
CopyExact ==
    /\ pc = "done"
    /\ rc = "EOK"
    /\ Area(req.srcpid, req.srcaddr) \cap Area(req.dstpid, req.dstaddr) = {}
    => Copied

(* Whatever the result, the service returns with the caller's pages back in *)
(* the kernel map, and a refused call has changed nothing.                  *)
MapRestored ==
    pc = "done" => /\ win[4] = upar["self"][4] /\ win[5] = 0
                   /\ rc # "EOK" => mem = Before

(* The service fails to return exactly when an area crosses a page.         *)
HaltsOnlyCrossing ==
    /\ pc = "halted" => Crosses(req.srcaddr) \/ Crosses(req.dstaddr)
    /\ pc = "done" /\ rc = "EOK" /\ req.size > 0
          => ~Crosses(req.srcaddr) /\ ~Crosses(req.dstaddr)

=============================================================================
