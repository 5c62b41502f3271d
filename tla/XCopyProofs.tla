----------------------------- MODULE XCopyProofs -----------------------------
(***************************************************************************)
(* What XCOPY does, for every page size and every size of a copy.          *)
(*                                                                         *)
(* The loop works on two windows and two offsets; the properties speak of  *)
(* addresses.  The inductive invariant ties them together for as long as   *)
(* neither side has left its page, and says which bytes are already there. *)
(***************************************************************************)
EXTENDS XCopy, TLAPS

Steps == {"call", "check", "loop", "done", "halted"}

(* The two areas of the call, and whether one ends in the page it starts.   *)
SrcArea == Area(req.srcpid, req.srcaddr)
DstArea == Area(req.dstpid, req.dstaddr)
Disjoint == SrcArea \cap DstArea = {}
Within(a) == OffOf(a) + req.size <= PAGESIZE
NoCross == Within(req.srcaddr) /\ Within(req.dstaddr)

(* The i-th byte of the source and of the destination in physical memory.   *)
SrcFrame(i) == FrameOf(Task(req.srcpid), req.srcaddr + i)
SrcOff(i)   == OffOf(req.srcaddr + i)
DstFrame(i) == FrameOf(Task(req.dstpid), req.dstaddr + i)
DstOff(i)   == OffOf(req.dstaddr + i)

(* What never changes: the request is one that Init admits, and every page  *)
(* of every task is in some frame.                                          *)
CallInv ==
    /\ req \in Request
    /\ Own(req.srcpid) => req.srcok
    /\ Own(req.dstpid) => req.dstok
    /\ req.srcaddr + req.size <= 5 * PAGESIZE
    /\ req.dstaddr + req.size <= 5 * PAGESIZE
    /\ \A t \in {"self", "peer", "nobody"}, p \in Pages : upar[t][p] \in Frames

CallersMap == win[4] = upar["self"][4] /\ win[5] = 0

(* The two sides of the loop.  The source may have left its page, the       *)
(* destination stops the machine when it does.                              *)
LoopInv ==
    /\ rc = "EOK"
    /\ win[4] = SrcFrame(0) /\ win[5] = DstFrame(0)
    /\ cp.n \in 0 .. req.size
    /\ cp.soff \in Nat /\ cp.doff \in Nat /\ cp.spage \in Nat /\ cp.spage >= 4
    /\ IF cp.spage = 4
       THEN cp.soff = OffOf(req.srcaddr) + cp.n /\ cp.soff <= PAGESIZE
       ELSE ~Within(req.srcaddr)
    /\ cp.dpage = 5
    /\ cp.doff = OffOf(req.dstaddr) + cp.n /\ cp.doff <= PAGESIZE

(* Where the service stands, and what it owes its caller there.             *)
PathInv ==
    /\ pc \in Steps
    /\ pc \in {"call", "check"} =>
          /\ rc = "EOK" /\ CallersMap
          /\ cp = [n |-> 0, spage |-> 4, soff |-> 0, dpage |-> 5, doff |-> 0]
          /\ mem = Before \/ (req.srcok /\ req.dstok)
    /\ pc \in {"check", "loop", "halted"} => req.size > 0
    /\ pc = "loop" => LoopInv
    /\ pc = "done" => /\ CallersMap
                      /\ rc # "EOK" => mem = Before
                      /\ rc = "EOK" /\ req.size > 0 => NoCross
    /\ pc = "halted" => ~NoCross

(* Nothing outside the destination has changed.                             *)
Kept ==
    /\ mem = [f \in Frames |-> [o \in 0 .. PAGESIZE - 1 |-> mem[f][o]]]
    /\ \A f \in Frames, o \in 0 .. PAGESIZE - 1 :
          <<f, o>> \notin DstArea => mem[f][o] = <<f, o>>

(* The first n bytes of the destination hold those of the source.           *)
There(n) ==
    \A i \in 0 .. n - 1 : mem[DstFrame(i)][DstOff(i)] = <<SrcFrame(i), SrcOff(i)>>

MemInv ==
    /\ pc \in {"call", "check"} => Kept
    /\ pc = "loop" /\ NoCross /\ Disjoint => Kept /\ There(cp.n)
    /\ pc = "done" /\ rc = "EOK" /\ Disjoint => Kept /\ There(req.size)

IInv == CallInv /\ PathInv /\ MemInv

-----------------------------------------------------------------------------
(* Pages and offsets.  A division leaves a remainder below the divisor.     *)
LEMMA DivMod ==
    ASSUME NEW a \in Int
    PROVE  /\ a = PageOf(a) * PAGESIZE + OffOf(a)
           /\ OffOf(a) \in 0 .. PAGESIZE - 1
           /\ PageOf(a) \in Int
  <1>1. a = (a \div PAGESIZE) * PAGESIZE + (a % PAGESIZE)
    BY XCopyAssumption
  <1>2. a % PAGESIZE \in 0 .. PAGESIZE - 1
    BY XCopyAssumption
  <1>3. a \div PAGESIZE \in Int
    BY XCopyAssumption
  <1> QED
    BY <1>1, <1>2, <1>3 DEF PageOf, OffOf

(* An address has one page and one offset.                                  *)
LEMMA DivModUnique ==
    ASSUME NEW q \in Int, NEW r \in 0 .. PAGESIZE - 1,
           NEW k \in Int, NEW o \in 0 .. PAGESIZE - 1,
           q * PAGESIZE + r = k * PAGESIZE + o
    PROVE  q = k /\ r = o
  <1>1. PAGESIZE \in Nat /\ PAGESIZE * (q - k) = o - r
    BY XCopyAssumption
  <1>2. ~ (q - k >= 1)
    <2> SUFFICES ASSUME q - k >= 1 PROVE FALSE
      OBVIOUS
    <2>1. PAGESIZE * (q - k) >= PAGESIZE
      BY <1>1
    <2> QED
      BY <1>1, <2>1
  <1>3. ~ (q - k <= -1)
    <2> SUFFICES ASSUME q - k <= -1 PROVE FALSE
      OBVIOUS
    <2>1. PAGESIZE * (q - k) <= -PAGESIZE
      BY <1>1
    <2> QED
      BY <1>1, <2>1
  <1>4. q = k
    BY <1>2, <1>3
  <1> QED
    BY <1>1, <1>4

(* Inside a page the offset grows with the address.                         *)
LEMMA SamePage ==
    ASSUME NEW a \in Int, NEW i \in Nat, OffOf(a) + i < PAGESIZE
    PROVE  PageOf(a + i) = PageOf(a) /\ OffOf(a + i) = OffOf(a) + i
  <1>1. /\ a = PageOf(a) * PAGESIZE + OffOf(a)
        /\ OffOf(a) \in 0 .. PAGESIZE - 1 /\ PageOf(a) \in Int
    BY DivMod
  <1>2. a + i \in Int
    OBVIOUS
  <1>3. /\ a + i = PageOf(a + i) * PAGESIZE + OffOf(a + i)
        /\ OffOf(a + i) \in 0 .. PAGESIZE - 1 /\ PageOf(a + i) \in Int
    BY <1>2, DivMod
  <1>4. /\ PageOf(a + i) * PAGESIZE + OffOf(a + i) = PageOf(a) * PAGESIZE + (OffOf(a) + i)
        /\ OffOf(a) + i \in 0 .. PAGESIZE - 1
    BY <1>1, <1>3, XCopyAssumption
  <1> QED
    BY <1>1, <1>3, <1>4, DivModUnique

(* Past the end of the page there is another page.                          *)
LEMMA NextPage ==
    ASSUME NEW a \in Int, NEW i \in Nat, OffOf(a) + i >= PAGESIZE
    PROVE  PageOf(a + i) # PageOf(a)
  <1> SUFFICES ASSUME PageOf(a + i) = PageOf(a) PROVE FALSE
    OBVIOUS
  <1>1. /\ a = PageOf(a) * PAGESIZE + OffOf(a)
        /\ OffOf(a) \in 0 .. PAGESIZE - 1 /\ PageOf(a) \in Int
    BY DivMod
  <1>2. a + i \in Int
    OBVIOUS
  <1>3. /\ a + i = PageOf(a) * PAGESIZE + OffOf(a + i)
        /\ OffOf(a + i) \in 0 .. PAGESIZE - 1
    BY <1>2, DivMod
  <1> QED
    BY <1>1, <1>3, XCopyAssumption

(* The addresses of the private pages.                                      *)
LEMMA PagesOfBytes ==
    ASSUME NEW a \in Bytes
    PROVE  PageOf(a) \in Pages /\ a \in Int
  <1>0. a \in Int /\ PAGESIZE \in Nat \ {0} /\ 3 * PAGESIZE <= a /\ a < 5 * PAGESIZE
    BY XCopyAssumption DEF Bytes
  <1> DEFINE q == PageOf(a)
             r == OffOf(a)
  <1>1. a = q * PAGESIZE + r /\ r \in 0 .. PAGESIZE - 1 /\ q \in Int
    BY <1>0, DivMod
  <1> HIDE DEF q, r
  <1>2. q >= 3
    <2> SUFFICES ASSUME q <= 2 PROVE FALSE
      BY <1>1
    <2>1. q * PAGESIZE <= 2 * PAGESIZE
      BY <1>0, <1>1
    <2> QED
      BY <1>0, <1>1, <2>1
  <1>3. q <= 4
    <2> SUFFICES ASSUME q >= 5 PROVE FALSE
      BY <1>1
    <2>1. q * PAGESIZE >= 5 * PAGESIZE
      BY <1>0, <1>1
    <2> QED
      BY <1>0, <1>1, <2>1
  <1> QED
    BY <1>0, <1>1, <1>2, <1>3 DEF q, Pages

(* An area crosses a page exactly when it does not end in its first page.   *)
LEMMA CrossesIffNotWithin ==
    ASSUME NEW a \in Bytes, req.size \in Nat, req.size > 0
    PROVE  Crosses(a) <=> ~Within(a)
  <1> DEFINE i == req.size - 1
  <1>1. /\ i \in Nat /\ a \in Int /\ a + req.size - 1 = a + i
        /\ req.size = i + 1 /\ PAGESIZE \in Nat
    BY PagesOfBytes, XCopyAssumption
  <1>o. OffOf(a) \in Int
    BY <1>1, DivMod
  <1> HIDE DEF i
  <1>2. CASE OffOf(a) + i < PAGESIZE
    <2>1. PageOf(a + i) = PageOf(a)
      BY <1>1, <1>2, SamePage
    <2>2. Within(a)
      BY <1>1, <1>o, <1>2 DEF Within
    <2> QED
      BY <1>1, <2>1, <2>2 DEF Crosses
  <1>3. CASE OffOf(a) + i >= PAGESIZE
    <2>1. PageOf(a + i) # PageOf(a)
      BY <1>1, <1>3, NextPage
    <2>2. ~Within(a)
      BY <1>1, <1>o, <1>3 DEF Within
    <2> QED
      BY <1>1, <2>1, <2>2 DEF Crosses
  <1>4. OffOf(a) + i < PAGESIZE \/ OffOf(a) + i >= PAGESIZE
    BY <1>1, <1>o
  <1> QED
    BY <1>2, <1>3, <1>4

-----------------------------------------------------------------------------
(* What is fixed by the request, with the types the proofs need.            *)
LEMMA RequestTypes ==
    ASSUME CallInv
    PROVE  /\ req.size \in Nat /\ req.srcaddr \in Bytes /\ req.dstaddr \in Bytes
           /\ PAGESIZE \in Nat \ {0}
           /\ Task(req.srcpid) \in {"self", "peer", "nobody"}
           /\ Task(req.dstpid) \in {"self", "peer", "nobody"}
           /\ OffOf(req.srcaddr) \in 0 .. PAGESIZE - 1
           /\ OffOf(req.dstaddr) \in 0 .. PAGESIZE - 1
  <1>1. /\ req.size \in Nat /\ req.srcaddr \in Bytes /\ req.dstaddr \in Bytes
        /\ req.srcpid \in Pids /\ req.dstpid \in Pids
    BY XCopyAssumption DEF CallInv, Request
  <1>2. /\ Task(req.srcpid) \in {"self", "peer", "nobody"}
        /\ Task(req.dstpid) \in {"self", "peer", "nobody"}
    BY <1>1 DEF Task, Pids
  <1> QED
    BY <1>1, <1>2, PagesOfBytes, DivMod, XCopyAssumption

(* Every byte of both areas is in some frame, at some offset.               *)
LEMMA AreaTypes ==
    ASSUME CallInv, NEW i \in 0 .. req.size - 1
    PROVE  /\ SrcFrame(i) \in Frames /\ SrcOff(i) \in 0 .. PAGESIZE - 1
           /\ DstFrame(i) \in Frames /\ DstOff(i) \in 0 .. PAGESIZE - 1
           /\ <<SrcFrame(i), SrcOff(i)>> \in SrcArea
           /\ <<DstFrame(i), DstOff(i)>> \in DstArea
  <1>1. req.srcaddr + i \in Bytes /\ req.dstaddr + i \in Bytes
    BY RequestTypes DEF CallInv, Bytes
  <1>2. PageOf(req.srcaddr + i) \in Pages /\ PageOf(req.dstaddr + i) \in Pages
    BY <1>1, PagesOfBytes
  <1>3. SrcFrame(i) \in Frames /\ DstFrame(i) \in Frames
    BY <1>2, RequestTypes DEF CallInv, SrcFrame, DstFrame, FrameOf
  <1>4. SrcOff(i) \in 0 .. PAGESIZE - 1 /\ DstOff(i) \in 0 .. PAGESIZE - 1
    BY <1>1, PagesOfBytes, DivMod DEF SrcOff, DstOff
  <1> QED
    BY <1>3, <1>4 DEF SrcArea, DstArea, Area, SrcFrame, SrcOff, DstFrame, DstOff

(* An area that ends in its first page is one run of bytes of one frame.    *)
LEMMA OneFrame ==
    ASSUME CallInv, NoCross, NEW i \in 0 .. req.size - 1
    PROVE  /\ SrcFrame(i) = SrcFrame(0) /\ SrcOff(i) = OffOf(req.srcaddr) + i
           /\ DstFrame(i) = DstFrame(0) /\ DstOff(i) = OffOf(req.dstaddr) + i
  <1>1. /\ i \in Nat /\ req.srcaddr \in Int /\ req.dstaddr \in Int
        /\ req.srcaddr + 0 = req.srcaddr /\ req.dstaddr + 0 = req.dstaddr
    BY RequestTypes, PagesOfBytes
  <1>2. OffOf(req.srcaddr) + i < PAGESIZE /\ OffOf(req.dstaddr) + i < PAGESIZE
    BY RequestTypes DEF NoCross, Within
  <1> QED
    BY <1>1, <1>2, SamePage DEF SrcFrame, SrcOff, DstFrame, DstOff, FrameOf

(* No step changes the request or the page tables, nor what is said of them.*)
LEMMA Frozen ==
    ASSUME UNCHANGED <<req, upar>>
    PROVE  /\ Disjoint' = Disjoint /\ NoCross' = NoCross /\ DstArea' = DstArea
           /\ \A i : /\ SrcFrame(i)' = SrcFrame(i) /\ SrcOff(i)' = SrcOff(i)
                     /\ DstFrame(i)' = DstFrame(i) /\ DstOff(i)' = DstOff(i)
           /\ \A a : Within(a)' = Within(a)
           /\ CallInv' = CallInv
  BY DEF Disjoint, NoCross, SrcArea, DstArea, Area, SrcFrame, SrcOff, DstFrame,
         DstOff, FrameOf, Within, CallInv

(* While memory does not change, neither does what is there.                *)
LEMMA MemFrozen ==
    ASSUME UNCHANGED <<req, upar, mem>>
    PROVE  Kept' = Kept /\ \A n : There(n)' = There(n)
  BY DEF Kept, There, DstArea, Area, SrcFrame, SrcOff, DstFrame, DstOff, FrameOf

-----------------------------------------------------------------------------
(* The call as it arrives: memory untouched, the caller's map in place.     *)
LEMMA InvInit == Init => IInv
  <1> SUFFICES ASSUME Init PROVE IInv
    OBVIOUS
  <1>1. CallInv
    <2>1. PICK f \in Frames :
            upar = [self   |-> [p \in Pages |-> IF p = 3 THEN 1 ELSE 3],
                    peer   |-> [p \in Pages |-> IF p = 3 THEN 2 ELSE 4],
                    nobody |-> [p \in Pages |-> f]]
      BY DEF Init
    <2>2. \A p \in Pages : /\ upar["self"][p] \in Frames /\ upar["peer"][p] \in Frames
                           /\ upar["nobody"][p] \in Frames
      BY <2>1 DEF Frames
    <2> QED
      BY <2>2 DEF Init, CallInv
  <1>2. PathInv
    <2>1. CallersMap
      BY DEF Init, CallersMap
    <2> QED
      BY <2>1 DEF Init, PathInv, Steps
  <1>3. Kept
    BY DEF Init, Kept, Before
  <1>4. MemInv
    BY <1>3 DEF MemInv, Init
  <1> QED
    BY <1>1, <1>2, <1>4 DEF IInv

(* An empty copy is done at once; memcpy changes the destination only.      *)
LEMMA CallStep == IInv /\ Call => IInv'
  <1> SUFFICES ASSUME IInv, Call PROVE IInv'
    OBVIOUS
  <1>1. /\ CallInv /\ pc = "call" /\ UNCHANGED <<req, upar, win, cp, rc>>
        /\ pc' = IF req.size = 0 THEN "done" ELSE "check"
    BY DEF IInv, Call
  <1>2. CallInv' /\ Disjoint' = Disjoint /\ DstArea' = DstArea
    BY <1>1, Frozen
  <1>3. rc = "EOK" /\ Kept /\ CallersMap /\ CallersMap'
        /\ cp = [n |-> 0, spage |-> 4, soff |-> 0, dpage |-> 5, doff |-> 0]
    BY <1>1 DEF IInv, PathInv, MemInv, CallersMap
  <1>4. mem' = Before \/ (req.srcok /\ req.dstok)
    <2>1. mem = Before \/ (req.srcok /\ req.dstok)
      BY <1>1 DEF IInv, PathInv
    <2>2. CASE req.srcpid = "0" /\ req.dstpid = "0"
      BY <1>1, <2>2 DEF CallInv, Own
    <2>3. CASE ~ (req.srcpid = "0" /\ req.dstpid = "0")
      BY <2>1, <2>3 DEF Call
    <2> QED
      BY <2>2, <2>3
  <1>5. req.size \in Nat
    BY <1>1, RequestTypes
  <1>6. PathInv'
    <2>1. CASE req.size = 0
      <3>1. mem' = mem
        BY <2>1, <1>5 DEF Call
      <3> QED
        BY <1>1, <1>3, <2>1, <3>1 DEF PathInv, Steps
    <2>2. CASE req.size # 0
      BY <1>1, <1>3, <1>4, <1>5, <2>2 DEF PathInv, Steps
    <2> QED
      BY <2>1, <2>2
  <1>7. Kept'
    <2>1. CASE mem' = mem
      BY <1>1, <1>3, <2>1, MemFrozen
    <2>2. CASE /\ req.size > 0 /\ req.srcpid = "0" /\ req.dstpid = "0"
               /\ mem' = memcpy
      <3>1. memcpy = [f \in Frames |-> [o \in 0 .. PAGESIZE - 1 |-> memcpy[f][o]]]
        BY DEF memcpy
      <3>2. ASSUME NEW f \in Frames, NEW o \in 0 .. PAGESIZE - 1, <<f, o>> \notin DstArea
            PROVE  memcpy[f][o] = <<f, o>>
        <4> DEFINE Hits == {i \in 0 .. req.size - 1 :
                              /\ FrameOf("self", req.dstaddr + i) = f
                              /\ OffOf(req.dstaddr + i) = o}
        <4>1. Hits = {}
          BY <2>2, <3>2 DEF DstArea, Area, Task
        <4>2. memcpy[f][o] = IF Hits = {} THEN mem[f][o]
                 ELSE LET a == req.srcaddr + (CHOOSE i \in Hits : TRUE)
                      IN  mem[FrameOf("self", a)][OffOf(a)]
          BY DEF memcpy
        <4>3. memcpy[f][o] = mem[f][o]
          BY <4>1, <4>2
        <4> QED
          BY <1>3, <3>2, <4>3 DEF Kept
      <3> HIDE DEF memcpy
      <3> QED
        BY <1>2, <2>2, <3>1, <3>2 DEF Kept
    <2> QED
      BY <2>1, <2>2 DEF Call
  <1>8. MemInv'
    <2>1. req.size = 0 => There(req.size)'
      BY <1>1 DEF There
    <2> QED
      BY <1>1, <1>7, <2>1 DEF MemInv
  <1> QED
    BY <1>2, <1>6, <1>8 DEF IInv

(* A refused call has changed nothing; a granted one opens both windows.    *)
LEMMA CheckStep == IInv /\ Check => IInv'
  <1> SUFFICES ASSUME IInv, Check PROVE IInv'
    OBVIOUS
  <1>1. CallInv /\ pc = "check" /\ UNCHANGED <<req, upar, mem>>
    BY DEF IInv, Check
  <1>2. CallInv' /\ Kept' = Kept /\ NoCross' = NoCross
        /\ \A a : Within(a)' = Within(a)
        /\ \A i : SrcFrame(i)' = SrcFrame(i) /\ DstFrame(i)' = DstFrame(i)
    BY <1>1, Frozen, MemFrozen
  <1>3. /\ rc = "EOK" /\ Kept /\ CallersMap /\ req.size > 0
        /\ cp = [n |-> 0, spage |-> 4, soff |-> 0, dpage |-> 5, doff |-> 0]
        /\ mem = Before \/ (req.srcok /\ req.dstok)
    BY <1>1 DEF IInv, PathInv, MemInv
  <1>4. CASE ~ (req.srcok /\ req.dstok)
    <2>1. rc' = "ENOPRIV" /\ pc' = "done" /\ UNCHANGED <<win, cp>> /\ mem = Before
      BY <1>3, <1>4 DEF Check
    <2> QED
      BY <1>1, <1>2, <1>3, <2>1 DEF IInv, PathInv, MemInv, CallersMap, Steps
  <1>5. CASE req.srcok /\ req.dstok
    <2>1. /\ win' = [p \in {4, 5} |->
                          IF p = 4 THEN FrameOf(Task(req.srcpid), req.srcaddr)
                                   ELSE FrameOf(Task(req.dstpid), req.dstaddr)]
          /\ cp' = [cp EXCEPT !.soff = OffOf(req.srcaddr),
                              !.doff = OffOf(req.dstaddr)]
          /\ pc' = "loop" /\ rc' = "EOK"
      BY <1>3, <1>5 DEF Check
    <2>2. req.srcaddr + 0 = req.srcaddr /\ req.dstaddr + 0 = req.dstaddr
      BY <1>1, RequestTypes, PagesOfBytes
    <2>3. win'[4] = SrcFrame(0) /\ win'[5] = DstFrame(0)
      BY <2>1, <2>2 DEF SrcFrame, DstFrame
    <2>4. cp' = [n |-> 0, spage |-> 4, soff |-> OffOf(req.srcaddr),
                 dpage |-> 5, doff |-> OffOf(req.dstaddr)]
      BY <1>3, <2>1
    <2>5. OffOf(req.srcaddr) \in 0 .. PAGESIZE - 1
          /\ OffOf(req.dstaddr) \in 0 .. PAGESIZE - 1
          /\ PAGESIZE \in Nat /\ req.size \in Nat
      BY <1>1, RequestTypes
    <2>6. LoopInv'
      <3>1. /\ cp'.n = 0 /\ cp'.spage = 4 /\ cp'.soff = OffOf(req.srcaddr)
            /\ cp'.dpage = 5 /\ cp'.doff = OffOf(req.dstaddr)
        BY <2>4
      <3>2. /\ cp'.soff \in Nat /\ cp'.doff \in Nat /\ cp'.n \in 0 .. req.size
            /\ cp'.soff = OffOf(req.srcaddr) + cp'.n /\ cp'.soff <= PAGESIZE
            /\ cp'.doff = OffOf(req.dstaddr) + cp'.n /\ cp'.doff <= PAGESIZE
        BY <2>5, <3>1
      <3> QED
        BY <1>1, <1>2, <2>1, <2>3, <3>1, <3>2 DEF LoopInv
    <2>7. There(cp.n)'
      BY <2>4 DEF There
    <2>8. PathInv'
      BY <1>1, <1>3, <2>1, <2>6 DEF PathInv, Steps
    <2>9. MemInv'
      BY <1>2, <1>3, <2>1, <2>7 DEF MemInv
    <2> QED
      BY <1>2, <2>8, <2>9 DEF IInv
  <1> QED
    BY <1>4, <1>5

(* The windows are closed if the source pointer has not moved.              *)
LEMMA RestoreStep == IInv /\ Restore => IInv'
  <1> SUFFICES ASSUME IInv, Restore PROVE IInv'
    OBVIOUS
  <1>1. /\ CallInv /\ pc = "loop" /\ cp.n = req.size
        /\ UNCHANGED <<req, upar, mem, cp>>
    BY DEF IInv, Restore
  <1>2. CallInv' /\ NoCross' = NoCross /\ Disjoint' = Disjoint /\ Kept' = Kept
        /\ There(req.size)' = There(req.size)
    BY <1>1, Frozen, MemFrozen
  <1>3. LoopInv /\ req.size > 0
    BY <1>1 DEF IInv, PathInv
  <1>4. CASE cp.spage = 4
    <2>1. NoCross
      BY <1>1, <1>3, <1>4 DEF LoopInv, NoCross, Within
    <2>2. Disjoint => Kept /\ There(req.size)
      BY <1>1, <2>1 DEF IInv, MemInv
    <2>3. pc' = "done" /\ rc' = rc
          /\ win' = [p \in {4, 5} |-> IF p = 4 THEN upar["self"][4] ELSE 0]
      BY <1>4 DEF Restore
    <2>4. CallersMap'
      BY <1>1, <2>3 DEF CallersMap
    <2>5. rc = "EOK"
      BY <1>3 DEF LoopInv
    <2> QED
      BY <1>1, <1>2, <2>1, <2>2, <2>3, <2>4, <2>5 DEF IInv, PathInv, MemInv, Steps
  <1>5. CASE cp.spage # 4
    <2>1. ~NoCross
      BY <1>3, <1>5 DEF LoopInv, NoCross
    <2>2. pc' = "halted"
      BY <1>5 DEF Restore
    <2> QED
      BY <1>1, <1>2, <1>3, <2>1, <2>2 DEF IInv, PathInv, MemInv, Steps
  <1> QED
    BY <1>4, <1>5

(* One byte.  While neither side has left its page the byte goes from its   *)
(* place in the source to its place in the destination, past the bytes that *)
(* are already there.                                                       *)
LEMMA CopyByteStep == IInv /\ CopyByte => IInv'
  <1> SUFFICES ASSUME IInv, CopyByte PROVE IInv'
    OBVIOUS
  <1> DEFINE s == Window(cp.soff, cp.spage)
             d == Window(cp.doff, cp.dpage)
             n == cp.n
  <1>1. /\ CallInv /\ pc = "loop" /\ cp.n < req.size
        /\ UNCHANGED <<req, upar, win>>
    BY DEF IInv, CopyByte, More
  <1>2. CallInv' /\ NoCross' = NoCross /\ Disjoint' = Disjoint /\ DstArea' = DstArea
        /\ (\A a : Within(a)' = Within(a))
        /\ \A i : /\ SrcFrame(i)' = SrcFrame(i) /\ SrcOff(i)' = SrcOff(i)
                  /\ DstFrame(i)' = DstFrame(i) /\ DstOff(i)' = DstOff(i)
    BY <1>1, Frozen
  <1>3. LoopInv /\ req.size > 0 /\ req.size \in Nat /\ PAGESIZE \in Nat \ {0}
        /\ OffOf(req.srcaddr) \in 0 .. PAGESIZE - 1
        /\ OffOf(req.dstaddr) \in 0 .. PAGESIZE - 1
    BY <1>1, RequestTypes DEF IInv, PathInv
  <1>4. n \in Nat /\ n + 1 \in 0 .. req.size /\ n \in 0 .. req.size - 1
    BY <1>1, <1>3 DEF LoopInv
  <1>5. CASE cp.doff >= PAGESIZE
    <2>1. d.page = 6
      BY <1>3, <1>5 DEF LoopInv, Window
    <2>2. pc' = "halted"
      BY <2>1 DEF CopyByte
    <2>3. ~NoCross
      BY <1>1, <1>3, <1>4, <1>5 DEF LoopInv, NoCross, Within
    <2> QED
      BY <1>1, <1>2, <1>3, <2>2, <2>3 DEF IInv, PathInv, MemInv, Steps
  <1>6. CASE ~ (cp.doff >= PAGESIZE)
    <2>1. d = [off |-> cp.doff, page |-> 5]
      BY <1>3, <1>6 DEF LoopInv, Window
    <2>2. /\ mem' = [mem EXCEPT ![win[5]][cp.doff] = mem[win[s.page]][s.off]]
          /\ cp' = [n |-> n + 1, spage |-> s.page, soff |-> s.off + 1,
                    dpage |-> 5, doff |-> cp.doff + 1]
          /\ UNCHANGED <<pc, rc>>
      BY <2>1 DEF CopyByte
    <2>3. IF s.page = 4
          THEN s.off = OffOf(req.srcaddr) + n /\ s.off < PAGESIZE
          ELSE ~Within(req.srcaddr)
      <3>1. CASE cp.soff >= PAGESIZE
        <4>1. s.page # 4
          BY <1>3, <3>1 DEF LoopInv, Window
        <4>2. ~Within(req.srcaddr)
          BY <1>1, <1>3, <1>4, <3>1 DEF LoopInv, Within
        <4> QED
          BY <4>1, <4>2
      <3>2. CASE ~ (cp.soff >= PAGESIZE)
        <4>1. s.page = cp.spage /\ s.off = cp.soff
          BY <3>2 DEF Window
        <4> QED
          BY <1>3, <3>2, <4>1 DEF LoopInv
      <3> QED
        BY <3>1, <3>2
    <2>4. s.page \in Nat /\ s.off \in Nat /\ s.page >= 4
      BY <1>3 DEF LoopInv, Window
    <2> HIDE DEF s
    <2>5. LoopInv'
      <3>1. /\ cp'.n = n + 1 /\ cp'.spage = s.page /\ cp'.soff = s.off + 1
            /\ cp'.dpage = 5 /\ cp'.doff = cp.doff + 1
        BY <2>2
      <3>2. cp'.soff \in Nat /\ cp'.doff \in Nat /\ cp'.doff <= PAGESIZE
            /\ cp'.doff = OffOf(req.dstaddr) + cp'.n
        BY <1>3, <1>4, <1>6, <2>4, <3>1 DEF LoopInv
      <3>3. s.page = 4 => cp'.soff = OffOf(req.srcaddr) + cp'.n /\ cp'.soff <= PAGESIZE
        BY <1>3, <1>4, <2>3, <2>4, <3>1
      <3> QED
        BY <1>1, <1>2, <1>3, <1>4, <2>2, <2>3, <2>4, <3>1, <3>2, <3>3 DEF LoopInv
    <2>6. PathInv'
      BY <1>1, <1>3, <2>2, <2>5 DEF PathInv, Steps
    <2>7. ASSUME NoCross, Disjoint PROVE Kept' /\ There(cp.n)'
      <3>1. Kept /\ There(n)
        BY <1>1, <2>7 DEF IInv, MemInv
      <3>2. s.page = 4 /\ s.off = SrcOff(n) /\ win[4] = SrcFrame(n)
        BY <1>1, <1>3, <1>4, <2>3, <2>7, OneFrame DEF LoopInv, NoCross
      <3>3. cp.doff = DstOff(n) /\ win[5] = DstFrame(n)
        BY <1>1, <1>3, <1>4, <2>7, OneFrame DEF LoopInv
      <3>4. /\ SrcFrame(n) \in Frames /\ SrcOff(n) \in 0 .. PAGESIZE - 1
            /\ DstFrame(n) \in Frames /\ DstOff(n) \in 0 .. PAGESIZE - 1
            /\ <<SrcFrame(n), SrcOff(n)>> \notin DstArea
            /\ <<DstFrame(n), DstOff(n)>> \in DstArea
        BY <1>1, <1>4, <2>7, AreaTypes DEF Disjoint
      <3>5. mem[SrcFrame(n)][SrcOff(n)] = <<SrcFrame(n), SrcOff(n)>>
        BY <3>1, <3>4 DEF Kept
      <3> DEFINE F == DstFrame(n)
                 O == DstOff(n)
                 V == <<SrcFrame(n), SrcOff(n)>>
      <3>6. mem' = [mem EXCEPT ![F][O] = V]
        BY <2>2, <3>2, <3>3, <3>5
      <3>7. F \in Frames /\ O \in 0 .. PAGESIZE - 1 /\ <<F, O>> \in DstArea
        BY <3>4
      <3> HIDE DEF F, O, V
      <3>8. mem = [f \in Frames |-> [o \in 0 .. PAGESIZE - 1 |-> mem[f][o]]]
        BY <3>1 DEF Kept
      <3>9. mem' = [f \in Frames |-> [o \in 0 .. PAGESIZE - 1 |->
                      IF f = F /\ o = O THEN V ELSE mem[f][o]]]
        BY <3>6, <3>7, <3>8
      <3>10. Kept'
        <4>1. mem' = [f \in Frames |-> [o \in 0 .. PAGESIZE - 1 |-> mem'[f][o]]]
          BY <3>9
        <4>2. ASSUME NEW f \in Frames, NEW o \in 0 .. PAGESIZE - 1,
                     <<f, o>> \notin DstArea
              PROVE  mem'[f][o] = <<f, o>>
          <5>1. ~ (f = F /\ o = O)
            BY <3>7, <4>2
          <5> QED
            BY <3>1, <3>9, <4>2, <5>1 DEF Kept
        <4> QED
          BY <1>2, <4>1, <4>2 DEF Kept
      <3>11. ASSUME NEW i \in 0 .. n
             PROVE  mem'[DstFrame(i)][DstOff(i)] = <<SrcFrame(i), SrcOff(i)>>
        <4>1. i \in 0 .. req.size - 1
          BY <1>3, <1>4
        <4>2. DstFrame(i) \in Frames /\ DstOff(i) \in 0 .. PAGESIZE - 1
          BY <1>1, <4>1, AreaTypes
        <4>3. CASE i = n
          BY <3>7, <3>9, <4>3 DEF F, O, V
        <4>4. CASE i # n
          <5>1. i \in 0 .. n - 1
            BY <1>4, <4>4
          <5>2. DstOff(i) = OffOf(req.dstaddr) + i /\ DstOff(n) = OffOf(req.dstaddr) + n
            BY <1>1, <1>4, <2>7, <4>1, OneFrame
          <5>3. DstOff(i) # O
            BY <1>3, <1>4, <4>4, <5>2 DEF O
          <5>4. mem'[DstFrame(i)][DstOff(i)] = mem[DstFrame(i)][DstOff(i)]
            BY <3>9, <4>2, <5>3
          <5> QED
            BY <3>1, <5>1, <5>4 DEF There
        <4> QED
          BY <4>3, <4>4
      <3>12. cp'.n - 1 = n
        BY <1>4, <2>2
      <3> QED
        BY <1>2, <3>10, <3>11, <3>12 DEF There
    <2>8. MemInv'
      BY <1>1, <1>2, <2>2, <2>7 DEF MemInv
    <2> QED
      BY <1>2, <2>6, <2>8 DEF IInv
  <1> QED
    BY <1>5, <1>6

(* The inductive invariant is kept by every step.                           *)
LEMMA InvStep == IInv /\ [Next]_vars => IInv'
  <1>1. IInv /\ UNCHANGED vars => IInv'
    <2> SUFFICES ASSUME IInv, UNCHANGED vars PROVE IInv'
      OBVIOUS
    <2>1. UNCHANGED <<req, upar, mem, win, cp, pc, rc>>
      BY DEF vars
    <2>2. /\ CallInv' = CallInv /\ Disjoint' = Disjoint /\ NoCross' = NoCross
          /\ Kept' = Kept /\ (\A n : There(n)' = There(n))
          /\ (\A a : Within(a)' = Within(a))
          /\ \A i : SrcFrame(i)' = SrcFrame(i) /\ DstFrame(i)' = DstFrame(i)
      BY <2>1, Frozen, MemFrozen
    <2>3. CallersMap' = CallersMap /\ LoopInv' = LoopInv
      BY <2>1, <2>2 DEF CallersMap, LoopInv
    <2> QED
      BY <2>1, <2>2, <2>3 DEF IInv, PathInv, MemInv
  <1> QED
    BY <1>1, CallStep, CheckStep, CopyByteStep, RestoreStep DEF Next

(* IInv holds in every state of every behaviour.                            *)
THEOREM InductiveInvariant == Spec => []IInv
  BY InvInit, InvStep, PTL DEF Spec

(* A copy between disjoint areas that ends well has copied exactly the      *)
(* source, whatever the page size, and also when memcpy had already done    *)
(* the work before the windows were opened.                                 *)
THEOREM CopiesExactly == Spec => []CopyExact
  <1>1. IInv => CopyExact
    <2> SUFFICES ASSUME IInv, pc = "done", rc = "EOK", Disjoint PROVE Copied
      BY DEF CopyExact, Disjoint, SrcArea, DstArea
    <2>1. Kept /\ There(req.size)
      BY DEF IInv, MemInv
    <2> QED
      BY <2>1 DEF Kept, There, Copied, DstArea, SrcFrame, SrcOff, DstFrame, DstOff
  <1> QED
    BY <1>1, InductiveInvariant, PTL

(* However the service returns, the kernel map is the caller's again, and a *)
(* refusal has left memory alone.                                           *)
THEOREM RestoresTheMap == Spec => []MapRestored
  <1>1. IInv => MapRestored
    BY DEF IInv, PathInv, CallersMap, MapRestored
  <1> QED
    BY <1>1, InductiveInvariant, PTL

(* The service returns with success if no area crosses a page, and stops    *)
(* the machine only if one does: there is no third outcome for a nonempty   *)
(* copy that was granted.                                                   *)
THEOREM HaltsOnCrossing == Spec => []HaltsOnlyCrossing
  <1>1. IInv => HaltsOnlyCrossing
    <2> SUFFICES ASSUME IInv PROVE HaltsOnlyCrossing
      OBVIOUS
    <2>1. CallInv /\ PathInv
      BY DEF IInv
    <2>2. req.size \in Nat /\ req.srcaddr \in Bytes /\ req.dstaddr \in Bytes
      BY <2>1, RequestTypes
    <2>3. req.size > 0 => /\ Crosses(req.srcaddr) <=> ~Within(req.srcaddr)
                          /\ Crosses(req.dstaddr) <=> ~Within(req.dstaddr)
      BY <2>2, CrossesIffNotWithin
    <2> QED
      BY <2>1, <2>3 DEF PathInv, NoCross, HaltsOnlyCrossing
  <1> QED
    BY <1>1, InductiveInvariant, PTL

=============================================================================
