-------------------------- MODULE TaskCreateProofs ---------------------------
(***************************************************************************)
(* Proofs about TaskCreate with one creator, for any table sizes, any      *)
(* sizes of pages, stacks and buffers, and any free area: memory is handed *)
(* out once and none is lost, a task is made ready with all its pages, a   *)
(* PID names one task, and a refused task owns nothing.  (With two         *)
(* creators none of this holds: run TwoCreators.)                          *)
(*                                                                         *)
(* The inductive invariant has one part per table.  Memory: the chunks lie *)
(* side by side between FreeAddr and the start of the free entry, which is *)
(* the only entry without owner, whatever the links say.  Links: once a    *)
(* chunk has been given out the chain ends in a cycle, so a scan that      *)
(* finds nothing does not end.  PIDs: every PID given out is below the     *)
(* counter of its class.  Tasks: what the creator still has to ask for     *)
(* and what it has mapped together make up the task.                       *)
(***************************************************************************)
EXTENDS TaskCreate, SequenceTheorems, NaturalsInduction, WellFoundedInduction,
        TLAPS

(* The theorems are about one creator.                                      *)
OneCreator == \E c : Creators = {c}

Services == {"none", "creprc", "loadprc"}

(* The call frame with these fields.                                        *)
Frame(l, svc, ty, p, s, todo, cur, new) ==
    [at |-> l, svc |-> svc, type |-> ty, pid |-> p, slot |-> s, todo |-> todo,
     cur |-> cur, new |-> new]

Frames == [at : Labels, svc : Services, type : TaskType, pid : Pids, slot : Slots,
           todo : Seq(Request), cur : {NONE} \cup Entries, new : {NONE} \cup Entries]

TypeInv ==
    /\ topspid \in 1 .. maxspid
    /\ topupid \in 0 .. maxupid
    /\ topupid # 0 => topupid >= minupid
    /\ tct \in [Slots -> Task]
    /\ mmcbt \in [Entries -> MMCB]
    /\ ready \subseteq Slots
    /\ frame \in [Creators -> Frames]

(* The creator is in muxx_mem_getblock or between two calls of it; has a    *)
(* slot; has found the free entry.                                          *)
Asking   == {"scan", "find", "carve", "advance", "own", "map"}
Building == Asking \cup {"copy", "enqueue"}
Found    == Asking \ {"scan"}

-----------------------------------------------------------------------------
(* The PIDs.                                                                *)
Given(p) == p \in 1 .. topspid \/ p \in minupid + 1 .. topupid

PidInv ==
    /\ tct[0].pid = 1
    /\ \A s \in Slots : tct[s].pid = 0 \/ Given(tct[s].pid)
    /\ PidsUnique

FramePid(f) ==
    /\ f.at = "bump" /\ SystemPid(f.type) =>
          f.pid = topspid + 1 /\ f.pid <= maxspid
    /\ f.at = "bump" /\ ~SystemPid(f.type) =>
          f.pid = topupid + 1 /\ f.pid <= maxupid /\ topupid # 0
    /\ f.at \in {"slot", "store"} =>
          Given(f.pid) /\ \A s \in Slots : tct[s].pid # f.pid
    /\ f.at = "store" => f.slot # 0 /\ tct[f.slot].pid = 0
    /\ f.at \in Building => f.slot # 0 /\ tct[f.slot].pid = f.pid /\ f.pid # 0

-----------------------------------------------------------------------------
(* The memory.                                                              *)
Top(e) == mmcbt[e].addr + mmcbt[e].size
End == FreeAddr + FreeSize

Covered(a) ==
    \A x \in FreeAddr .. a - 1 : \E e \in TaskEntries : x \in Blocks(e)

MemInv ==
    /\ \A e \in Entries : mmcbt[e].owner = 0 <=> e = Free
    /\ \A e \in 0 .. 5 : mmcbt[e].owner # NONE
    /\ \A e \in 0 .. 3 : Top(e) <= FreeAddr
    /\ FreeAddr <= mmcbt[Free].addr
    /\ \A e \in TaskEntries :
          FreeAddr <= mmcbt[e].addr /\ Top(e) <= mmcbt[Free].addr
    /\ \A e, d \in TaskEntries :
          e # d => Top(e) <= mmcbt[d].addr \/ Top(d) <= mmcbt[e].addr

FrameMem(f) ==
    /\ f.at \in Found => f.cur = Free
    /\ f.at \in {"find", "carve"} => Head(f.todo).n <= mmcbt[Free].size
    /\ f.at \in {"carve", "advance", "own"} =>
          f.new \in Entries /\ f.new > 5 /\ mmcbt[f.new].owner = NONE
    /\ f.at = "advance" =>
          /\ Top(Free) + Head(f.todo).n = End
          /\ mmcbt[f.new].addr = mmcbt[Free].addr
          /\ mmcbt[f.new].size = Head(f.todo).n
    /\ f.at = "own" =>
          /\ mmcbt[f.new].size = Head(f.todo).n
          /\ FreeAddr <= mmcbt[f.new].addr
          /\ Top(f.new) = mmcbt[Free].addr
          /\ \A e \in TaskEntries : Top(e) <= mmcbt[f.new].addr
          /\ Covered(mmcbt[f.new].addr)
    /\ f.at # "advance" => Top(Free) = End
    /\ f.at # "own" => Covered(mmcbt[Free].addr)

(* The links: from the first chunk on, the chain runs into an entry that    *)
(* is its own successor.                                                    *)
LinkInv ==
    /\ \A e \in 0 .. 3 : mmcbt[e].next = e + 1
    /\ TaskEntries # {} =>
          /\ mmcbt[Free].next \in TaskEntries
          /\ mmcbt[mmcbt[Free].next].next = mmcbt[Free].next

-----------------------------------------------------------------------------
(* The tasks.                                                               *)
Els(s) == {s[i] : i \in 1 .. Len(s)}

Stack  == [n |-> StackSize, page |-> 6, map |-> 6, off |-> StackSize]
Buffer == [n |-> BufSize, page |-> 5, map |-> 4, off |-> 0]

(* The requests for a task of type ty, and those whose mapping must stand   *)
(* in the end: a driver's page 4 gives way to its buffer.                   *)
Wanted(ty) ==
    {Page(3), Stack}
        \cup (IF ty.size \in {"MED", "BIG"} THEN {Page(4)} ELSE {})
        \cup (IF ty.size = "BIG" THEN {Page(5)} ELSE {})
        \cup (IF ty.kind = "DRV" THEN {Buffer} ELSE {})

Needed(ty) == IF ty.kind = "DRV" THEN Wanted(ty) \ {Page(4)} ELSE Wanted(ty)

(* Request r of the task in slot s has been met.                            *)
Met(s, r) ==
    \E e \in TaskEntries : /\ mmcbt[e].owner = tct[s].pid
                           /\ mmcbt[e].par = r.page
                           /\ mmcbt[e].size = r.n
                           /\ mmcbt[e].addr = tct[s].par[r.map] + r.off

ReadySound ==
    \A s \in ready :
        /\ s # 0 /\ tct[s].pid # 0
        /\ tct[s].file # "wanted"
        /\ \A r \in Needed(tct[s].type) : Met(s, r)

(* Every chunk belongs to a ready task or to the one being created.         *)
OwnersKnown(f) ==
    \A e \in TaskEntries : \E s \in Slots :
        /\ s # 0 /\ mmcbt[e].owner = tct[s].pid
        /\ s \in ready \/ (f.at \in Building /\ s = f.slot)

FrameTask(f) ==
    /\ f.at \in Building =>
          /\ f.slot \notin ready
          /\ tct[f.slot].type = f.type
          /\ tct[f.slot].file = "wanted" => f.svc = "loadprc" /\ f.at # "enqueue"
          /\ Els(f.todo) \subseteq Wanted(f.type)
          /\ \A r \in Needed(f.type) : r \in Els(f.todo) \/ Met(f.slot, r)
    /\ f.at \in Asking =>
          /\ f.todo # <<>>
          /\ f.type.kind = "DRV" => f.todo[Len(f.todo)] = Buffer
    /\ f.at \in {"copy", "enqueue"} => f.todo = <<>>
    /\ f.at = "map" =>
          /\ f.new \in TaskEntries
          /\ mmcbt[f.new].owner = f.pid
          /\ mmcbt[f.new].par = Head(f.todo).page
          /\ mmcbt[f.new].size = Head(f.todo).n
    /\ OwnersKnown(f)

IInv ==
    /\ TypeInv
    /\ PidInv /\ MemInv /\ LinkInv /\ ReadySound
    /\ \A c \in Creators :
          FramePid(frame[c]) /\ FrameMem(frame[c]) /\ FrameTask(frame[c])

-----------------------------------------------------------------------------
(* Lemmas about the operators.                                              *)

(* A nonempty set of naturals has a smallest element.                       *)
LEMMA Smallest ==
    ASSUME NEW T \in SUBSET Nat, T # {}
    PROVE  \E i \in T : \A j \in T : i <= j
  <1>1. PICK u \in T : \A v \in T : ~ (<<v, u>> \in OpToRel(<, Nat))
    BY NatLessThanWellFounded, WFMin
  <1>2. \A v \in T : ~ (v < u)
    BY <1>1 DEF OpToRel
  <1> QED
    BY <1>2

(* What CHOOSE finds in the searches of FindSlot and findFreeMMCB.          *)
LEMMA SmallestChosen ==
    ASSUME NEW T \in SUBSET Nat, T # {}
    PROVE  /\ (CHOOSE i \in T : \A j \in T : i <= j) \in T
           /\ \A j \in T : (CHOOSE i \in T : \A k \in T : i <= k) <= j
  <1>1. \E i \in T : \A j \in T : i <= j
    BY Smallest
  <1> QED
    BY <1>1, Zenon

(* A number below m is its own remainder, and one that has passed m once    *)
(* loses m: what the 16-bit sums of Carve and Advance come to.              *)
LEMMA Remainder ==
    ASSUME NEW m \in Nat \ {0}, NEW a \in 0 .. m - 1
    PROVE  a % m = a /\ (a + m) % m = a
  <1>1. a % m = a
    OBVIOUS
  <1>2. (a + m) % m = a
    <2> DEFINE k == (a + m) \div m
               o == (a + m) % m
    <2>1. a + m = k * m + o /\ o \in 0 .. m - 1 /\ k \in Int
      OBVIOUS
    <2> HIDE DEF k, o
    <2>2. m * (k - 1) = a - o
      BY <2>1
    <2>3. ~ (k - 1 >= 1)
      <3> SUFFICES ASSUME k - 1 >= 1 PROVE FALSE
        OBVIOUS
      <3>1. m * (k - 1) >= m
        BY <2>1
      <3> QED
        BY <2>1, <2>2, <3>1
    <2>4. ~ (k - 1 <= -1)
      <3> SUFFICES ASSUME k - 1 <= -1 PROVE FALSE
        OBVIOUS
      <3>1. m * (k - 1) <= -m
        BY <2>1
      <3> QED
        BY <2>1, <2>2, <3>1
    <2>5. k - 1 = 0
      BY <2>1, <2>3, <2>4
    <2> QED
      BY <2>1, <2>2, <2>5 DEF o
  <1> QED
    BY <1>1, <1>2

(* The elements of a sequence with one more in front, or two sequences.     *)
LEMMA ElsOf ==
    ASSUME NEW S, NEW s \in Seq(S), NEW t \in Seq(S)
    PROVE  /\ s \o t \in Seq(S)
           /\ Len(s \o t) = Len(s) + Len(t)
           /\ Els(s \o t) = Els(s) \cup Els(t)
           /\ t # <<>> => (s \o t)[Len(s \o t)] = t[Len(t)]
           /\ t # <<>> => s \o t # <<>>
  <1>1. /\ s \o t \in Seq(S)
        /\ Len(s \o t) = Len(s) + Len(t)
        /\ \A i \in 1 .. Len(s) + Len(t) :
              (s \o t)[i] = IF i <= Len(s) THEN s[i] ELSE t[i - Len(s)]
    BY ConcatProperties
  <1>2. Len(s) \in Nat /\ Len(t) \in Nat
    BY LenProperties
  <1>3. ASSUME NEW x \in Els(s \o t) PROVE x \in Els(s) \cup Els(t)
    <2>1. PICK i \in 1 .. Len(s) + Len(t) : x = (s \o t)[i]
      BY <1>1, <1>3 DEF Els
    <2>2. CASE i <= Len(s)
      <3>1. i \in 1 .. Len(s) /\ x = s[i]
        BY <1>1, <1>2, <2>1, <2>2
      <3> QED
        BY <3>1 DEF Els
    <2>3. CASE ~ (i <= Len(s))
      <3>1. i - Len(s) \in 1 .. Len(t) /\ x = t[i - Len(s)]
        BY <1>1, <1>2, <2>1, <2>3
      <3> QED
        BY <3>1 DEF Els
    <2> QED
      BY <2>2, <2>3
  <1>4. ASSUME NEW x \in Els(s) PROVE x \in Els(s \o t)
    <2>1. PICK i \in 1 .. Len(s) : x = s[i]
      BY <1>4 DEF Els
    <2>2. i \in 1 .. Len(s \o t) /\ x = (s \o t)[i]
      BY <1>1, <1>2, <2>1
    <2> QED
      BY <2>2 DEF Els
  <1>5. ASSUME NEW x \in Els(t) PROVE x \in Els(s \o t)
    <2>1. PICK i \in 1 .. Len(t) : x = t[i]
      BY <1>5 DEF Els
    <2>2. i + Len(s) \in 1 .. Len(s) + Len(t) /\ ~ (i + Len(s) <= Len(s))
          /\ i + Len(s) - Len(s) = i
      BY <1>2
    <2>3. i + Len(s) \in 1 .. Len(s \o t) /\ x = (s \o t)[i + Len(s)]
      BY <1>1, <2>1, <2>2
    <2> QED
      BY <2>3 DEF Els
  <1>6. Els(s \o t) = Els(s) \cup Els(t)
    BY <1>3, <1>4, <1>5
  <1>7. ASSUME t # <<>>
        PROVE  (s \o t)[Len(s \o t)] = t[Len(t)] /\ s \o t # <<>>
    <2>1. Len(t) > 0
      BY <1>2, <1>7, EmptySeq
    <2>2. Len(s) + Len(t) \in 1 .. Len(s) + Len(t) /\ ~ (Len(s) + Len(t) <= Len(s))
          /\ Len(s) + Len(t) - Len(s) = Len(t)
      BY <1>2, <2>1
    <2>3. (s \o t)[Len(s) + Len(t)] = t[Len(t)]
      BY <1>1, <2>2
    <2>4. Len(s \o t) # 0
      BY <1>1, <1>2, <2>1
    <2> QED
      BY <1>1, <2>3, <2>4, EmptySeq
  <1> QED
    BY <1>1, <1>6, <1>7

(* The elements of <<>> and of a sequence of one.                           *)
LEMMA ElsSmall ==
    /\ Els(<<>>) = {}
    /\ \A x : Els(<<x>>) = {x} /\ Len(<<x>>) = 1 /\ <<x>>[1] = x /\ <<x>> # <<>>
  BY DEF Els

(* A nonempty sequence is its head and its tail, and the tail ends as it    *)
(* does.                                                                    *)
LEMMA ElsTail ==
    ASSUME NEW S, NEW s \in Seq(S), s # <<>>
    PROVE  /\ Tail(s) \in Seq(S)
           /\ Head(s) \in S /\ Head(s) \in Els(s)
           /\ Els(s) = {Head(s)} \cup Els(Tail(s))
           /\ Tail(s) = <<>> => s[Len(s)] = Head(s)
           /\ Tail(s) # <<>> => Tail(s)[Len(Tail(s))] = s[Len(s)]
  <1>1. /\ Head(s) \in S /\ Tail(s) \in Seq(S) /\ Len(Tail(s)) = Len(s) - 1
        /\ \A i \in 1 .. Len(Tail(s)) : Tail(s)[i] = s[i + 1]
        /\ Head(s) = s[1]
    BY HeadTailProperties
  <1>2. Len(s) \in Nat /\ Len(s) > 0
    BY LenProperties, EmptySeq
  <1>3. ASSUME NEW x \in Els(s) PROVE x \in {Head(s)} \cup Els(Tail(s))
    <2>1. PICK i \in 1 .. Len(s) : x = s[i]
      BY <1>3 DEF Els
    <2>2. CASE i = 1
      BY <1>1, <2>1, <2>2
    <2>3. CASE i # 1
      <3>1. i - 1 \in 1 .. Len(Tail(s)) /\ i - 1 + 1 = i
        BY <1>1, <1>2, <2>3
      <3>2. x = Tail(s)[i - 1]
        BY <1>1, <2>1, <3>1
      <3> QED
        BY <3>1, <3>2 DEF Els
    <2> QED
      BY <2>2, <2>3
  <1>4. ASSUME NEW x \in Els(Tail(s)) PROVE x \in Els(s)
    <2>1. PICK i \in 1 .. Len(Tail(s)) : x = Tail(s)[i]
      BY <1>4 DEF Els
    <2>2. i + 1 \in 1 .. Len(s) /\ x = s[i + 1]
      BY <1>1, <1>2, <2>1
    <2> QED
      BY <2>2 DEF Els
  <1>5. Head(s) \in Els(s)
    BY <1>1, <1>2 DEF Els
  <1>6. Tail(s) = <<>> => s[Len(s)] = Head(s)
    <2> SUFFICES ASSUME Tail(s) = <<>> PROVE Len(s) = 1
      BY <1>1
    <2>1. Len(<<>>) = 0
      OBVIOUS
    <2>2. Len(Tail(s)) = 0
      BY <2>1
    <2> QED
      BY <1>1, <1>2, <2>2
  <1>7. Tail(s) # <<>> => Tail(s)[Len(Tail(s))] = s[Len(s)]
    <2> SUFFICES ASSUME Tail(s) # <<>> PROVE Tail(s)[Len(Tail(s))] = s[Len(s)]
      OBVIOUS
    <2>1. Len(Tail(s)) # 0
      BY <1>1, EmptySeq
    <2>2. Len(Tail(s)) \in 1 .. Len(Tail(s)) /\ Len(Tail(s)) + 1 = Len(s)
      BY <1>1, <1>2, <2>1
    <2> QED
      BY <1>1, <2>2
  <1> QED
    BY <1>1, <1>3, <1>4, <1>5, <1>6, <1>7

(* The sizes and the pages a request may have.                              *)
LEMMA RequestTypes ==
    /\ Page(3) \in Request /\ Page(4) \in Request /\ Page(5) \in Request
    /\ Stack \in Request /\ Buffer \in Request
  BY DEF Page, Stack, Buffer, Request, Pages

(* muxx_setup_taskmem asks for what the type wants, for a driver's buffer   *)
(* last.                                                                    *)
LEMMA RequestsOf ==
    ASSUME NEW ty \in TaskType
    PROVE  /\ Requests(ty) \in Seq(Request)
           /\ Requests(ty) # <<>>
           /\ Els(Requests(ty)) = Wanted(ty)
           /\ ty.kind = "DRV" => Requests(ty)[Len(Requests(ty))] = Buffer
  <1> DEFINE a == <<Page(3)>>
             b == IF ty.size \in {"MED", "BIG"} THEN <<Page(4)>> ELSE <<>>
             d == IF ty.size = "BIG" THEN <<Page(5)>> ELSE <<>>
             e == <<Stack>>
             g == IF ty.kind = "DRV" THEN <<Buffer>> ELSE <<>>
  <1>1. /\ a \in Seq(Request) /\ b \in Seq(Request) /\ d \in Seq(Request)
        /\ e \in Seq(Request) /\ g \in Seq(Request)
    BY RequestTypes
  <1>2. /\ Els(a) = {Page(3)} /\ Els(e) = {Stack} /\ e # <<>>
        /\ Els(b) = IF ty.size \in {"MED", "BIG"} THEN {Page(4)} ELSE {}
        /\ Els(d) = IF ty.size = "BIG" THEN {Page(5)} ELSE {}
        /\ Els(g) = IF ty.kind = "DRV" THEN {Buffer} ELSE {}
    BY ElsSmall, Zenon
  <1>3. ty.kind = "DRV" => g # <<>> /\ g[Len(g)] = Buffer
    BY ElsSmall
  <1>4. ty.kind # "DRV" => g = <<>>
    OBVIOUS
  <1> DEFINE j == a \o b
             h == j \o d
             k == h \o e
  <1>5. Requests(ty) = k \o g
    BY DEF Requests, Stack, Buffer
  <1> HIDE DEF a, b, d, e, g, j, h, k
  <1>6. j \in Seq(Request) /\ Els(j) = Els(a) \cup Els(b)
    BY <1>1, ElsOf DEF j
  <1>7. h \in Seq(Request) /\ Els(h) = Els(j) \cup Els(d)
    BY <1>1, <1>6, ElsOf DEF h
  <1>8. k \in Seq(Request) /\ Els(k) = Els(h) \cup Els(e) /\ k # <<>>
    BY <1>1, <1>2, <1>7, ElsOf DEF k
  <1>9. Els(k) = Els(a) \cup Els(b) \cup Els(d) \cup Els(e)
    BY <1>6, <1>7, <1>8
  <1>10. /\ k \o g \in Seq(Request) /\ Els(k \o g) = Els(k) \cup Els(g)
         /\ g # <<>> => (k \o g)[Len(k \o g)] = g[Len(g)] /\ k \o g # <<>>
         /\ Len(k \o g) = Len(k) + Len(g)
    BY <1>1, <1>8, ElsOf
  <1>11. k \o g # <<>>
    <2>1. Len(k) \in Nat \ {0} /\ Len(g) \in Nat
      BY <1>1, <1>8, EmptySeq, LenProperties
    <2>2. Len(k \o g) # 0
      BY <1>10, <2>1
    <2>3. Len(<<>>) = 0
      OBVIOUS
    <2> QED
      BY <2>2, <2>3
  <1>12. Els(k \o g) = Wanted(ty)
    BY <1>2, <1>9, <1>10, Zenon DEF Wanted
  <1> QED
    BY <1>3, <1>5, <1>10, <1>11, <1>12

(* The constants, and the tables' entries with the types of their fields.   *)
LEMMA Constants ==
    /\ MAX_TASKS \in Nat /\ MAX_TASKS > 0 /\ 0 \in Slots /\ Slots \subseteq Nat
    /\ MEM_NMCBS \in Nat /\ MEM_NMCBS > 6
    /\ PageSize \in Nat /\ StackSize \in Nat /\ BufSize \in Nat
    /\ FreeAddr \in Nat /\ FreeSize \in Nat /\ IOAddr \in Nat /\ IOSize \in Nat
    /\ WORD \in Nat /\ WORD > 0
    /\ 3 * PageSize + StackSize <= FreeAddr
    /\ FreeAddr + FreeSize < WORD /\ IOAddr + IOSize < WORD
    /\ minspid \in Nat /\ maxspid \in Nat /\ minupid \in Nat /\ maxupid \in Nat
    /\ 1 <= minspid /\ minspid <= maxspid /\ maxspid < minupid /\ minupid <= maxupid
    /\ NONE = -1 /\ Free = 4
  BY TaskCreateAssumption DEF Slots, NONE, Free

LEMMA EntryTypes ==
    ASSUME TypeInv
    PROVE  \A e \in Entries :
              /\ mmcbt[e] \in MMCB
              /\ mmcbt[e].addr \in Nat /\ mmcbt[e].addr < WORD
              /\ mmcbt[e].size \in Nat /\ mmcbt[e].size < WORD
              /\ mmcbt[e].owner \in {NONE} \cup Pids
              /\ mmcbt[e].next \in {NONE} \cup Entries
              /\ mmcbt[e].par \in 0 .. 7
  BY Constants DEF TypeInv, MMCB

LEMMA TaskTypes ==
    ASSUME TypeInv
    PROVE  \A s \in Slots :
              /\ tct[s] \in Task
              /\ tct[s].pid \in Nat /\ tct[s].pid \in Pids
              /\ tct[s].type \in TaskType
              /\ tct[s].par \in [Pages -> Int]
              /\ tct[s].file \in {"none", "wanted", "there"}
  BY Constants DEF TypeInv, Task, Pids

LEMMA FrameTypes ==
    ASSUME NEW c \in Creators, TypeInv
    PROVE  /\ frame[c] \in Frames
           /\ frame[c].at \in Labels /\ frame[c].svc \in Services
           /\ frame[c].type \in TaskType /\ frame[c].pid \in Pids
           /\ frame[c].pid \in Nat
           /\ frame[c].slot \in Slots /\ frame[c].todo \in Seq(Request)
           /\ frame[c].cur \in {NONE} \cup Entries
           /\ frame[c].new \in {NONE} \cup Entries
           /\ frame[c] = Frame(frame[c].at, frame[c].svc, frame[c].type, frame[c].pid,
                               frame[c].slot, frame[c].todo, frame[c].cur, frame[c].new)
  <1>1. frame[c] \in Frames
    BY DEF TypeInv
  <1> QED
    BY <1>1, Constants DEF Frames, Frame, Pids

(* The request being served.                                                *)
LEMMA RequestFields ==
    ASSUME NEW r \in Request
    PROVE  /\ r.n \in Nat /\ r.page \in Pages /\ r.map \in Pages
           /\ r.off \in Nat /\ r.page \in 0 .. 7
  BY Constants DEF Request, Pages

-----------------------------------------------------------------------------
(* The steps, as what they leave in the creator's frame and in the tables.  *)
Moved(c, l, svc, ty, p, s, todo, cur, new) ==
    /\ frame' \in [Creators -> Frames]
    /\ frame'[c].at = l /\ frame'[c].svc = svc /\ frame'[c].type = ty
    /\ frame'[c].pid = p /\ frame'[c].slot = s /\ frame'[c].todo = todo
    /\ frame'[c].cur = cur /\ frame'[c].new = new

LEMMA Moves ==
    ASSUME NEW c, Creators = {c}, frame \in [Creators -> Frames],
           NEW l \in Labels, NEW svc \in Services, NEW ty \in TaskType, NEW p \in Pids,
           NEW s \in Slots, NEW todo \in Seq(Request),
           NEW cur \in {NONE} \cup Entries, NEW new \in {NONE} \cup Entries,
           frame' = [frame EXCEPT ![c] = Frame(l, svc, ty, p, s, todo, cur, new)]
    PROVE  Moved(c, l, svc, ty, p, s, todo, cur, new)
  <1>1. Frame(l, svc, ty, p, s, todo, cur, new) \in Frames
    BY DEF Frame, Frames
  <1>2. frame'[c] = Frame(l, svc, ty, p, s, todo, cur, new)
        /\ frame' \in [Creators -> Frames]
    BY <1>1
  <1>3. LET f == Frame(l, svc, ty, p, s, todo, cur, new)
        IN  /\ f.at = l /\ f.svc = svc /\ f.type = ty /\ f.pid = p /\ f.slot = s
            /\ f.todo = todo /\ f.cur = cur /\ f.new = new
    BY DEF Frame
  <1> QED
    BY <1>2, <1>3 DEF Moved

(* A step that only moves the program counter.                              *)
LEMMA GotoMoves ==
    ASSUME NEW c, Creators = {c}, TypeInv, NEW l \in Labels, Goto(c, l)
    PROVE  LET f == frame[c] IN
              Moved(c, l, f.svc, f.type, f.pid, f.slot, f.todo, f.cur, f.new)
  <1> DEFINE f == frame[c]
  <1>1. /\ f.svc \in Services /\ f.type \in TaskType /\ f.pid \in Pids
        /\ f.slot \in Slots /\ f.todo \in Seq(Request)
        /\ f.cur \in {NONE} \cup Entries /\ f.new \in {NONE} \cup Entries
        /\ f = Frame(f.at, f.svc, f.type, f.pid, f.slot, f.todo, f.cur, f.new)
        /\ frame \in [Creators -> Frames]
    BY FrameTypes DEF TypeInv
  <1>2. frame' = [frame EXCEPT ![c] = [f EXCEPT !.at = l]]
    BY DEF Goto
  <1>3. [f EXCEPT !.at = l]
            = Frame(l, f.svc, f.type, f.pid, f.slot, f.todo, f.cur, f.new)
    BY <1>1 DEF Frame
  <1>4. frame' = [frame EXCEPT ![c] =
                    Frame(l, f.svc, f.type, f.pid, f.slot, f.todo, f.cur, f.new)]
    BY <1>2, <1>3
  <1> HIDE DEF f
  <1>5. Moved(c, l, f.svc, f.type, f.pid, f.slot, f.todo, f.cur, f.new)
    BY <1>1, <1>4, Moves
  <1> QED
    BY <1>5 DEF f

(* A call that ends: the frame is idle again.                               *)
LEMMA IdleMoves ==
    ASSUME NEW c, Creators = {c}, TypeInv, frame' = [frame EXCEPT ![c] = Idle]
    PROVE  Moved(c, "idle", "none", NoType, 0, 0, <<>>, NONE, NONE)
  <1>1. /\ "idle" \in Labels /\ "none" \in Services /\ NoType \in TaskType
        /\ 0 \in Pids /\ 0 \in Slots /\ <<>> \in Seq(Request)
        /\ NONE \in {NONE} \cup Entries
    BY Constants DEF Labels, Services, NoType, TaskType, Pids
  <1>2. Idle = Frame("idle", "none", NoType, 0, 0, <<>>, NONE, NONE)
    BY DEF Idle, Frame
  <1>3. frame \in [Creators -> Frames]
    BY DEF TypeInv
  <1> QED
    BY <1>1, <1>2, <1>3, Moves

LEMMA CallStep ==
    ASSUME NEW c, Creators = {c}, TypeInv, NEW svc \in {"creprc", "loadprc"}, Call(c, svc)
    PROVE  /\ \E ty \in TaskType : Moved(c, "pid", svc, ty, 0, 0, <<>>, NONE, NONE)
           /\ frame[c].at = "idle"
           /\ UNCHANGED <<topspid, topupid, tct, mmcbt, ready, halted>>
  <1>1. PICK ty \in Types :
            frame' = [frame EXCEPT ![c] = [Idle EXCEPT !.at = "pid", !.svc = svc, !.type = ty]]
    BY Zenon DEF Call
  <1>2. ty \in TaskType
    BY TaskCreateAssumption
  <1>3. /\ "pid" \in Labels /\ svc \in Services
        /\ 0 \in Pids /\ 0 \in Slots /\ <<>> \in Seq(Request)
        /\ NONE \in {NONE} \cup Entries
    BY Constants DEF Labels, Services, Pids
  <1>4. [Idle EXCEPT !.at = "pid", !.svc = svc, !.type = ty]
            = Frame("pid", svc, ty, 0, 0, <<>>, NONE, NONE)
    <2>1. Idle = Frame("idle", "none", NoType, 0, 0, <<>>, NONE, NONE)
      BY DEF Idle, Frame
    <2> DEFINE g == [Idle EXCEPT !.at = "pid"]
               h == [g EXCEPT !.svc = svc]
    <2>2. g = Frame("pid", "none", NoType, 0, 0, <<>>, NONE, NONE)
      BY <2>1 DEF Frame
    <2> HIDE DEF g
    <2>3. h = Frame("pid", svc, NoType, 0, 0, <<>>, NONE, NONE)
      BY <2>2 DEF Frame
    <2> HIDE DEF h
    <2>4. [h EXCEPT !.type = ty] = Frame("pid", svc, ty, 0, 0, <<>>, NONE, NONE)
      BY <2>3 DEF Frame
    <2> QED
      BY <2>4, Zenon DEF g, h
  <1>5. frame \in [Creators -> Frames]
    BY DEF TypeInv
  <1>6. Moved(c, "pid", svc, ty, 0, 0, <<>>, NONE, NONE)
    BY <1>1, <1>2, <1>3, <1>4, <1>5, Moves
  <1> QED
    BY <1>2, <1>6, Zenon DEF Call, At

(* muxx_taskinit takes the PID after the highest one.                       *)
LEMMA TakePidStep ==
    ASSUME NEW c, Creators = {c}, TypeInv, TakePid(c)
    PROVE  LET f   == frame[c]
               sys == SystemPid(f.type)
               top == IF sys THEN topspid ELSE First(topupid, minupid)
           IN  /\ f.at = "pid"
               /\ topspid' = topspid
               /\ topupid' = IF sys THEN topupid ELSE top
               /\ \/ UNCHANGED frame
                  \/ /\ top + 1 <= IF sys THEN maxspid ELSE maxupid
                     /\ Moved(c, "bump", f.svc, f.type, top + 1, f.slot, f.todo, f.cur, f.new)
               /\ UNCHANGED <<tct, mmcbt, ready>>
  <1> DEFINE f   == frame[c]
             sys == SystemPid(f.type)
             top == IF sys THEN First(topspid, minspid) ELSE First(topupid, minupid)
             max == IF sys THEN maxspid ELSE maxupid
  <1>1. /\ topspid' = IF sys THEN top ELSE topspid
        /\ topupid' = IF sys THEN topupid ELSE top
        /\ f.at = "pid"
        /\ UNCHANGED <<tct, mmcbt, ready>>
        /\ \/ top + 1 > max /\ UNCHANGED frame
           \/ ~ (top + 1 > max)
              /\ frame' = [frame EXCEPT ![c].at = "bump", ![c].pid = top + 1]
    BY DEF TakePid, At, panic
  <1>2. topspid \in Nat /\ topspid # 0 /\ topupid \in Nat
    BY Constants DEF TypeInv
  <1>3. First(topspid, minspid) = topspid
    BY <1>2 DEF First
  <1>4. /\ topspid' = topspid
        /\ top = IF sys THEN topspid ELSE First(topupid, minupid)
    BY <1>1, <1>3
  <1>5. top \in Nat
    BY <1>2, <1>4, Constants DEF First
  <1>6. ASSUME ~ (top + 1 > max),
               frame' = [frame EXCEPT ![c].at = "bump", ![c].pid = top + 1]
        PROVE  /\ top + 1 <= max
               /\ Moved(c, "bump", f.svc, f.type, top + 1, f.slot, f.todo, f.cur, f.new)
    <2>1. /\ f.svc \in Services /\ f.type \in TaskType
          /\ f.slot \in Slots /\ f.todo \in Seq(Request)
          /\ f.cur \in {NONE} \cup Entries /\ f.new \in {NONE} \cup Entries
          /\ f = Frame(f.at, f.svc, f.type, f.pid, f.slot, f.todo, f.cur, f.new)
          /\ frame \in [Creators -> Frames]
      BY FrameTypes DEF TypeInv
    <2>2. top + 1 <= max /\ top + 1 \in Pids
      BY <1>5, <1>6, Constants DEF Pids
    <2> HIDE DEF top
    <2>3. frame' = [frame EXCEPT ![c] = [f EXCEPT !.at = "bump", !.pid = top + 1]]
      BY <1>6, <2>1
    <2>4. [f EXCEPT !.at = "bump", !.pid = top + 1]
            = Frame("bump", f.svc, f.type, top + 1, f.slot, f.todo, f.cur, f.new)
      <3> DEFINE g == [f EXCEPT !.at = "bump"]
      <3>1. g = Frame("bump", f.svc, f.type, f.pid, f.slot, f.todo, f.cur, f.new)
        BY <2>1 DEF Frame
      <3> HIDE DEF g
      <3>2. [g EXCEPT !.pid = top + 1]
              = Frame("bump", f.svc, f.type, top + 1, f.slot, f.todo, f.cur, f.new)
        BY <3>1 DEF Frame
      <3> QED
        BY <3>2, Zenon DEF g
    <2>5. frame' = [frame EXCEPT ![c] =
                Frame("bump", f.svc, f.type, top + 1, f.slot, f.todo, f.cur, f.new)]
      BY <2>3, <2>4
    <2>6. "bump" \in Labels
      BY DEF Labels
    <2> HIDE DEF f
    <2>7. Moved(c, "bump", f.svc, f.type, top + 1, f.slot, f.todo, f.cur, f.new)
      BY <2>1, <2>2, <2>5, <2>6, Moves
    <2> QED
      BY <2>2, <2>7
  <1> HIDE DEF top
  <1> QED
    BY <1>1, <1>4, <1>6, Zenon

LEMMA BumpTopStep ==
    ASSUME NEW c, Creators = {c}, TypeInv, BumpTop(c)
    PROVE  LET f == frame[c] IN
           /\ f.at = "bump"
           /\ SystemPid(f.type) => topspid' = topspid + 1 /\ topupid' = topupid
           /\ ~ SystemPid(f.type) => topupid' = topupid + 1 /\ topspid' = topspid
           /\ Moved(c, "slot", f.svc, f.type, f.pid, f.slot, f.todo, f.cur, f.new)
           /\ UNCHANGED <<tct, mmcbt, ready, halted>>
  <1>1. "slot" \in Labels
    BY DEF Labels
  <1>2. Goto(c, "slot")
    BY DEF BumpTop
  <1>3. LET f == frame[c] IN
            Moved(c, "slot", f.svc, f.type, f.pid, f.slot, f.todo, f.cur, f.new)
    BY <1>1, <1>2, GotoMoves
  <1> QED
    BY <1>3, Zenon DEF BumpTop, At

(* muxx_taskinit finds a free slot other than slot 0.                       *)
LEMMA FindSlotStep ==
    ASSUME NEW c, Creators = {c}, TypeInv, FindSlot(c)
    PROVE  LET f == frame[c] IN
           /\ f.at = "slot"
           /\ \/ UNCHANGED frame
              \/ \E s \in Slots \ {0} :
                    /\ tct[s].pid = 0
                    /\ Moved(c, "store", f.svc, f.type, f.pid, s, f.todo, f.cur, f.new)
           /\ UNCHANGED <<topspid, topupid, tct, mmcbt, ready>>
  <1> DEFINE f == frame[c]
             open == {s \in Slots \ {0} : tct[s].pid = 0}
             best == CHOOSE s \in open : \A r \in open : s <= r
  <1>1. /\ f.at = "slot"
        /\ UNCHANGED <<topspid, topupid, tct, mmcbt, ready>>
        /\ \/ UNCHANGED frame
           \/ /\ open # {}
              /\ frame' = [frame EXCEPT ![c].at = "store", ![c].slot = best]
    BY Zenon DEF FindSlot, At, panic
  <1>2. ASSUME open # {},
               frame' = [frame EXCEPT ![c].at = "store", ![c].slot = best]
        PROVE  \E s \in Slots \ {0} :
                    /\ tct[s].pid = 0
                    /\ Moved(c, "store", f.svc, f.type, f.pid, s, f.todo, f.cur, f.new)
    <2>1. /\ f.svc \in Services /\ f.type \in TaskType /\ f.pid \in Pids
          /\ f.todo \in Seq(Request)
          /\ f.cur \in {NONE} \cup Entries /\ f.new \in {NONE} \cup Entries
          /\ f = Frame(f.at, f.svc, f.type, f.pid, f.slot, f.todo, f.cur, f.new)
          /\ frame \in [Creators -> Frames]
      BY FrameTypes DEF TypeInv
    <2>2. best \in open
      <3>1. open \in SUBSET Nat /\ open # {}
        BY <1>2, Constants
      <3> HIDE DEF open
      <3> QED
        BY <3>1, SmallestChosen
    <2>3. best \in Slots \ {0} /\ tct[best].pid = 0
      BY <2>2
    <2> HIDE DEF best
    <2>4. frame' = [frame EXCEPT ![c] = [f EXCEPT !.at = "store", !.slot = best]]
      BY <1>2, <2>1
    <2>5. [f EXCEPT !.at = "store", !.slot = best]
            = Frame("store", f.svc, f.type, f.pid, best, f.todo, f.cur, f.new)
      <3> DEFINE g == [f EXCEPT !.at = "store"]
      <3>1. g = Frame("store", f.svc, f.type, f.pid, f.slot, f.todo, f.cur, f.new)
        BY <2>1 DEF Frame
      <3> HIDE DEF g
      <3>2. [g EXCEPT !.slot = best]
              = Frame("store", f.svc, f.type, f.pid, best, f.todo, f.cur, f.new)
        BY <3>1 DEF Frame
      <3> QED
        BY <3>2, Zenon DEF g
    <2>6. frame' = [frame EXCEPT ![c] =
                Frame("store", f.svc, f.type, f.pid, best, f.todo, f.cur, f.new)]
      BY <2>4, <2>5
    <2>7. "store" \in Labels
      BY DEF Labels
    <2> HIDE DEF f
    <2>8. Moved(c, "store", f.svc, f.type, f.pid, best, f.todo, f.cur, f.new)
      BY <2>1, <2>3, <2>6, <2>7, Moves
    <2> QED
      BY <2>3, <2>8
  <1> HIDE DEF open, best
  <1> QED
    BY <1>1, <1>2, Zenon

(* The end of muxx_taskinit: the slot holds the task, and the requests of a *)
(* supported type are up.                                                   *)
LEMMA StoreTaskStep ==
    ASSUME NEW c, Creators = {c}, TypeInv, StoreTask(c)
    PROVE  LET f == frame[c] IN
           /\ f.at = "store"
           /\ tct' = [tct EXCEPT ![f.slot] = NewTask(f)]
           /\ \/ Moved(c, "idle", "none", NoType, 0, 0, <<>>, NONE, NONE)
              \/ Moved(c, "scan", f.svc, f.type, f.pid, f.slot, Requests(f.type),
                       f.cur, f.new)
           /\ UNCHANGED <<topspid, topupid, mmcbt, ready, halted>>
  <1> DEFINE f == frame[c]
             rs == Requests(f.type)
  <1>1. /\ f.at = "store"
        /\ tct' = [tct EXCEPT ![f.slot] = NewTask(f)]
        /\ UNCHANGED <<topspid, topupid, mmcbt, ready, halted>>
        /\ \/ frame' = [frame EXCEPT ![c] = Idle]
           \/ frame' = [frame EXCEPT ![c] = [f EXCEPT !.at = "scan", !.todo = rs]]
    BY DEF StoreTask, At
  <1>2. ASSUME frame' = [frame EXCEPT ![c] = [f EXCEPT !.at = "scan", !.todo = rs]]
        PROVE  Moved(c, "scan", f.svc, f.type, f.pid, f.slot, rs, f.cur, f.new)
    <2>1. /\ f.svc \in Services /\ f.type \in TaskType /\ f.pid \in Pids
          /\ f.slot \in Slots
          /\ f.cur \in {NONE} \cup Entries /\ f.new \in {NONE} \cup Entries
          /\ f = Frame(f.at, f.svc, f.type, f.pid, f.slot, f.todo, f.cur, f.new)
          /\ frame \in [Creators -> Frames]
      BY FrameTypes DEF TypeInv
    <2>2. rs \in Seq(Request)
      BY <2>1, RequestsOf
    <2> HIDE DEF rs
    <2>3. [f EXCEPT !.at = "scan", !.todo = rs]
            = Frame("scan", f.svc, f.type, f.pid, f.slot, rs, f.cur, f.new)
      <3> DEFINE g == [f EXCEPT !.at = "scan"]
      <3>1. g = Frame("scan", f.svc, f.type, f.pid, f.slot, f.todo, f.cur, f.new)
        BY <2>1 DEF Frame
      <3> HIDE DEF g
      <3>2. [g EXCEPT !.todo = rs]
              = Frame("scan", f.svc, f.type, f.pid, f.slot, rs, f.cur, f.new)
        BY <3>1 DEF Frame
      <3> QED
        BY <3>2, Zenon DEF g
    <2>4. frame' = [frame EXCEPT ![c] =
                Frame("scan", f.svc, f.type, f.pid, f.slot, rs, f.cur, f.new)]
      BY <1>2, <2>3
    <2>5. "scan" \in Labels
      BY DEF Labels
    <2> HIDE DEF f
    <2> QED
      BY <2>1, <2>2, <2>4, <2>5, Moves
  <1>3. ASSUME frame' = [frame EXCEPT ![c] = Idle]
        PROVE  Moved(c, "idle", "none", NoType, 0, 0, <<>>, NONE, NONE)
    BY <1>3, IdleMoves
  <1> QED
    BY <1>1, <1>2, <1>3, Zenon

-----------------------------------------------------------------------------
(* The scan.  What follows an entry in the chain, and one unfolding of the  *)
(* recursion that defines Chain.                                            *)
After(e) == IF e = NONE THEN NONE ELSE mmcbt[e].next

Unfold(g) == [n \in 0 .. MEM_NMCBS |-> IF n = 0 THEN 0 ELSE After(g[n - 1])]

(* The recursion has a solution: otherwise there is a least place up to     *)
(* which no function obeys it.                                              *)
LEMMA ChainUnfolds ==
    ASSUME TypeInv
    PROVE  Chain = Unfold(Chain)
  <1> DEFINE D == 0 .. MEM_NMCBS
             R == {NONE} \cup Entries
             Upto(g, m) == \A n \in D : n <= m => g[n] = IF n = 0 THEN 0 ELSE After(g[n - 1])
             T == {m \in Nat : ~ \E g \in [D -> R] : Upto(g, m)}
  <1>1. 0 \in R /\ \A e \in R : After(e) \in R
    BY EntryTypes, Constants DEF After, Entries
  <1>2. T = {}
    <2> SUFFICES ASSUME T # {} PROVE FALSE
      OBVIOUS
    <2>1. PICK m \in T : \A k \in T : m <= k
      <3>1. T \in SUBSET Nat
        OBVIOUS
      <3> HIDE DEF T
      <3> QED
        BY <3>1, Smallest
    <2>2. m \in Nat /\ ~ \E g \in [D -> R] : Upto(g, m)
      OBVIOUS
    <2>3. m # 0
      <3> SUFFICES ASSUME m = 0 PROVE FALSE
        OBVIOUS
      <3> DEFINE g == [n \in D |-> 0]
      <3>1. g \in [D -> R]
        BY <1>1
      <3>2. Upto(g, m)
        BY Constants
      <3> QED
        BY <2>2, <3>1, <3>2
    <2>4. PICK g \in [D -> R] : Upto(g, m - 1)
      <3>1. m - 1 \in Nat /\ ~ (m <= m - 1)
        BY <2>2, <2>3
      <3>2. m - 1 \notin T
        BY <2>1, <3>1
      <3> QED
        BY <3>1, <3>2
    <2>5. CASE m > MEM_NMCBS
      <3>1. Upto(g, m)
        BY <2>2, <2>4, <2>5, Constants
      <3> QED
        BY <2>2, <3>1
    <2>6. CASE ~ (m > MEM_NMCBS)
      <3>1. m \in D /\ m - 1 \in D
        BY <2>2, <2>3, <2>6, Constants
      <3> DEFINE v == After(g[m - 1])
                 h == [g EXCEPT ![m] = v]
      <3>2. v \in R
        BY <1>1, <3>1
      <3> HIDE DEF v
      <3>3. h \in [D -> R] /\ h[m] = v /\ \A n \in D : n # m => h[n] = g[n]
        BY <3>1, <3>2
      <3> HIDE DEF h
      <3>4. h[m - 1] = g[m - 1]
        BY <2>2, <3>1, <3>3
      <3>5. h[m] = After(h[m - 1])
        BY <3>3, <3>4 DEF v
      <3>6. ASSUME NEW n \in D, n <= m
            PROVE  h[n] = IF n = 0 THEN 0 ELSE After(h[n - 1])
        <4>1. CASE n = m
          BY <2>3, <3>5, <4>1
        <4>2. CASE n # m /\ n = 0
          <5>1. g[n] = 0
            BY <2>2, <2>3, <2>4, <4>2
          <5> QED
            BY <3>3, <4>2, <5>1
        <4>3. CASE n # m /\ n # 0
          <5>1. n <= m - 1 /\ n - 1 \in D /\ n - 1 # m
            BY <2>2, <3>6, <4>3, Constants
          <5>2. g[n] = After(g[n - 1])
            BY <2>4, <4>3, <5>1
          <5>3. h[n] = g[n] /\ h[n - 1] = g[n - 1]
            BY <3>3, <4>3, <5>1
          <5> QED
            BY <4>3, <5>2, <5>3
        <4> QED
          BY <4>1, <4>2, <4>3
      <3> QED
        BY <2>2, <3>3, <3>6
    <2> QED
      BY <2>5, <2>6
  <1>3. PICK g \in [D -> R] : Upto(g, MEM_NMCBS)
    BY <1>2, Constants
  <1>4. g = Unfold(g)
    <2>1. \A n \in D : g[n] = IF n = 0 THEN 0 ELSE After(g[n - 1])
      BY <1>3, Constants
    <2>2. g = [n \in D |-> g[n]]
      OBVIOUS
    <2> QED
      BY <2>1, <2>2, Zenon DEF Unfold
  <1>5. \E k : k = Unfold(k)
    BY <1>4
  <1> QED
    BY <1>5, Zenon DEF Chain, Unfold, After

(* A set that holds the first entry and is closed under the links holds all *)
(* that a scan visits.                                                      *)
LEMMA ChainWithin ==
    ASSUME TypeInv, NEW R, 0 \in R, \A e \in R : After(e) \in R
    PROVE  \A i \in 0 .. MEM_NMCBS : Chain[i] \in R
  <1> DEFINE D == 0 .. MEM_NMCBS
             T == {i \in D : Chain[i] \notin R}
  <1>1. \A n \in D : Chain[n] = IF n = 0 THEN 0 ELSE After(Chain[n - 1])
    <2>1. Chain = Unfold(Chain)
      BY ChainUnfolds
    <2>2. \A n \in D : Unfold(Chain)[n] = IF n = 0 THEN 0 ELSE After(Chain[n - 1])
      BY DEF Unfold
    <2> QED
      BY <2>1, <2>2, Zenon
  <1> SUFFICES ASSUME T # {} PROVE FALSE
    OBVIOUS
  <1>2. PICK m \in T : \A k \in T : m <= k
    <2>1. T \in SUBSET Nat
      BY Constants
    <2> HIDE DEF T
    <2> QED
      BY <2>1, Smallest
  <1>3. m \in D /\ Chain[m] \notin R
    OBVIOUS
  <1>4. m # 0
    BY <1>1, <1>3
  <1>5. m - 1 \in D /\ ~ (m <= m - 1)
    BY <1>3, <1>4, Constants
  <1>6. Chain[m - 1] \in R
    BY <1>2, <1>5
  <1>7. Chain[m] = After(Chain[m - 1])
    BY <1>1, <1>3, <1>4
  <1> QED
    BY <1>3, <1>6, <1>7

(* A scan visits entries, and once a chunk has been given out it never      *)
(* comes to the end of the chain.                                           *)
LEMMA ChainEntries ==
    ASSUME TypeInv, LinkInv
    PROVE  /\ \A i \in 0 .. MEM_NMCBS : Chain[i] \in {NONE} \cup Entries
           /\ TaskEntries # {} => \A i \in 0 .. MEM_NMCBS : Chain[i] # NONE
  <1>1. \A i \in 0 .. MEM_NMCBS : Chain[i] \in {NONE} \cup Entries
    <2> DEFINE R == {NONE} \cup Entries
    <2>1. 0 \in R /\ \A e \in R : After(e) \in R
      BY EntryTypes, Constants DEF After, Entries
    <2> HIDE DEF R
    <2>2. \A i \in 0 .. MEM_NMCBS : Chain[i] \in R
      BY <2>1, ChainWithin
    <2> QED
      BY <2>2 DEF R
  <1>2. ASSUME TaskEntries # {}
        PROVE  \A i \in 0 .. MEM_NMCBS : Chain[i] # NONE
    <2> DEFINE x == mmcbt[Free].next
               R == {0, 1, 2, 3, 4, x}
    <2>1. x \in TaskEntries /\ mmcbt[x].next = x
      BY <1>2 DEF LinkInv
    <2>2. x # NONE /\ Free = 4 /\ NONE = -1
      BY <2>1, Constants DEF TaskEntries, Entries
    <2>3. \A e \in 0 .. 3 : mmcbt[e].next = e + 1
      BY DEF LinkInv
    <2> HIDE DEF x
    <2>4. \A e \in R : e # NONE
      BY <2>2
    <2>5. ASSUME NEW e \in R PROVE mmcbt[e].next \in R
      <3>1. CASE e \in 0 .. 3
        BY <2>3, <3>1
      <3>2. CASE e = 4
        BY <2>2, <3>2 DEF x
      <3>3. CASE e = x
        BY <2>1, <3>3
      <3> QED
        BY <3>1, <3>2, <3>3
    <2>6. 0 \in R /\ \A e \in R : After(e) \in R
      BY <2>4, <2>5 DEF After
    <2> HIDE DEF R
    <2>7. \A i \in 0 .. MEM_NMCBS : Chain[i] \in R
      BY <2>6, ChainWithin
    <2> QED
      BY <2>4, <2>7
  <1> QED
    BY <1>1, <1>2

(* muxx_mem_getblock finds the free entry, large enough; or it comes to the *)
(* end of the chain, before any chunk was given out; or it never ends.      *)
LEMMA ScanStep ==
    ASSUME NEW c, Creators = {c}, TypeInv, MemInv, LinkInv, Scan(c)
    PROVE  LET f == frame[c] IN
           /\ f.at = "scan"
           /\ \/ UNCHANGED frame
              \/ /\ TaskEntries = {}
                 /\ Moved(c, "idle", "none", NoType, 0, 0, <<>>, NONE, NONE)
              \/ /\ Head(f.todo).n <= mmcbt[Free].size
                 /\ Moved(c, "find", f.svc, f.type, f.pid, f.slot, f.todo, Free, f.new)
           /\ UNCHANGED <<topspid, topupid, tct, mmcbt, ready>>
  <1> DEFINE f     == frame[c]
             D     == 0 .. MEM_NMCBS
             stops == {i \in D : Chain[i] = NONE \/ Fits(Chain[i], Head(f.todo).n)}
             best  == CHOOSE i \in stops : \A j \in stops : i <= j
             hit   == Chain[best]
  <1>1. /\ f.at = "scan"
        /\ UNCHANGED <<topspid, topupid, tct, mmcbt, ready>>
        /\ \/ UNCHANGED frame
           \/ /\ stops # {}
              /\ frame' = [frame EXCEPT ![c] =
                    IF hit = NONE THEN Idle ELSE [@ EXCEPT !.at = "find", !.cur = hit]]
    BY Zenon DEF Scan, At, panic
  <1> SUFFICES ASSUME stops # {},
                      frame' = [frame EXCEPT ![c] =
                        IF hit = NONE THEN Idle ELSE [@ EXCEPT !.at = "find", !.cur = hit]]
               PROVE  \/ /\ TaskEntries = {}
                         /\ Moved(c, "idle", "none", NoType, 0, 0, <<>>, NONE, NONE)
                      \/ /\ Head(f.todo).n <= mmcbt[Free].size
                         /\ Moved(c, "find", f.svc, f.type, f.pid, f.slot, f.todo, Free, f.new)
    BY <1>1, Zenon
  <1>2. best \in stops
    <2>1. D \subseteq Nat
      BY Constants
    <2>2. stops \in SUBSET Nat /\ stops # {}
      BY <2>1, Zenon
    <2> HIDE DEF stops
    <2> QED
      BY <2>2, SmallestChosen
  <1>3. best \in D /\ (hit = NONE \/ Fits(hit, Head(f.todo).n))
    BY <1>2, Zenon
  <1> HIDE DEF best
  <1>4. /\ hit \in {NONE} \cup Entries
        /\ TaskEntries # {} => hit # NONE
    BY <1>3, ChainEntries
  <1> HIDE DEF hit
  <1>5. CASE hit = NONE
    <2>1. frame' = [frame EXCEPT ![c] = Idle]
      BY <1>5
    <2> QED
      BY <1>4, <1>5, <2>1, IdleMoves
  <1>6. CASE hit # NONE
    <2>1. hit \in Entries /\ mmcbt[hit].owner = 0 /\ mmcbt[hit].size >= Head(f.todo).n
      BY <1>3, <1>4, <1>6 DEF Fits
    <2>2. hit = Free
      BY <2>1 DEF MemInv
    <2>3. Head(f.todo).n <= mmcbt[Free].size
      BY <2>1, <2>2
    <2>4. /\ f.svc \in Services /\ f.type \in TaskType /\ f.pid \in Pids
          /\ f.slot \in Slots /\ f.todo \in Seq(Request)
          /\ f.new \in {NONE} \cup Entries
          /\ f = Frame(f.at, f.svc, f.type, f.pid, f.slot, f.todo, f.cur, f.new)
          /\ frame \in [Creators -> Frames]
      BY FrameTypes DEF TypeInv
    <2>5. frame' = [frame EXCEPT ![c] = [f EXCEPT !.at = "find", !.cur = hit]]
      BY <1>6, <2>4
    <2>6. [f EXCEPT !.at = "find", !.cur = hit]
            = Frame("find", f.svc, f.type, f.pid, f.slot, f.todo, hit, f.new)
      <3> DEFINE g == [f EXCEPT !.at = "find"]
      <3>1. g = Frame("find", f.svc, f.type, f.pid, f.slot, f.todo, f.cur, f.new)
        BY <2>4 DEF Frame
      <3> HIDE DEF g
      <3>2. [g EXCEPT !.cur = hit]
              = Frame("find", f.svc, f.type, f.pid, f.slot, f.todo, hit, f.new)
        BY <3>1 DEF Frame
      <3> QED
        BY <3>2, Zenon DEF g
    <2>7. frame' = [frame EXCEPT ![c] =
                Frame("find", f.svc, f.type, f.pid, f.slot, f.todo, hit, f.new)]
      BY <2>5, <2>6
    <2>8. "find" \in Labels
      BY DEF Labels
    <2>9. hit \in {NONE} \cup Entries
      BY <2>1
    <2> HIDE DEF f
    <2>10. Moved(c, "find", f.svc, f.type, f.pid, f.slot, f.todo, hit, f.new)
      BY <2>4, <2>7, <2>8, <2>9, Moves
    <2> QED
      BY <2>2, <2>3, <2>10
  <1> QED
    BY <1>5, <1>6

LEMMA FindFreeStep ==
    ASSUME NEW c, Creators = {c}, TypeInv, MemInv, findFreeMMCB(c)
    PROVE  LET f == frame[c] IN
           /\ f.at = "find"
           /\ \/ UNCHANGED frame
              \/ \E e \in Entries :
                    /\ e > 5 /\ mmcbt[e].owner = NONE
                    /\ Moved(c, "carve", f.svc, f.type, f.pid, f.slot, f.todo, f.cur, e)
           /\ UNCHANGED <<topspid, topupid, tct, mmcbt, ready>>
  <1> DEFINE f == frame[c]
             open == {e \in Entries : mmcbt[e].owner = NONE}
             best == CHOOSE e \in open : \A d \in open : e <= d
  <1>1. /\ f.at = "find"
        /\ UNCHANGED <<topspid, topupid, tct, mmcbt, ready>>
        /\ \/ UNCHANGED frame
           \/ /\ open # {}
              /\ frame' = [frame EXCEPT ![c].at = "carve", ![c].new = best]
    BY Zenon DEF findFreeMMCB, At, panic
  <1>2. ASSUME open # {},
               frame' = [frame EXCEPT ![c].at = "carve", ![c].new = best]
        PROVE  \E e \in Entries :
                    /\ e > 5 /\ mmcbt[e].owner = NONE
                    /\ Moved(c, "carve", f.svc, f.type, f.pid, f.slot, f.todo, f.cur, e)
    <2>1. /\ f.svc \in Services /\ f.type \in TaskType /\ f.pid \in Pids
          /\ f.slot \in Slots /\ f.todo \in Seq(Request)
          /\ f.cur \in {NONE} \cup Entries
          /\ f = Frame(f.at, f.svc, f.type, f.pid, f.slot, f.todo, f.cur, f.new)
          /\ frame \in [Creators -> Frames]
      BY FrameTypes DEF TypeInv
    <2>2. best \in open
      <3>1. open \in SUBSET Nat /\ open # {}
        BY <1>2, Constants DEF Entries
      <3> HIDE DEF open
      <3> QED
        BY <3>1, SmallestChosen
    <2>3. best \in Entries /\ mmcbt[best].owner = NONE
      BY <2>2
    <2>4. best > 5 /\ best \in {NONE} \cup Entries
      BY <2>3, Constants DEF MemInv, Entries
    <2> HIDE DEF best
    <2>5. frame' = [frame EXCEPT ![c] = [f EXCEPT !.at = "carve", !.new = best]]
      BY <1>2, <2>1
    <2>6. [f EXCEPT !.at = "carve", !.new = best]
            = Frame("carve", f.svc, f.type, f.pid, f.slot, f.todo, f.cur, best)
      <3> DEFINE g == [f EXCEPT !.at = "carve"]
      <3>1. g = Frame("carve", f.svc, f.type, f.pid, f.slot, f.todo, f.cur, f.new)
        BY <2>1 DEF Frame
      <3> HIDE DEF g
      <3>2. [g EXCEPT !.new = best]
              = Frame("carve", f.svc, f.type, f.pid, f.slot, f.todo, f.cur, best)
        BY <3>1 DEF Frame
      <3> QED
        BY <3>2, Zenon DEF g
    <2>7. frame' = [frame EXCEPT ![c] =
                Frame("carve", f.svc, f.type, f.pid, f.slot, f.todo, f.cur, best)]
      BY <2>5, <2>6
    <2>8. "carve" \in Labels
      BY DEF Labels
    <2> HIDE DEF f
    <2>9. Moved(c, "carve", f.svc, f.type, f.pid, f.slot, f.todo, f.cur, best)
      BY <2>1, <2>4, <2>7, <2>8, Moves
    <2> QED
      BY <2>3, <2>4, <2>9
  <1> HIDE DEF open, best
  <1> QED
    BY <1>1, <1>2, Zenon

-----------------------------------------------------------------------------
(* The stores into the MMCB table.  After them entry e has these fields.    *)
Now(e, addr, size, owner, par, next) ==
    /\ mmcbt'[e].addr = addr /\ mmcbt'[e].size = size /\ mmcbt'[e].owner = owner
    /\ mmcbt'[e].par = par /\ mmcbt'[e].next = next

(* The chunk is taken off the size of the free entry and described by the   *)
(* new one.                                                                 *)
LEMMA CarveStep ==
    ASSUME NEW c, Creators = {c}, TypeInv, Carve(c), FrameMem(frame[c]),
           frame[c].todo # <<>>
    PROVE  LET f == frame[c]
               n == Head(f.todo).n
           IN  /\ f.at = "carve"
               /\ f.new \in Entries /\ f.new # Free /\ n \in Nat
               /\ mmcbt' \in [Entries -> MMCB]
               /\ Now(Free, mmcbt[Free].addr, mmcbt[Free].size - n, mmcbt[Free].owner,
                      mmcbt[Free].par, mmcbt[Free].next)
               /\ Now(f.new, mmcbt[Free].addr, n, mmcbt[f.new].owner,
                      mmcbt[f.new].par, mmcbt[f.new].next)
               /\ \A e \in Entries \ {Free, f.new} : mmcbt'[e] = mmcbt[e]
               /\ Moved(c, "advance", f.svc, f.type, f.pid, f.slot, f.todo, f.cur, f.new)
               /\ UNCHANGED <<topspid, topupid, tct, ready, halted>>
  <1> DEFINE f == frame[c]
             n == Head(f.todo).n
             w == f.new
             a == mmcbt[Free].addr
             z == (mmcbt[Free].size + WORD - n) % WORD
             m1 == [mmcbt EXCEPT ![Free] = [mmcbt[Free] EXCEPT !.size = z]]
             m2 == [m1 EXCEPT ![w] = [m1[w] EXCEPT !.size = n]]
             m3 == [m2 EXCEPT ![w] = [m2[w] EXCEPT !.addr = a]]
  <1>1. /\ f.at = "carve" /\ Goto(c, "advance")
        /\ UNCHANGED <<topspid, topupid, tct, ready, halted>>
    BY Zenon DEF Carve, At
  <1>2. f.cur = Free /\ w \in Entries /\ w > 5 /\ n <= mmcbt[Free].size
    BY <1>1 DEF FrameMem, Found, Asking
  <1>3. mmcbt \in [Entries -> MMCB] /\ Free \in Entries /\ Free # w
    <2> HIDE DEF w
    <2>1. Free \in Entries /\ Free # w
      <3>1. Free \in Entries
        BY Constants DEF Entries
      <3>2. w > 5 /\ Free = 4
        BY <1>2, Constants, Zenon
      <3>3. Free # w
        BY <3>2
      <3> QED
        BY <3>1, <3>3
    <2>2. mmcbt \in [Entries -> MMCB]
      BY DEF TypeInv
    <2> QED
      BY <2>1, <2>2
  <1>4. mmcbt' = m3
    <2>1. mmcbt' = [mmcbt EXCEPT
                ![f.cur].size = (@ + WORD - n) % WORD,
                ![w].size = n,
                ![w].addr = mmcbt[f.cur].addr]
      BY Zenon DEF Carve
    <2> QED
      BY <1>2, <2>1, Zenon
  <1>5. n \in Nat /\ z = mmcbt[Free].size - n /\ z \in 0 .. WORD - 1 /\ n \in 0 .. WORD - 1
    <2>1. Head(f.todo) \in Request
      BY ElsTail, FrameTypes
    <2>2. n \in Nat
      BY <2>1, RequestFields
    <2>3. mmcbt[Free].size \in Nat /\ mmcbt[Free].size < WORD
      BY <1>3, EntryTypes
    <2> HIDE DEF n
    <2> DEFINE size == mmcbt[Free].size
               y == size - n
    <2>4. /\ y \in 0 .. WORD - 1 /\ WORD \in Nat \ {0}
          /\ size + WORD - n = y + WORD
      <3>1. size \in Nat /\ size < WORD /\ n <= size /\ n \in Nat /\ WORD \in Nat
        BY <1>2, <2>2, <2>3, Constants
      <3> HIDE DEF size
      <3> QED
        BY <3>1
    <2> HIDE DEF y
    <2>5. (y + WORD) % WORD = y
      BY <2>4, Remainder
    <2>6. z = y
      BY <2>4, <2>5
    <2> HIDE DEF z
    <2>7. n \in 0 .. WORD - 1
      BY <1>2, <2>2, <2>3, Constants
    <2> QED
      BY <2>2, <2>4, <2>6, <2>7 DEF y
  <1>6. a \in 0 .. WORD - 1 /\ mmcbt[Free] \in MMCB /\ mmcbt[w] \in MMCB
    <2>1. mmcbt[Free] \in MMCB /\ mmcbt[w] \in MMCB
      BY <1>2, <1>3
    <2>2. a \in Nat /\ a < WORD
      BY <1>3, EntryTypes
    <2> QED
      BY <2>1, <2>2, Constants
  <1> HIDE DEF a, z, n, w
  <1> DEFINE b1 == [mmcbt[Free] EXCEPT !.size = z]
  <1>7. /\ b1 \in MMCB
        /\ b1.addr = mmcbt[Free].addr /\ b1.size = z /\ b1.owner = mmcbt[Free].owner
        /\ b1.par = mmcbt[Free].par /\ b1.next = mmcbt[Free].next
    BY <1>5, <1>6 DEF MMCB
  <1>8. /\ m1 \in [Entries -> MMCB] /\ m1[Free] = b1
        /\ \A d \in Entries : d # Free => m1[d] = mmcbt[d]
    <2> HIDE DEF b1
    <2>1. m1 = [mmcbt EXCEPT ![Free] = b1]
      BY DEF b1
    <2> HIDE DEF m1
    <2> QED
      BY <1>3, <1>7, <2>1
  <1> HIDE DEF m1, b1
  <1> DEFINE b2 == [m1[w] EXCEPT !.size = n]
  <1>9. /\ b2 \in MMCB
        /\ b2.addr = mmcbt[w].addr /\ b2.size = n /\ b2.owner = mmcbt[w].owner
        /\ b2.par = mmcbt[w].par /\ b2.next = mmcbt[w].next
    <2>1. m1[w] = mmcbt[w]
      BY <1>2, <1>3, <1>8
    <2> QED
      BY <1>5, <1>6, <2>1 DEF MMCB
  <1>10. /\ m2 \in [Entries -> MMCB] /\ m2[w] = b2
         /\ \A d \in Entries : d # w => m2[d] = m1[d]
    <2> HIDE DEF b2
    <2>1. m2 = [m1 EXCEPT ![w] = b2]
      BY DEF b2
    <2> HIDE DEF m2
    <2> QED
      BY <1>2, <1>8, <1>9, <2>1
  <1> HIDE DEF m2, b2
  <1> DEFINE b3 == [m2[w] EXCEPT !.addr = a]
  <1>11. /\ b3 \in MMCB
         /\ b3.addr = a /\ b3.size = n /\ b3.owner = mmcbt[w].owner
         /\ b3.par = mmcbt[w].par /\ b3.next = mmcbt[w].next
    BY <1>6, <1>9, <1>10 DEF MMCB
  <1>12. /\ m3 \in [Entries -> MMCB] /\ m3[w] = b3
         /\ \A d \in Entries : d # w => m3[d] = m2[d]
    <2> HIDE DEF b3
    <2>1. m3 = [m2 EXCEPT ![w] = b3]
      BY DEF b3
    <2> HIDE DEF m3
    <2> QED
      BY <1>2, <1>10, <1>11, <2>1
  <1> HIDE DEF m3, b3
  <1>13. /\ mmcbt' \in [Entries -> MMCB] /\ mmcbt'[w] = b3 /\ mmcbt'[Free] = b1
         /\ \A e \in Entries \ {Free, w} : mmcbt'[e] = mmcbt[e]
    BY <1>3, <1>4, <1>8, <1>10, <1>12
  <1>14. Now(Free, mmcbt[Free].addr, mmcbt[Free].size - n, mmcbt[Free].owner,
             mmcbt[Free].par, mmcbt[Free].next)
    BY <1>5, <1>7, <1>13 DEF Now
  <1>15. Now(w, mmcbt[Free].addr, n, mmcbt[w].owner, mmcbt[w].par, mmcbt[w].next)
    BY <1>11, <1>13 DEF Now, a
  <1>16. Moved(c, "advance", f.svc, f.type, f.pid, f.slot, f.todo, f.cur, f.new)
    <2>1. "advance" \in Labels
      BY DEF Labels
    <2> QED
      BY <1>1, <2>1, GotoMoves
  <1> QED
    BY <1>1, <1>2, <1>3, <1>5, <1>13, <1>14, <1>15, <1>16 DEF n, w

(* The free entry starts behind the chunk.                                  *)
LEMMA AdvanceStep ==
    ASSUME NEW c, Creators = {c}, TypeInv, Advance(c), FrameMem(frame[c]),
           frame[c].todo # <<>>
    PROVE  LET f == frame[c]
               n == Head(f.todo).n
           IN  /\ f.at = "advance" /\ n \in Nat
               /\ mmcbt' \in [Entries -> MMCB]
               /\ Now(Free, mmcbt[Free].addr + n, mmcbt[Free].size, mmcbt[Free].owner,
                      mmcbt[Free].par, mmcbt[Free].next)
               /\ \A e \in Entries \ {Free} : mmcbt'[e] = mmcbt[e]
               /\ Moved(c, "own", f.svc, f.type, f.pid, f.slot, f.todo, f.cur, f.new)
               /\ UNCHANGED <<topspid, topupid, tct, ready, halted>>
  <1> DEFINE f == frame[c]
             n == Head(f.todo).n
             a == (mmcbt[Free].addr + n) % WORD
             b == [mmcbt[Free] EXCEPT !.addr = a]
  <1>1. /\ f.at = "advance" /\ Goto(c, "own")
        /\ UNCHANGED <<topspid, topupid, tct, ready, halted>>
    BY Zenon DEF Advance, At
  <1>2. f.cur = Free /\ mmcbt[Free].addr + mmcbt[Free].size + n = FreeAddr + FreeSize
    BY <1>1 DEF FrameMem, Found, Asking, Top, End
  <1>3. mmcbt \in [Entries -> MMCB] /\ Free \in Entries
    BY Constants DEF TypeInv, Entries
  <1>4. mmcbt' = [mmcbt EXCEPT ![Free] = b]
    <2>1. mmcbt' = [mmcbt EXCEPT ![f.cur].addr = (@ + n) % WORD]
      BY Zenon DEF Advance
    <2> QED
      BY <1>2, <2>1, Zenon
  <1>5. n \in Nat /\ a = mmcbt[Free].addr + n /\ a \in 0 .. WORD - 1
    <2>1. Head(f.todo) \in Request
      BY ElsTail, FrameTypes
    <2>2. n \in Nat
      BY <2>1, RequestFields
    <2>3. mmcbt[Free].size \in Nat /\ mmcbt[Free].addr \in Nat
      BY <1>3, EntryTypes
    <2> HIDE DEF n
    <2> DEFINE addr == mmcbt[Free].addr
               size == mmcbt[Free].size
               y == addr + n
    <2>4. y \in 0 .. WORD - 1 /\ WORD \in Nat \ {0} /\ addr + n = y
      <3>1. /\ addr \in Nat /\ size \in Nat /\ n \in Nat /\ WORD \in Nat
            /\ addr + size + n < WORD
        BY <1>2, <2>2, <2>3, Constants
      <3> HIDE DEF addr, size
      <3> QED
        BY <3>1
    <2> HIDE DEF y
    <2>5. y % WORD = y
      BY <2>4, Remainder
    <2>6. a = y
      BY <2>4, <2>5
    <2> HIDE DEF a
    <2> QED
      BY <2>2, <2>4, <2>6
  <1> HIDE DEF a, n
  <1>6. /\ b \in MMCB
        /\ b.addr = a /\ b.size = mmcbt[Free].size /\ b.owner = mmcbt[Free].owner
        /\ b.par = mmcbt[Free].par /\ b.next = mmcbt[Free].next
    <2>1. mmcbt[Free] \in MMCB
      BY <1>3
    <2> QED
      BY <1>5, <2>1 DEF MMCB
  <1> HIDE DEF b
  <1>7. /\ mmcbt' \in [Entries -> MMCB] /\ mmcbt'[Free] = b
        /\ \A e \in Entries \ {Free} : mmcbt'[e] = mmcbt[e]
    BY <1>3, <1>4, <1>6
  <1>8. Now(Free, mmcbt[Free].addr + n, mmcbt[Free].size, mmcbt[Free].owner,
            mmcbt[Free].par, mmcbt[Free].next)
    BY <1>5, <1>6, <1>7 DEF Now
  <1>9. Moved(c, "own", f.svc, f.type, f.pid, f.slot, f.todo, f.cur, f.new)
    <2>1. "own" \in Labels
      BY DEF Labels
    <2> QED
      BY <1>1, <2>1, GotoMoves
  <1> QED
    BY <1>1, <1>5, <1>7, <1>8, <1>9 DEF n

(* The new entry gets its owner and page, and links to itself.              *)
LEMMA OwnStep ==
    ASSUME NEW c, Creators = {c}, TypeInv, Own(c), FrameMem(frame[c]),
           frame[c].todo # <<>>
    PROVE  LET f == frame[c]
           IN  /\ f.at = "own"
               /\ f.new \in Entries /\ f.new # Free
               /\ mmcbt' \in [Entries -> MMCB]
               /\ Now(Free, mmcbt[Free].addr, mmcbt[Free].size, mmcbt[Free].owner,
                      mmcbt[Free].par, f.new)
               /\ Now(f.new, mmcbt[f.new].addr, mmcbt[f.new].size, tct[f.slot].pid,
                      Head(f.todo).page, f.new)
               /\ \A e \in Entries \ {Free, f.new} : mmcbt'[e] = mmcbt[e]
               /\ Moved(c, "map", f.svc, f.type, f.pid, f.slot, f.todo, f.cur, f.new)
               /\ UNCHANGED <<topspid, topupid, tct, ready, halted>>
  <1> DEFINE f == frame[c]
             w == f.new
             o == tct[f.slot].pid
             g == Head(f.todo).page
             m1 == [mmcbt EXCEPT ![Free] = [mmcbt[Free] EXCEPT !.next = w]]
             m2 == [m1 EXCEPT ![w] = [m1[w] EXCEPT !.owner = o, !.par = g, !.next = w]]
  <1>1. /\ f.at = "own" /\ Goto(c, "map")
        /\ UNCHANGED <<topspid, topupid, tct, ready, halted>>
    BY Zenon DEF Own, At
  <1>2. f.cur = Free /\ w \in Entries /\ w > 5
    BY <1>1 DEF FrameMem, Found, Asking
  <1>3. mmcbt \in [Entries -> MMCB] /\ Free \in Entries /\ Free # w
    <2> HIDE DEF w
    <2>1. Free \in Entries /\ Free # w
      <3>1. Free \in Entries
        BY Constants DEF Entries
      <3>2. w > 5 /\ Free = 4
        BY <1>2, Constants, Zenon
      <3>3. Free # w
        BY <3>2
      <3> QED
        BY <3>1, <3>3
    <2>2. mmcbt \in [Entries -> MMCB]
      BY DEF TypeInv
    <2> QED
      BY <2>1, <2>2
  <1>4. mmcbt' = m2
    <2>1. mmcbt' = [mmcbt EXCEPT
                ![f.cur].next = w,
                ![w] = [@ EXCEPT !.owner = o, !.par = g, !.next = w]]
      BY Zenon DEF Own
    <2> QED
      BY <1>2, <2>1, Zenon
  <1>5. o \in Pids /\ g \in 0 .. 7
    <2>1. Head(f.todo) \in Request
      BY ElsTail, FrameTypes
    <2>2. g \in 0 .. 7
      BY <2>1, RequestFields
    <2>3. o \in Pids
      BY FrameTypes, TaskTypes
    <2> QED
      BY <2>2, <2>3
  <1>6. mmcbt[Free] \in MMCB /\ mmcbt[w] \in MMCB /\ w \in {NONE} \cup Entries
    BY <1>2, <1>3
  <1> HIDE DEF o, g, w
  <1> DEFINE b1 == [mmcbt[Free] EXCEPT !.next = w]
  <1>7. /\ b1 \in MMCB
        /\ b1.addr = mmcbt[Free].addr /\ b1.size = mmcbt[Free].size
        /\ b1.owner = mmcbt[Free].owner /\ b1.par = mmcbt[Free].par /\ b1.next = w
    BY <1>6 DEF MMCB
  <1>8. /\ m1 \in [Entries -> MMCB] /\ m1[Free] = b1
        /\ \A d \in Entries : d # Free => m1[d] = mmcbt[d]
    <2> HIDE DEF b1
    <2>1. m1 = [mmcbt EXCEPT ![Free] = b1]
      BY DEF b1
    <2> HIDE DEF m1
    <2> QED
      BY <1>3, <1>7, <2>1
  <1> HIDE DEF m1, b1
  <1> DEFINE b2 == [m1[w] EXCEPT !.owner = o, !.par = g, !.next = w]
  <1>9. /\ b2 \in MMCB
        /\ b2.addr = mmcbt[w].addr /\ b2.size = mmcbt[w].size /\ b2.owner = o
        /\ b2.par = g /\ b2.next = w
    <2>1. m1[w] = mmcbt[w]
      BY <1>2, <1>3, <1>8
    <2> DEFINE d1 == [mmcbt[w] EXCEPT !.owner = o]
               d2 == [d1 EXCEPT !.par = g]
               d3 == [d2 EXCEPT !.next = w]
    <2>2. /\ d1 \in MMCB /\ d1.addr = mmcbt[w].addr /\ d1.size = mmcbt[w].size
          /\ d1.owner = o
      BY <1>5, <1>6 DEF MMCB
    <2> HIDE DEF d1
    <2>3. /\ d2 \in MMCB /\ d2.addr = mmcbt[w].addr /\ d2.size = mmcbt[w].size
          /\ d2.owner = o /\ d2.par = g
      BY <1>5, <2>2 DEF MMCB
    <2> HIDE DEF d2
    <2>4. /\ d3 \in MMCB /\ d3.addr = mmcbt[w].addr /\ d3.size = mmcbt[w].size
          /\ d3.owner = o /\ d3.par = g /\ d3.next = w
      BY <1>6, <2>3 DEF MMCB
    <2>5. b2 = d3
      BY <2>1, Zenon DEF d1, d2
    <2> HIDE DEF b2, d3
    <2> QED
      BY <2>4, <2>5
  <1>10. /\ m2 \in [Entries -> MMCB] /\ m2[w] = b2
         /\ \A d \in Entries : d # w => m2[d] = m1[d]
    <2> HIDE DEF b2
    <2>1. m2 = [m1 EXCEPT ![w] = b2]
      BY DEF b2
    <2> HIDE DEF m2
    <2> QED
      BY <1>2, <1>8, <1>9, <2>1
  <1> HIDE DEF m2, b2
  <1>11. /\ mmcbt' \in [Entries -> MMCB] /\ mmcbt'[w] = b2 /\ mmcbt'[Free] = b1
         /\ \A e \in Entries \ {Free, w} : mmcbt'[e] = mmcbt[e]
    BY <1>3, <1>4, <1>8, <1>10
  <1>12. Now(Free, mmcbt[Free].addr, mmcbt[Free].size, mmcbt[Free].owner,
             mmcbt[Free].par, w)
    BY <1>7, <1>11 DEF Now
  <1>13. Now(w, mmcbt[w].addr, mmcbt[w].size, o, g, w)
    BY <1>9, <1>11 DEF Now
  <1>14. Moved(c, "map", f.svc, f.type, f.pid, f.slot, f.todo, f.cur, f.new)
    <2>1. "map" \in Labels
      BY DEF Labels
    <2> QED
      BY <1>1, <2>1, GotoMoves
  <1> QED
    BY <1>1, <1>2, <1>3, <1>11, <1>12, <1>13, <1>14 DEF w, o, g

-----------------------------------------------------------------------------
(* The stores into the task table.  After them slot s has these fields.     *)
Holds(s, pid, ty, par, file) ==
    /\ tct'[s].pid = pid /\ tct'[s].type = ty /\ tct'[s].par = par
    /\ tct'[s].file = file

(* The slot of a new task.                                                  *)
LEMMA NewTaskStored ==
    ASSUME NEW c \in Creators, TypeInv,
           tct' = [tct EXCEPT ![frame[c].slot] = NewTask(frame[c])]
    PROVE  LET f == frame[c] IN
           /\ tct' \in [Slots -> Task]
           /\ Holds(f.slot, f.pid, f.type, NoPars,
                    IF f.svc = "loadprc" THEN "wanted" ELSE "none")
           /\ \A s \in Slots : s # f.slot => tct'[s] = tct[s]
  <1> DEFINE f == frame[c]
             v == IF f.svc = "loadprc" THEN "wanted" ELSE "none"
             b == [pid |-> f.pid, type |-> f.type, par |-> NoPars, file |-> v]
  <1>1. NewTask(f) = b
    <2> DEFINE d1 == [FreeTask EXCEPT !.pid = f.pid]
               d2 == [d1 EXCEPT !.type = f.type]
    <2>1. d1 = [pid |-> f.pid, type |-> NoType, par |-> NoPars, file |-> "none"]
      BY DEF FreeTask
    <2> HIDE DEF d1
    <2>2. d2 = [pid |-> f.pid, type |-> f.type, par |-> NoPars, file |-> "none"]
      BY <2>1
    <2> HIDE DEF d2
    <2>3. [d2 EXCEPT !.file = v] = b
      BY <2>2
    <2>4. NewTask(f) = [d2 EXCEPT !.file = v]
      BY Zenon DEF NewTask, d1, d2
    <2> QED
      BY <2>3, <2>4
  <1>2. b \in Task /\ f.slot \in Slots /\ tct \in [Slots -> Task]
    <2>1. f.pid \in Pids /\ f.type \in TaskType /\ f.slot \in Slots
      BY FrameTypes
    <2>2. NoPars \in [Pages -> Int] /\ v \in {"none", "wanted", "there"}
      BY DEF NoPars
    <2> HIDE DEF v
    <2>3. b \in Task
      BY <2>1, <2>2 DEF Task
    <2> QED
      BY <2>1, <2>3 DEF TypeInv
  <1>3. b.pid = f.pid /\ b.type = f.type /\ b.par = NoPars /\ b.file = v
    OBVIOUS
  <1> HIDE DEF b
  <1>4. /\ tct' \in [Slots -> Task] /\ tct'[f.slot] = b
        /\ \A s \in Slots : s # f.slot => tct'[s] = tct[s]
    BY <1>1, <1>2
  <1> QED
    BY <1>3, <1>4 DEF Holds

(* muxx_setup_taskmem loads the PAR and goes on to the next request.        *)
LEMMA MapBlockStep ==
    ASSUME NEW c, Creators = {c}, TypeInv, MapBlock(c),
           frame[c].todo # <<>>, frame[c].new \in Entries
    PROVE  LET f == frame[c]
               r == Head(f.todo)
               t == tct[f.slot]
           IN  /\ f.at = "map"
               /\ tct' \in [Slots -> Task]
               /\ Holds(f.slot, t.pid, t.type,
                        [t.par EXCEPT ![r.map] = mmcbt[f.new].addr - r.off], t.file)
               /\ \A s \in Slots : s # f.slot => tct'[s] = tct[s]
               /\ \E l \in Labels :
                    /\ l = IF Tail(f.todo) # <<>> THEN "scan"
                           ELSE IF f.svc = "loadprc" THEN "copy" ELSE "enqueue"
                    /\ Moved(c, l, f.svc, f.type, f.pid, f.slot, Tail(f.todo), NONE, NONE)
               /\ UNCHANGED <<topspid, topupid, mmcbt, ready, halted>>
  <1> DEFINE f == frame[c]
             r == Head(f.todo)
             t == tct[f.slot]
             v == mmcbt[f.new].addr - r.off
             ps == [t.par EXCEPT ![r.map] = v]
             b == [t EXCEPT !.par = ps]
             l == IF Tail(f.todo) # <<>> THEN "scan"
                  ELSE IF f.svc = "loadprc" THEN "copy" ELSE "enqueue"
             rest == Tail(f.todo)
  <1>1. /\ f.at = "map"
        /\ tct' = [tct EXCEPT ![f.slot].par[r.map] = v]
        /\ frame' = [frame EXCEPT ![c] =
                [f EXCEPT !.at = l, !.todo = rest, !.cur = NONE, !.new = NONE]]
        /\ UNCHANGED <<topspid, topupid, mmcbt, ready, halted>>
    BY Zenon DEF MapBlock, At
  <1>2. /\ f.svc \in Services /\ f.type \in TaskType /\ f.pid \in Pids
        /\ f.slot \in Slots /\ f.todo \in Seq(Request)
        /\ f = Frame(f.at, f.svc, f.type, f.pid, f.slot, f.todo, f.cur, f.new)
        /\ frame \in [Creators -> Frames]
    BY FrameTypes DEF TypeInv
  <1>3. r \in Request /\ rest \in Seq(Request)
    BY <1>2, ElsTail
  <1>4. r.map \in Pages /\ r.off \in Nat /\ v \in Int
    BY <1>3, RequestFields, EntryTypes
  <1>5. t \in Task /\ t.par \in [Pages -> Int]
    BY <1>2, TaskTypes
  <1> HIDE DEF t, v
  <1>6. ps \in [Pages -> Int]
    BY <1>4, <1>5
  <1> HIDE DEF ps
  <1>7. b \in Task /\ b.pid = t.pid /\ b.type = t.type /\ b.par = ps /\ b.file = t.file
    BY <1>5, <1>6 DEF Task
  <1>8. tct' = [tct EXCEPT ![f.slot] = b]
    BY <1>1, Zenon DEF t, ps
  <1> HIDE DEF b
  <1>9. /\ tct' \in [Slots -> Task] /\ tct'[f.slot] = b
        /\ \A s \in Slots : s # f.slot => tct'[s] = tct[s]
    BY <1>2, <1>7, <1>8 DEF TypeInv
  <1>10. Holds(f.slot, t.pid, t.type, ps, t.file)
    BY <1>7, <1>9 DEF Holds
  <1>11. l \in Labels
    BY DEF Labels
  <1> HIDE DEF l, rest
  <1>12. [f EXCEPT !.at = l, !.todo = rest, !.cur = NONE, !.new = NONE]
            = Frame(l, f.svc, f.type, f.pid, f.slot, rest, NONE, NONE)
    <2> DEFINE g1 == [f EXCEPT !.at = l]
               g2 == [g1 EXCEPT !.todo = rest]
               g3 == [g2 EXCEPT !.cur = NONE]
    <2>1. g1 = Frame(l, f.svc, f.type, f.pid, f.slot, f.todo, f.cur, f.new)
      BY <1>2 DEF Frame
    <2> HIDE DEF g1
    <2>2. g2 = Frame(l, f.svc, f.type, f.pid, f.slot, rest, f.cur, f.new)
      BY <2>1 DEF Frame
    <2> HIDE DEF g2
    <2>3. g3 = Frame(l, f.svc, f.type, f.pid, f.slot, rest, NONE, f.new)
      BY <2>2 DEF Frame
    <2> HIDE DEF g3
    <2>4. [g3 EXCEPT !.new = NONE]
            = Frame(l, f.svc, f.type, f.pid, f.slot, rest, NONE, NONE)
      BY <2>3 DEF Frame
    <2> QED
      BY <2>4, Zenon DEF g1, g2, g3
  <1>13. frame' = [frame EXCEPT ![c] =
                Frame(l, f.svc, f.type, f.pid, f.slot, rest, NONE, NONE)]
    BY <1>1, <1>12
  <1>14. NONE \in {NONE} \cup Entries
    OBVIOUS
  <1> HIDE DEF f
  <1>15. Moved(c, l, f.svc, f.type, f.pid, f.slot, rest, NONE, NONE)
    BY <1>2, <1>3, <1>11, <1>13, <1>14, Moves
  <1> QED
    BY <1>1, <1>9, <1>10, <1>11, <1>15, Zenon DEF f, t, v, ps, l, rest

(* muxx_findtcb finds the new task by its PID, and the file name gets       *)
(* there.                                                                   *)
LEMMA CopyNameStep ==
    ASSUME NEW c, Creators = {c}, TypeInv, PidInv, FramePid(frame[c]), CopyName(c)
    PROVE  LET f == frame[c]
               t == tct[f.slot]
           IN  /\ f.at = "copy"
               /\ tct' \in [Slots -> Task]
               /\ Holds(f.slot, t.pid, t.type, t.par, "there")
               /\ \A s \in Slots : s # f.slot => tct'[s] = tct[s]
               /\ Moved(c, "enqueue", f.svc, f.type, f.pid, f.slot, f.todo, f.cur, f.new)
               /\ UNCHANGED <<topspid, topupid, mmcbt, ready, halted>>
  <1> DEFINE f == frame[c]
             t == tct[f.slot]
             q == muxx_findtcb(t.pid)
             b == [t EXCEPT !.file = "there"]
  <1>1. /\ f.at = "copy" /\ Goto(c, "enqueue")
        /\ tct' = [tct EXCEPT ![q].file = "there"]
        /\ UNCHANGED <<topspid, topupid, mmcbt, ready, halted>>
    BY Zenon DEF CopyName, At
  <1>2. f.slot \in Slots /\ t.pid # 0
    BY <1>1, FrameTypes DEF FramePid, Building
  <1>3. \A s \in Slots : tct[s].pid = t.pid => s = f.slot
    BY <1>2 DEF PidInv, PidsUnique
  <1>4. q = f.slot
    <2>1. f.slot <= f.slot
      <3>1. f.slot \in Nat
        BY <1>2, Constants, Zenon
      <3> QED
        BY <3>1
    <2>2. tct[f.slot].pid = t.pid /\ \A r \in Slots : tct[r].pid = t.pid => f.slot <= r
      BY <1>3, <2>1
    <2> DEFINE P(s) == tct[s].pid = t.pid /\ \A r \in Slots : tct[r].pid = t.pid => s <= r
    <2>3. P(f.slot) /\ \A s \in Slots : P(s) => s = f.slot
      BY <1>3, <2>2
    <2>4. q = CHOOSE s \in Slots : P(s)
      BY DEF muxx_findtcb
    <2> HIDE DEF P, q
    <2> QED
      BY <1>2, <2>3, <2>4, Zenon
  <1>5. t \in Task
    BY <1>2, TaskTypes
  <1>6. tct' = [tct EXCEPT ![f.slot] = b]
    BY <1>1, <1>4, Zenon
  <1> HIDE DEF t, q
  <1>7. /\ b \in Task /\ b.pid = t.pid /\ b.type = t.type /\ b.par = t.par
        /\ b.file = "there"
    BY <1>5 DEF Task
  <1> HIDE DEF b
  <1>8. /\ tct' \in [Slots -> Task] /\ tct'[f.slot] = b
        /\ \A s \in Slots : s # f.slot => tct'[s] = tct[s]
    BY <1>2, <1>6, <1>7 DEF TypeInv
  <1>9. Holds(f.slot, t.pid, t.type, t.par, "there")
    BY <1>7, <1>8 DEF Holds
  <1>10. "enqueue" \in Labels
    BY DEF Labels
  <1>11. Moved(c, "enqueue", f.svc, f.type, f.pid, f.slot, f.todo, f.cur, f.new)
    BY <1>1, <1>10, GotoMoves
  <1> QED
    BY <1>1, <1>8, <1>9, <1>11, Zenon DEF t

LEMMA EnqueueStep ==
    ASSUME NEW c, Creators = {c}, TypeInv, Enqueue(c)
    PROVE  /\ frame[c].at = "enqueue"
           /\ ready' = ready \cup {frame[c].slot}
           /\ Moved(c, "idle", "none", NoType, 0, 0, <<>>, NONE, NONE)
           /\ UNCHANGED <<topspid, topupid, tct, mmcbt, halted>>
  <1>1. frame' = [frame EXCEPT ![c] = Idle]
    BY DEF Enqueue
  <1>2. Moved(c, "idle", "none", NoType, 0, 0, <<>>, NONE, NONE)
    BY <1>1, IdleMoves
  <1> QED
    BY <1>2, Zenon DEF Enqueue, At

-----------------------------------------------------------------------------
(* What a step that leaves a table alone leaves true.                       *)

LEMMA MemoryAlone ==
    ASSUME mmcbt' = mmcbt
    PROVE  /\ TaskEntries' = TaskEntries
           /\ MemInv => MemInv'
           /\ LinkInv => LinkInv'
  <1>1. TaskEntries' = TaskEntries
    BY Zenon DEF TaskEntries
  <1>2. MemInv => MemInv'
    BY <1>1, Zenon DEF MemInv, Top
  <1>3. LinkInv => LinkInv'
    BY <1>1, Zenon DEF LinkInv
  <1> QED
    BY <1>1, <1>2, <1>3

LEMMA PidsAlone ==
    ASSUME tct' = tct, topspid' = topspid, topupid' = topupid
    PROVE  PidInv => PidInv'
  BY Zenon DEF PidInv, Given, PidsUnique

LEMMA ReadyAlone ==
    ASSUME tct' = tct, mmcbt' = mmcbt, ready' = ready
    PROVE  ReadySound => ReadySound'
  <1>1. TaskEntries' = TaskEntries
    BY MemoryAlone
  <1> QED
    BY <1>1, Zenon DEF ReadySound, Met

LEMMA CoveredAlone ==
    ASSUME mmcbt' = mmcbt
    PROVE  \A a : Covered(a) => Covered(a)'
  <1>1. TaskEntries' = TaskEntries
    BY MemoryAlone
  <1> QED
    BY <1>1, Zenon DEF Covered, Blocks

(* A step outside muxx_mem_getblock that leaves the MMCB table alone.       *)
LEMMA FrameMemAlone ==
    ASSUME NEW c, mmcbt' = mmcbt, FrameMem(frame[c]),
           frame[c].at \notin {"advance", "own"}, frame'[c].at \notin Found
    PROVE  FrameMem(frame[c])'
  <1>1. Top(Free) = End /\ Covered(mmcbt[Free].addr)
    BY DEF FrameMem
  <1>2. (Top(Free) = End)' /\ Covered(mmcbt[Free].addr)'
    BY <1>1, CoveredAlone DEF Top, End
  <1>3. frame'[c].at \notin {"find", "carve", "advance", "own"}
    BY DEF Found, Asking
  <1> QED
    BY <1>2, <1>3 DEF FrameMem

(* A step before the slot is filled, or out of the last request.            *)
LEMMA FrameTaskAlone ==
    ASSUME NEW c, tct' = tct, mmcbt' = mmcbt, ready' = ready, FrameTask(frame[c]),
           frame[c].at \notin Building, frame'[c].at \notin Building
    PROVE  FrameTask(frame[c])'
  <1>1. TaskEntries' = TaskEntries
    BY MemoryAlone
  <1>2. OwnersKnown(frame[c])
    BY DEF FrameTask
  <1>3. OwnersKnown(frame[c])'
    BY <1>1, <1>2, Zenon DEF OwnersKnown
  <1>4. frame'[c].at \notin Asking \cup {"copy", "enqueue", "map"}
    BY DEF Building, Asking
  <1> QED
    BY <1>3, <1>4, Zenon DEF FrameTask, Building

(* The parts of the invariant, and the invariant from its parts.            *)
LEMMA Parts ==
    ASSUME NEW c, Creators = {c}, IInv
    PROVE  /\ TypeInv /\ PidInv /\ MemInv /\ LinkInv /\ ReadySound
           /\ FramePid(frame[c]) /\ FrameMem(frame[c]) /\ FrameTask(frame[c])
  <1>1. c \in Creators
    OBVIOUS
  <1> QED
    BY <1>1, Zenon DEF IInv

LEMMA Whole ==
    ASSUME NEW c, Creators = {c}, TypeInv', PidInv', MemInv', LinkInv', ReadySound',
           FramePid(frame[c])', FrameMem(frame[c])', FrameTask(frame[c])'
    PROVE  IInv'
  <1>1. ASSUME NEW d \in Creators
        PROVE  FramePid(frame[d])' /\ FrameMem(frame[d])' /\ FrameTask(frame[d])'
    <2>1. d = c
      BY Zenon
    <2> QED
      BY <2>1
  <1> QED
    BY <1>1, Zenon DEF IInv

-----------------------------------------------------------------------------
(* muxx_taskinit up to the slot: only the PIDs are at stake.                *)

LEMMA CallKeeps ==
    ASSUME NEW c, Creators = {c}, IInv, NEW svc \in {"creprc", "loadprc"}, Call(c, svc)
    PROVE  IInv'
  <1>1. /\ TypeInv /\ PidInv /\ MemInv /\ LinkInv /\ ReadySound
        /\ FramePid(frame[c]) /\ FrameMem(frame[c]) /\ FrameTask(frame[c])
    BY Parts
  <1>2. /\ \E ty \in TaskType : Moved(c, "pid", svc, ty, 0, 0, <<>>, NONE, NONE)
        /\ frame[c].at = "idle"
        /\ UNCHANGED <<topspid, topupid, tct, mmcbt, ready, halted>>
    BY <1>1, CallStep
  <1>3. /\ topspid' = topspid /\ topupid' = topupid /\ tct' = tct /\ mmcbt' = mmcbt
        /\ ready' = ready /\ frame'[c].at = "pid" /\ frame' \in [Creators -> Frames]
    BY <1>2 DEF Moved
  <1>4. TypeInv'
    BY <1>1, <1>3 DEF TypeInv
  <1>5. PidInv' /\ MemInv' /\ LinkInv' /\ ReadySound'
    BY <1>1, <1>3, PidsAlone, MemoryAlone, ReadyAlone
  <1>6. FramePid(frame[c])'
    BY <1>3 DEF FramePid, Building, Asking
  <1>7. FrameMem(frame[c])'
    BY <1>1, <1>2, <1>3, FrameMemAlone DEF Found, Asking
  <1>8. FrameTask(frame[c])'
    BY <1>1, <1>2, <1>3, FrameTaskAlone DEF Building, Asking
  <1> QED
    BY <1>4, <1>5, <1>6, <1>7, <1>8, Whole

(* The PIDs given out stay so.                                              *)
LEMMA PidsGrow ==
    ASSUME TypeInv, topspid' \in Nat, topupid' \in Nat,
           topspid' >= topspid, topupid' >= topupid, tct' = tct, PidInv
    PROVE  PidInv'
  <1>1. ASSUME NEW s \in Slots PROVE tct'[s].pid = 0 \/ Given(tct[s].pid)'
    <2>1. tct[s].pid = 0 \/ Given(tct[s].pid)
      BY DEF PidInv
    <2>2. Given(tct[s].pid) => Given(tct[s].pid)'
      <3> DEFINE p == tct[s].pid
      <3>1. p' = p
        OBVIOUS
      <3> HIDE DEF p
      <3>2. p \in Nat
        BY TaskTypes DEF p
      <3> QED
        BY <3>1, <3>2, Constants DEF TypeInv, Given, p
    <2> QED
      BY <2>1, <2>2
  <1>2. PidsUnique'
    BY DEF PidInv, PidsUnique
  <1>3. tct'[0].pid = 1
    BY DEF PidInv
  <1> QED
    BY <1>1, <1>2, <1>3, Zenon DEF PidInv

LEMMA TakePidKeeps ==
    ASSUME NEW c, Creators = {c}, IInv, TakePid(c)
    PROVE  IInv'
  <1> DEFINE f   == frame[c]
             sys == SystemPid(f.type)
             top == IF sys THEN topspid ELSE First(topupid, minupid)
  <1>1. /\ TypeInv /\ PidInv /\ MemInv /\ LinkInv /\ ReadySound
        /\ FramePid(frame[c]) /\ FrameMem(frame[c]) /\ FrameTask(frame[c])
    BY Parts
  <1>2. /\ f.at = "pid"
        /\ topspid' = topspid
        /\ topupid' = IF sys THEN topupid ELSE top
        /\ \/ UNCHANGED frame
           \/ /\ top + 1 <= IF sys THEN maxspid ELSE maxupid
              /\ Moved(c, "bump", f.svc, f.type, top + 1, f.slot, f.todo, f.cur, f.new)
        /\ UNCHANGED <<tct, mmcbt, ready>>
    BY <1>1, TakePidStep, Zenon
  <1>3. tct' = tct /\ mmcbt' = mmcbt /\ ready' = ready
    BY <1>2
  <1>4. /\ topspid \in 1 .. maxspid /\ topupid \in 0 .. maxupid
        /\ topupid # 0 => topupid >= minupid
        /\ frame \in [Creators -> Frames]
    BY <1>1 DEF TypeInv
  <1>5. /\ topspid' \in 1 .. maxspid /\ topupid' \in 0 .. maxupid
        /\ topupid' # 0 => topupid' >= minupid
        /\ topspid' >= topspid /\ topupid' >= topupid
        /\ topspid' \in Nat /\ topupid' \in Nat
        /\ ~ sys => topupid' # 0 /\ top = topupid'
        /\ sys => top = topspid'
    BY <1>2, <1>4, Constants DEF First
  <1> HIDE DEF top
  <1>6. frame' \in [Creators -> Frames] /\ frame'[c].at \in {"pid", "bump"}
    BY <1>2, <1>4 DEF Moved
  <1>7. TypeInv'
    BY <1>1, <1>3, <1>5, <1>6 DEF TypeInv
  <1>8. PidInv'
    BY <1>1, <1>3, <1>5, PidsGrow
  <1>9. MemInv' /\ LinkInv' /\ ReadySound'
    BY <1>1, <1>3, MemoryAlone, ReadyAlone
  <1>10. FramePid(frame[c])'
    <2>1. CASE frame'[c].at = "pid"
      BY <2>1 DEF FramePid, Building, Asking
    <2>2. CASE frame'[c].at = "bump"
      <3>1. /\ top + 1 <= IF sys THEN maxspid ELSE maxupid
            /\ frame'[c].pid = top + 1 /\ frame'[c].type = f.type
        BY <1>2, <2>2 DEF Moved
      <3>2. /\ sys => frame'[c].pid = topspid' + 1 /\ frame'[c].pid <= maxspid
            /\ ~ sys => /\ frame'[c].pid = topupid' + 1 /\ frame'[c].pid <= maxupid
                        /\ topupid' # 0
        BY <1>5, <3>1
      <3>3. SystemPid(frame'[c].type) <=> sys
        BY <3>1
      <3> HIDE DEF sys
      <3> QED
        BY <2>2, <3>2, <3>3 DEF FramePid, Building, Asking
    <2> QED
      BY <1>6, <2>1, <2>2
  <1>11. FrameMem(frame[c])'
    BY <1>1, <1>2, <1>3, <1>6, FrameMemAlone DEF Found, Asking
  <1>12. FrameTask(frame[c])'
    BY <1>1, <1>2, <1>3, <1>6, FrameTaskAlone DEF Building, Asking
  <1> QED
    BY <1>7, <1>8, <1>9, <1>10, <1>11, <1>12, Whole

(* The PID becomes one that has been given out, and no task has it yet.     *)
LEMMA BumpTopKeeps ==
    ASSUME NEW c, Creators = {c}, IInv, BumpTop(c)
    PROVE  IInv'
  <1> DEFINE f   == frame[c]
             sys == SystemPid(f.type)
  <1>1. /\ TypeInv /\ PidInv /\ MemInv /\ LinkInv /\ ReadySound
        /\ FramePid(frame[c]) /\ FrameMem(frame[c]) /\ FrameTask(frame[c])
    BY Parts
  <1>2. /\ f.at = "bump"
        /\ sys => topspid' = topspid + 1 /\ topupid' = topupid
        /\ ~ sys => topupid' = topupid + 1 /\ topspid' = topspid
        /\ Moved(c, "slot", f.svc, f.type, f.pid, f.slot, f.todo, f.cur, f.new)
        /\ UNCHANGED <<tct, mmcbt, ready, halted>>
    BY <1>1, BumpTopStep, Zenon
  <1>3. tct' = tct /\ mmcbt' = mmcbt /\ ready' = ready
    BY <1>2
  <1>4. /\ topspid \in 1 .. maxspid /\ topupid \in 0 .. maxupid
        /\ topupid # 0 => topupid >= minupid
    BY <1>1 DEF TypeInv
  <1>5. /\ sys => f.pid = topspid + 1 /\ f.pid <= maxspid
        /\ ~ sys => f.pid = topupid + 1 /\ f.pid <= maxupid /\ topupid # 0
    BY <1>1, <1>2 DEF FramePid
  <1>6. f.pid \in Nat
    BY <1>1, FrameTypes
  <1>7. /\ frame' \in [Creators -> Frames] /\ frame'[c].at = "slot"
        /\ frame'[c].pid = f.pid
    BY <1>2 DEF Moved
  <1> HIDE DEF sys, f
  <1>8. /\ topspid' \in 1 .. maxspid /\ topupid' \in 0 .. maxupid
        /\ topupid' # 0 => topupid' >= minupid
        /\ topspid' >= topspid /\ topupid' >= topupid
        /\ topspid' \in Nat /\ topupid' \in Nat
    BY <1>2, <1>4, <1>5, Constants
  <1>9. TypeInv'
    BY <1>1, <1>3, <1>7, <1>8 DEF TypeInv
  <1>10. PidInv'
    BY <1>1, <1>3, <1>8, PidsGrow
  <1>11. MemInv' /\ LinkInv' /\ ReadySound'
    BY <1>1, <1>3, MemoryAlone, ReadyAlone
  <1>12. f.pid \in 1 .. topspid' \/ f.pid \in minupid + 1 .. topupid'
    BY <1>2, <1>4, <1>5, <1>6, Constants
  <1>13. ~ Given(f.pid) /\ f.pid # 0
    BY <1>4, <1>5, <1>6, Constants DEF Given
  <1>14. \A s \in Slots : tct'[s].pid # f.pid
    BY <1>1, <1>3, <1>13 DEF PidInv
  <1>15. FramePid(frame[c])'
    BY <1>7, <1>12, <1>14 DEF FramePid, Building, Asking, Given
  <1>16. FrameMem(frame[c])'
    BY <1>1, <1>2, <1>3, <1>7, FrameMemAlone DEF Found, Asking, f
  <1>17. FrameTask(frame[c])'
    BY <1>1, <1>2, <1>3, <1>7, FrameTaskAlone DEF Building, Asking, f
  <1> QED
    BY <1>9, <1>10, <1>11, <1>15, <1>16, <1>17, Whole

LEMMA FindSlotKeeps ==
    ASSUME NEW c, Creators = {c}, IInv, FindSlot(c)
    PROVE  IInv'
  <1> DEFINE f == frame[c]
  <1>1. /\ TypeInv /\ PidInv /\ MemInv /\ LinkInv /\ ReadySound
        /\ FramePid(frame[c]) /\ FrameMem(frame[c]) /\ FrameTask(frame[c])
    BY Parts
  <1>2. /\ f.at = "slot"
        /\ \/ UNCHANGED frame
           \/ \E s \in Slots \ {0} :
                /\ tct[s].pid = 0
                /\ Moved(c, "store", f.svc, f.type, f.pid, s, f.todo, f.cur, f.new)
        /\ UNCHANGED <<topspid, topupid, tct, mmcbt, ready>>
    BY <1>1, FindSlotStep, Zenon
  <1>3. /\ tct' = tct /\ mmcbt' = mmcbt /\ ready' = ready
        /\ topspid' = topspid /\ topupid' = topupid
    BY <1>2
  <1>4. /\ frame' \in [Creators -> Frames]
        /\ frame'[c].at \in {"slot", "store"} /\ frame'[c].pid = f.pid
        /\ frame'[c].at = "store" => frame'[c].slot # 0 /\ tct[frame'[c].slot].pid = 0
    BY <1>1, <1>2 DEF Moved, TypeInv
  <1>5. TypeInv'
    BY <1>1, <1>3, <1>4 DEF TypeInv
  <1>6. PidInv' /\ MemInv' /\ LinkInv' /\ ReadySound'
    BY <1>1, <1>3, PidsAlone, MemoryAlone, ReadyAlone
  <1>7. FramePid(frame[c])'
    <2>1. Given(f.pid) /\ \A s \in Slots : tct[s].pid # f.pid
      BY <1>1, <1>2 DEF FramePid
    <2> QED
      BY <1>3, <1>4, <2>1 DEF FramePid, Building, Asking, Given
  <1>8. FrameMem(frame[c])'
    BY <1>1, <1>2, <1>3, <1>4, FrameMemAlone DEF Found, Asking
  <1>9. FrameTask(frame[c])'
    BY <1>1, <1>2, <1>3, <1>4, FrameTaskAlone DEF Building, Asking
  <1> QED
    BY <1>5, <1>6, <1>7, <1>8, <1>9, Whole

(* The tasks that are ready are not touched by what happens to another      *)
(* slot.                                                                    *)
LEMMA ReadyElsewhere ==
    ASSUME NEW s, ready' = ready, mmcbt' = mmcbt, s \notin ready, ready \subseteq Slots,
           \A q \in Slots : q # s => tct'[q] = tct[q], ReadySound
    PROVE  ReadySound'
  <1>1. TaskEntries' = TaskEntries
    BY MemoryAlone
  <1>2. ASSUME NEW q \in ready'
        PROVE  /\ q # 0 /\ tct'[q].pid # 0 /\ tct'[q].file # "wanted"
               /\ \A r \in Needed(tct'[q].type) : Met(q, r)'
    <2>1. q \in ready /\ tct'[q] = tct[q]
      BY <1>2
    <2>2. /\ q # 0 /\ tct[q].pid # 0 /\ tct[q].file # "wanted"
          /\ \A r \in Needed(tct[q].type) : Met(q, r)
      BY <2>1, Zenon DEF ReadySound
    <2>3. ASSUME NEW r, Met(q, r) PROVE Met(q, r)'
      BY <1>1, <2>1, <2>3, Zenon DEF Met
    <2> QED
      BY <2>1, <2>2, <2>3, Zenon
  <1> QED
    BY <1>2, Zenon DEF ReadySound

(* The slot is filled with a task that has a PID of its own.                *)
LEMMA StoreTaskKeeps ==
    ASSUME NEW c, Creators = {c}, IInv, StoreTask(c)
    PROVE  IInv'
  <1> DEFINE f == frame[c]
             rs == Requests(f.type)
             v == IF f.svc = "loadprc" THEN "wanted" ELSE "none"
  <1>1. /\ TypeInv /\ PidInv /\ MemInv /\ LinkInv /\ ReadySound
        /\ FramePid(frame[c]) /\ FrameMem(frame[c]) /\ FrameTask(frame[c])
    BY Parts
  <1>2. /\ f.at = "store"
        /\ tct' = [tct EXCEPT ![f.slot] = NewTask(f)]
        /\ \/ Moved(c, "idle", "none", NoType, 0, 0, <<>>, NONE, NONE)
           \/ Moved(c, "scan", f.svc, f.type, f.pid, f.slot, rs, f.cur, f.new)
        /\ UNCHANGED <<topspid, topupid, mmcbt, ready, halted>>
    BY <1>1, StoreTaskStep, Zenon
  <1>3. /\ mmcbt' = mmcbt /\ ready' = ready /\ topspid' = topspid /\ topupid' = topupid
    BY <1>2
  <1>4. /\ tct' \in [Slots -> Task]
        /\ Holds(f.slot, f.pid, f.type, NoPars, v)
        /\ \A s \in Slots : s # f.slot => tct'[s] = tct[s]
    <2>1. c \in Creators
      OBVIOUS
    <2> QED
      BY <1>1, <1>2, <2>1, NewTaskStored, Zenon
  <1>5. /\ f.slot \in Slots /\ f.pid \in Nat /\ f.type \in TaskType
        /\ ready \subseteq Slots
    BY <1>1, FrameTypes DEF TypeInv
  <1>6. /\ Given(f.pid) /\ \A s \in Slots : tct[s].pid # f.pid
        /\ f.slot # 0 /\ tct[f.slot].pid = 0
    BY <1>1, <1>2 DEF FramePid
  <1>7. f.pid # 0
    BY <1>5, <1>6, Constants DEF Given
  <1>8. f.slot \notin ready
    BY <1>1, <1>6 DEF ReadySound
  <1>9. tct'[f.slot].pid = f.pid /\ tct'[f.slot].type = f.type /\ tct'[f.slot].file = v
    BY <1>4 DEF Holds
  <1>10. /\ frame' \in [Creators -> Frames]
         /\ \/ frame'[c].at = "idle"
            \/ /\ frame'[c].at = "scan" /\ frame'[c].svc = f.svc
               /\ frame'[c].type = f.type /\ frame'[c].pid = f.pid
               /\ frame'[c].slot = f.slot /\ frame'[c].todo = rs
    BY <1>2 DEF Moved
  <1> HIDE DEF f, rs, v
  <1>11. TypeInv'
    BY <1>1, <1>3, <1>4, <1>10 DEF TypeInv
  <1>12. PidInv'
    <2>1. tct'[0].pid = 1
      BY <1>1, <1>4, <1>6, Constants DEF PidInv
    <2>2. \A s \in Slots : tct'[s].pid = 0 \/ Given(tct[s].pid)'
      BY <1>1, <1>3, <1>4, <1>6, <1>9 DEF PidInv, Given
    <2>3. PidsUnique'
      <3>1. ASSUME NEW s \in Slots, NEW r \in Slots, s # r, tct'[s].pid # 0
            PROVE  tct'[s].pid # tct'[r].pid
        <4>1. CASE s = f.slot
          BY <1>4, <1>6, <1>9, <3>1, <4>1
        <4>2. CASE r = f.slot
          BY <1>4, <1>6, <1>9, <3>1, <4>2
        <4>3. CASE s # f.slot /\ r # f.slot
          BY <1>1, <1>4, <3>1, <4>3 DEF PidInv, PidsUnique
        <4> QED
          BY <4>1, <4>2, <4>3
      <3> QED
        BY <3>1 DEF PidsUnique
    <2> QED
      BY <2>1, <2>2, <2>3, Zenon DEF PidInv
  <1>13. MemInv' /\ LinkInv'
    BY <1>1, <1>3, MemoryAlone
  <1>14. ReadySound'
    BY <1>1, <1>3, <1>4, <1>5, <1>8, ReadyElsewhere
  <1>15. FramePid(frame[c])'
    <2>1. CASE frame'[c].at = "idle"
      BY <2>1 DEF FramePid, Building, Asking
    <2>2. CASE frame'[c].at = "scan"
      BY <1>6, <1>7, <1>9, <1>10, <2>2 DEF FramePid, Building, Asking
    <2> QED
      BY <1>10, <2>1, <2>2
  <1>16. FrameMem(frame[c])'
    BY <1>1, <1>2, <1>3, <1>10, FrameMemAlone DEF Found, Asking, f
  <1>17. OwnersKnown(frame[c])'
    <2>1. TaskEntries' = TaskEntries
      BY <1>3, MemoryAlone
    <2>2. f.at \notin Building /\ OwnersKnown(f)
      BY <1>1, <1>2 DEF Building, Asking, FrameTask, f
    <2>3. ASSUME NEW e \in TaskEntries
          PROVE  \E s \in Slots : s # 0 /\ mmcbt'[e].owner = tct'[s].pid /\ s \in ready'
      <3>1. PICK s \in Slots : s # 0 /\ mmcbt[e].owner = tct[s].pid /\ s \in ready
        BY <2>2, Zenon DEF OwnersKnown
      <3>2. tct'[s] = tct[s]
        BY <1>4, <1>8, <3>1
      <3> QED
        BY <1>3, <3>1, <3>2
    <2> QED
      BY <2>1, <2>3, Zenon DEF OwnersKnown
  <1>18. FrameTask(frame[c])'
    <2>1. CASE frame'[c].at = "idle"
      BY <1>17, <2>1 DEF FrameTask, Building, Asking
    <2>2. CASE frame'[c].at = "scan"
      <3>1. /\ rs \in Seq(Request) /\ rs # <<>> /\ Els(rs) = Wanted(f.type)
            /\ f.type.kind = "DRV" => rs[Len(rs)] = Buffer
        BY <1>5, RequestsOf DEF rs
      <3>2. \A r \in Needed(f.type) : r \in Els(rs)
        BY <3>1 DEF Needed
      <3>3. v = "wanted" => f.svc = "loadprc"
        BY DEF v
      <3>4. f.slot \notin ready'
        BY <1>3, <1>8
      <3>5. /\ frame'[c].at = "scan" /\ frame'[c].svc = f.svc
            /\ frame'[c].type = f.type /\ frame'[c].slot = f.slot /\ frame'[c].todo = rs
        BY <1>10, <2>2
      <3>6. /\ frame'[c].slot \notin ready'
            /\ tct'[frame'[c].slot].type = frame'[c].type
            /\ tct'[frame'[c].slot].file = "wanted" =>
                  frame'[c].svc = "loadprc" /\ frame'[c].at # "enqueue"
            /\ Els(frame'[c].todo) \subseteq Wanted(frame'[c].type)
            /\ \A r \in Needed(frame'[c].type) : r \in Els(frame'[c].todo)
            /\ frame'[c].todo # <<>>
            /\ frame'[c].type.kind = "DRV" => frame'[c].todo[Len(frame'[c].todo)] = Buffer
        BY <1>9, <3>1, <3>2, <3>3, <3>4, <3>5
      <3>7. frame'[c].at \notin {"copy", "enqueue", "map"}
        BY <2>2
      <3> QED
        BY <1>17, <3>6, <3>7, Zenon DEF FrameTask
    <2> QED
      BY <1>10, <2>1, <2>2
  <1> QED
    BY <1>11, <1>12, <1>13, <1>14, <1>15, <1>16, <1>18, Whole

-----------------------------------------------------------------------------
(* muxx_mem_getblock.  Until Own, no chunk appears and none changes.        *)
ChunksStay ==
    /\ tct' = tct /\ ready' = ready
    /\ TaskEntries' = TaskEntries
    /\ \A e \in TaskEntries : mmcbt'[e] = mmcbt[e]

(* The creator goes on with the request at hand.                            *)
GoesOn(c) ==
    /\ frame[c].at \in Asking /\ frame'[c].at \in Asking
    /\ frame'[c].svc = frame[c].svc /\ frame'[c].type = frame[c].type
    /\ frame'[c].pid = frame[c].pid /\ frame'[c].slot = frame[c].slot
    /\ frame'[c].todo = frame[c].todo

LEMMA ReadyStay ==
    ASSUME ChunksStay, ReadySound
    PROVE  ReadySound'
  <1>1. ASSUME NEW q \in ready, NEW r, Met(q, r) PROVE Met(q, r)'
    BY <1>1, Zenon DEF Met, ChunksStay
  <1> QED
    BY <1>1, Zenon DEF ReadySound, ChunksStay

LEMMA PidStay ==
    ASSUME NEW c, GoesOn(c), tct' = tct, FramePid(frame[c])
    PROVE  FramePid(frame[c])'
  <1>1. frame[c].at \in Building
    BY DEF GoesOn, Building
  <1>2. frame[c].slot # 0 /\ tct[frame[c].slot].pid = frame[c].pid /\ frame[c].pid # 0
    BY <1>1, Zenon DEF FramePid
  <1>3. frame'[c].at \notin {"bump", "slot", "store"}
    BY DEF GoesOn, Asking
  <1> QED
    BY <1>2, <1>3 DEF GoesOn, FramePid

LEMMA TaskStay ==
    ASSUME NEW c, GoesOn(c), frame'[c].at # "map", ChunksStay, FrameTask(frame[c])
    PROVE  FrameTask(frame[c])'
  <1> DEFINE f == frame[c]
  <1>1. f.at \in Building /\ f.at \in Asking /\ frame'[c].at \in Building
    BY DEF GoesOn, Building
  <1>2. /\ f.slot \notin ready
        /\ tct[f.slot].type = f.type
        /\ tct[f.slot].file = "wanted" => f.svc = "loadprc"
        /\ Els(f.todo) \subseteq Wanted(f.type)
        /\ \A r \in Needed(f.type) : r \in Els(f.todo) \/ Met(f.slot, r)
        /\ f.todo # <<>>
        /\ f.type.kind = "DRV" => f.todo[Len(f.todo)] = Buffer
        /\ OwnersKnown(f)
    BY <1>1, Zenon DEF FrameTask
  <1>3. OwnersKnown(frame[c])'
    <2>1. ASSUME NEW e \in TaskEntries
          PROVE  \E s \in Slots : /\ s # 0 /\ mmcbt'[e].owner = tct'[s].pid
                                  /\ s \in ready' \/ s = frame'[c].slot
      <3>1. PICK s \in Slots : /\ s # 0 /\ mmcbt[e].owner = tct[s].pid
                               /\ s \in ready \/ s = f.slot
        BY <1>2, Zenon DEF OwnersKnown
      <3> QED
        BY <3>1 DEF ChunksStay, GoesOn
    <2> QED
      BY <1>1, <2>1, Zenon DEF OwnersKnown, ChunksStay
  <1>4. frame'[c].at \notin {"copy", "enqueue", "map"}
    BY DEF GoesOn, Asking
  <1>5. tct' = tct /\ ready' = ready
    BY DEF ChunksStay
  <1>6. /\ frame'[c].svc = f.svc /\ frame'[c].type = f.type
        /\ frame'[c].slot = f.slot /\ frame'[c].todo = f.todo
    BY DEF GoesOn
  <1>7. /\ frame'[c].slot \notin ready'
        /\ tct'[frame'[c].slot].type = frame'[c].type
        /\ tct'[frame'[c].slot].file = "wanted" =>
              frame'[c].svc = "loadprc" /\ frame'[c].at # "enqueue"
        /\ Els(frame'[c].todo) \subseteq Wanted(frame'[c].type)
        /\ frame'[c].todo # <<>>
        /\ frame'[c].type.kind = "DRV" => frame'[c].todo[Len(frame'[c].todo)] = Buffer
    BY <1>2, <1>4, <1>5, <1>6
  <1>8. \A r \in Needed(frame'[c].type) : r \in Els(frame'[c].todo) \/ Met(frame[c].slot, r)'
    <2> SUFFICES ASSUME NEW r \in Needed(frame'[c].type), r \notin Els(frame'[c].todo)
                 PROVE  Met(frame[c].slot, r)'
      OBVIOUS
    <2>1. Met(f.slot, r)
      BY <1>2, <1>6, Zenon
    <2> HIDE DEF f
    <2>2. \E e \in TaskEntries : /\ mmcbt[e].owner = tct[f.slot].pid
                                 /\ mmcbt[e].par = r.page
                                 /\ mmcbt[e].size = r.n
                                 /\ mmcbt[e].addr = tct[f.slot].par[r.map] + r.off
      BY <2>1, Zenon DEF Met
    <2>3. \E e \in TaskEntries' : /\ mmcbt'[e].owner = tct'[frame'[c].slot].pid
                                  /\ mmcbt'[e].par = r.page
                                  /\ mmcbt'[e].size = r.n
                                  /\ mmcbt'[e].addr = tct'[frame'[c].slot].par[r.map] + r.off
      BY <1>5, <1>6, <2>2 DEF ChunksStay
    <2> QED
      BY <2>3, Zenon DEF Met
  <1> QED
    BY <1>3, <1>4, <1>7, <1>8, Zenon DEF FrameTask

(* A step that finds the way to the free entry or to an unused one.         *)
LEMMA SearchKeeps ==
    ASSUME NEW c, Creators = {c}, IInv,
           UNCHANGED <<topspid, topupid, tct, mmcbt, ready>>,
           frame' \in [Creators -> Frames],
           GoesOn(c), frame'[c].at # "map", FrameMem(frame[c])'
    PROVE  IInv'
  <1>1. /\ TypeInv /\ PidInv /\ MemInv /\ LinkInv /\ ReadySound
        /\ FramePid(frame[c]) /\ FrameMem(frame[c]) /\ FrameTask(frame[c])
    BY Parts
  <1>2. /\ topspid' = topspid /\ topupid' = topupid /\ tct' = tct /\ mmcbt' = mmcbt
        /\ ready' = ready
    OBVIOUS
  <1>3. TypeInv'
    BY <1>1, <1>2 DEF TypeInv
  <1>4. PidInv' /\ MemInv' /\ LinkInv' /\ ReadySound'
    BY <1>1, <1>2, PidsAlone, MemoryAlone, ReadyAlone
  <1>5. ChunksStay
    BY <1>2, MemoryAlone DEF ChunksStay
  <1>6. FramePid(frame[c])' /\ FrameTask(frame[c])'
    BY <1>1, <1>2, <1>5, PidStay, TaskStay
  <1> QED
    BY <1>3, <1>4, <1>6, Whole

LEMMA ScanKeeps ==
    ASSUME NEW c, Creators = {c}, IInv, Scan(c)
    PROVE  IInv'
  <1> DEFINE f == frame[c]
  <1>1. /\ TypeInv /\ PidInv /\ MemInv /\ LinkInv /\ ReadySound
        /\ FramePid(frame[c]) /\ FrameMem(frame[c]) /\ FrameTask(frame[c])
    BY Parts
  <1>2. /\ f.at = "scan"
        /\ \/ UNCHANGED frame
           \/ /\ TaskEntries = {}
              /\ Moved(c, "idle", "none", NoType, 0, 0, <<>>, NONE, NONE)
           \/ /\ Head(f.todo).n <= mmcbt[Free].size
              /\ Moved(c, "find", f.svc, f.type, f.pid, f.slot, f.todo, Free, f.new)
        /\ UNCHANGED <<topspid, topupid, tct, mmcbt, ready>>
    BY <1>1, ScanStep, Zenon
  <1>3. /\ topspid' = topspid /\ topupid' = topupid /\ tct' = tct /\ mmcbt' = mmcbt
        /\ ready' = ready /\ frame \in [Creators -> Frames]
    BY <1>1, <1>2 DEF TypeInv
  <1>4. Top(Free) = End /\ Covered(mmcbt[Free].addr)
    BY <1>1, <1>2 DEF FrameMem
  <1>5. (Top(Free) = End)' /\ Covered(mmcbt[Free].addr)'
    BY <1>3, <1>4, CoveredAlone DEF Top, End
  <1>6. CASE UNCHANGED frame
    <2>1. frame'[c] = f
      BY <1>6
    <2>2. GoesOn(c) /\ frame'[c].at # "map" /\ frame'[c].at \notin Found
      BY <1>2, <2>1 DEF GoesOn, Asking, Found
    <2>3. FrameMem(frame[c])'
      BY <1>1, <1>2, <1>3, <2>2, FrameMemAlone
    <2> QED
      BY <1>2, <1>3, <1>6, <2>2, <2>3, SearchKeeps
  <1>7. CASE /\ TaskEntries = {}
             /\ Moved(c, "idle", "none", NoType, 0, 0, <<>>, NONE, NONE)
    <2>1. frame'[c].at = "idle" /\ frame' \in [Creators -> Frames]
      BY <1>7 DEF Moved
    <2>2. TypeInv'
      BY <1>1, <1>3, <2>1 DEF TypeInv
    <2>3. PidInv' /\ MemInv' /\ LinkInv' /\ ReadySound' /\ TaskEntries' = {}
      BY <1>1, <1>3, <1>7, PidsAlone, MemoryAlone, ReadyAlone
    <2>4. FramePid(frame[c])'
      BY <2>1 DEF FramePid, Building, Asking
    <2>5. FrameMem(frame[c])'
      BY <1>1, <1>2, <1>3, <2>1, FrameMemAlone DEF Found, Asking
    <2>6. OwnersKnown(frame[c])'
      BY <2>3, Zenon DEF OwnersKnown
    <2>7. FrameTask(frame[c])'
      BY <2>1, <2>6 DEF FrameTask, Building, Asking
    <2> QED
      BY <2>2, <2>3, <2>4, <2>5, <2>7, Whole
  <1>8. CASE /\ Head(f.todo).n <= mmcbt[Free].size
             /\ Moved(c, "find", f.svc, f.type, f.pid, f.slot, f.todo, Free, f.new)
    <2>1. /\ frame'[c].at = "find" /\ frame'[c].cur = Free /\ frame'[c].todo = f.todo
          /\ frame' \in [Creators -> Frames]
      BY <1>8 DEF Moved
    <2>2. GoesOn(c) /\ frame'[c].at # "map"
      BY <1>2, <1>8 DEF GoesOn, Asking, Moved
    <2>3. Head(frame'[c].todo).n <= mmcbt'[Free].size
      BY <1>3, <1>8, <2>1
    <2>4. FrameMem(frame[c])'
      BY <1>5, <2>1, <2>3 DEF FrameMem
    <2> QED
      BY <1>2, <2>1, <2>2, <2>4, SearchKeeps
  <1> QED
    BY <1>2, <1>6, <1>7, <1>8

LEMMA FindFreeKeeps ==
    ASSUME NEW c, Creators = {c}, IInv, findFreeMMCB(c)
    PROVE  IInv'
  <1> DEFINE f == frame[c]
  <1>1. /\ TypeInv /\ PidInv /\ MemInv /\ LinkInv /\ ReadySound
        /\ FramePid(frame[c]) /\ FrameMem(frame[c]) /\ FrameTask(frame[c])
    BY Parts
  <1>2. /\ f.at = "find"
        /\ \/ UNCHANGED frame
           \/ \E e \in Entries :
                /\ e > 5 /\ mmcbt[e].owner = NONE
                /\ Moved(c, "carve", f.svc, f.type, f.pid, f.slot, f.todo, f.cur, e)
        /\ UNCHANGED <<topspid, topupid, tct, mmcbt, ready>>
    BY <1>1, FindFreeStep, Zenon
  <1>3. mmcbt' = mmcbt /\ frame \in [Creators -> Frames]
    BY <1>1, <1>2 DEF TypeInv
  <1>4. /\ Top(Free) = End /\ Covered(mmcbt[Free].addr)
        /\ f.cur = Free /\ Head(f.todo).n <= mmcbt[Free].size
    BY <1>1, <1>2 DEF FrameMem, Found, Asking
  <1>5. (Top(Free) = End)' /\ Covered(mmcbt[Free].addr)'
    BY <1>3, <1>4, CoveredAlone DEF Top, End
  <1>6. CASE UNCHANGED frame
    <2>1. frame'[c] = f
      BY <1>6
    <2>2. GoesOn(c) /\ frame'[c].at # "map"
      BY <1>2, <2>1 DEF GoesOn, Asking
    <2>3. FrameMem(frame[c])'
      BY <1>2, <1>3, <1>4, <1>5, <2>1 DEF FrameMem
    <2> QED
      BY <1>2, <1>3, <1>6, <2>2, <2>3, SearchKeeps
  <1>7. ASSUME NEW e \in Entries, e > 5, mmcbt[e].owner = NONE,
               Moved(c, "carve", f.svc, f.type, f.pid, f.slot, f.todo, f.cur, e)
        PROVE  IInv'
    <2>1. /\ frame'[c].at = "carve" /\ frame'[c].cur = f.cur /\ frame'[c].todo = f.todo
          /\ frame'[c].new = e
          /\ frame' \in [Creators -> Frames]
      BY <1>7 DEF Moved
    <2>2. GoesOn(c) /\ frame'[c].at # "map"
      BY <1>2, <1>7 DEF GoesOn, Asking, Moved
    <2>3. FrameMem(frame[c])'
      BY <1>3, <1>4, <1>5, <1>7, <2>1 DEF FrameMem
    <2> QED
      BY <1>2, <2>1, <2>2, <2>3, SearchKeeps
  <1> QED
    BY <1>2, <1>6, <1>7, Zenon

(* The chunk leaves the free entry at its end.                              *)
LEMMA CarveKeeps ==
    ASSUME NEW c, Creators = {c}, IInv, Carve(c)
    PROVE  IInv'
  <1> DEFINE f == frame[c]
             n == Head(f.todo).n
             w == f.new
  <1>1. /\ TypeInv /\ PidInv /\ MemInv /\ LinkInv /\ ReadySound
        /\ FramePid(frame[c]) /\ FrameMem(frame[c]) /\ FrameTask(frame[c])
    BY Parts
  <1>2. f.at = "carve"
    BY Zenon DEF Carve, At
  <1>3. f.todo # <<>>
    BY <1>1, <1>2 DEF FrameTask, Asking
  <1>4. /\ w \in Entries /\ w # Free /\ n \in Nat
        /\ mmcbt' \in [Entries -> MMCB]
        /\ Now(Free, mmcbt[Free].addr, mmcbt[Free].size - n, mmcbt[Free].owner,
               mmcbt[Free].par, mmcbt[Free].next)
        /\ Now(w, mmcbt[Free].addr, n, mmcbt[w].owner, mmcbt[w].par, mmcbt[w].next)
        /\ \A e \in Entries \ {Free, w} : mmcbt'[e] = mmcbt[e]
        /\ Moved(c, "advance", f.svc, f.type, f.pid, f.slot, f.todo, f.cur, w)
        /\ UNCHANGED <<topspid, topupid, tct, ready, halted>>
    BY <1>1, <1>3, CarveStep, Zenon
  <1>5. /\ f.cur = Free /\ w > 5 /\ mmcbt[w].owner = NONE
        /\ Top(Free) = End /\ Covered(mmcbt[Free].addr)
    BY <1>1, <1>2 DEF FrameMem, Found, Asking
  <1>6. /\ topspid' = topspid /\ topupid' = topupid /\ tct' = tct /\ ready' = ready
        /\ frame' \in [Creators -> Frames] /\ frame'[c].at = "advance"
        /\ frame'[c].cur = f.cur /\ frame'[c].new = w /\ frame'[c].todo = f.todo
        /\ GoesOn(c) /\ frame'[c].at # "map"
    BY <1>2, <1>4 DEF Moved, GoesOn, Asking
  <1>7. /\ mmcbt'[Free].addr = mmcbt[Free].addr
        /\ mmcbt'[Free].size = mmcbt[Free].size - n
        /\ mmcbt'[Free].owner = mmcbt[Free].owner /\ mmcbt'[Free].next = mmcbt[Free].next
        /\ mmcbt'[w].addr = mmcbt[Free].addr /\ mmcbt'[w].size = n
        /\ mmcbt'[w].owner = mmcbt[w].owner
    BY <1>4 DEF Now
  <1> HIDE DEF f, n, w
  <1>8. /\ mmcbt[Free].addr \in Nat /\ mmcbt[Free].size \in Nat
        /\ Free \in Entries /\ 0 .. 5 \subseteq Entries /\ 0 .. 3 \subseteq Entries
    BY <1>1, EntryTypes, Constants DEF Entries
  <1>9. \A e \in Entries : mmcbt'[e].owner = mmcbt[e].owner
    BY <1>4, <1>7
  <1>10. /\ TaskEntries' = TaskEntries
         /\ \A e \in TaskEntries : e \in Entries /\ e # Free /\ e # w /\ mmcbt'[e] = mmcbt[e]
    <2>1. TaskEntries' = TaskEntries
      BY <1>9 DEF TaskEntries
    <2>2. \A e \in TaskEntries : e \in Entries /\ e # Free /\ e # w
      BY <1>5, Constants DEF TaskEntries
    <2> QED
      BY <1>4, <2>1, <2>2
  <1>11. ChunksStay
    BY <1>6, <1>10 DEF ChunksStay
  <1>12. \A e \in 0 .. 3 : e \in Entries /\ e # Free /\ e # w /\ mmcbt'[e] = mmcbt[e]
    BY <1>4, <1>5, <1>8, Constants
  <1>13. TypeInv'
    BY <1>1, <1>4, <1>6 DEF TypeInv
  <1>14. PidInv'
    BY <1>1, <1>6, PidsAlone
  <1>15. MemInv'
    <2>1. \A e \in Entries : mmcbt'[e].owner = 0 <=> e = Free
      BY <1>1, <1>9 DEF MemInv
    <2>2. \A e \in 0 .. 5 : mmcbt'[e].owner # NONE
      BY <1>1, <1>8, <1>9 DEF MemInv
    <2>3. \A e \in 0 .. 3 : Top(e)' <= FreeAddr
      BY <1>1, <1>12 DEF MemInv, Top
    <2>4. FreeAddr <= mmcbt'[Free].addr
      BY <1>1, <1>7 DEF MemInv
    <2>5. \A e \in TaskEntries :
              FreeAddr <= mmcbt'[e].addr /\ Top(e)' <= mmcbt'[Free].addr
      BY <1>1, <1>7, <1>10 DEF MemInv, Top
    <2>6. \A e, d \in TaskEntries :
              e # d => Top(e)' <= mmcbt'[d].addr \/ Top(d)' <= mmcbt'[e].addr
      BY <1>1, <1>10 DEF MemInv, Top
    <2> QED
      BY <1>10, <2>1, <2>2, <2>3, <2>4, <2>5, <2>6, Zenon DEF MemInv
  <1>16. LinkInv'
    BY <1>1, <1>7, <1>10, <1>12 DEF LinkInv
  <1>17. ReadySound'
    BY <1>1, <1>11, ReadyStay
  <1>18. FramePid(frame[c])' /\ FrameTask(frame[c])'
    BY <1>1, <1>6, <1>11, PidStay, TaskStay
  <1>19. Covered(mmcbt[Free].addr)'
    <2>1. \A e \in TaskEntries : Blocks(e)' = Blocks(e)
      BY <1>10 DEF Blocks
    <2> QED
      BY <1>5, <1>7, <1>10, <2>1 DEF Covered
  <1>20. FrameMem(frame[c])'
    <2>1. (Top(Free))' + n = End
      BY <1>4, <1>5, <1>7, <1>8, Constants DEF Top, End
    <2>2. Head(frame'[c].todo).n = n
      BY <1>6 DEF n
    <2>3. /\ frame'[c].at = "advance" /\ frame'[c].cur = Free /\ frame'[c].new = w
          /\ w \in Entries /\ w > 5 /\ mmcbt'[w].owner = NONE
          /\ mmcbt'[w].addr = mmcbt'[Free].addr /\ mmcbt'[w].size = n
      BY <1>4, <1>5, <1>6, <1>7
    <2> QED
      BY <1>19, <2>1, <2>2, <2>3 DEF FrameMem, End
  <1> QED
    BY <1>13, <1>14, <1>15, <1>16, <1>17, <1>18, <1>20, Whole

(* The free entry moves up behind the chunk.                                *)
LEMMA AdvanceKeeps ==
    ASSUME NEW c, Creators = {c}, IInv, Advance(c)
    PROVE  IInv'
  <1> DEFINE f == frame[c]
             n == Head(f.todo).n
             w == f.new
  <1>1. /\ TypeInv /\ PidInv /\ MemInv /\ LinkInv /\ ReadySound
        /\ FramePid(frame[c]) /\ FrameMem(frame[c]) /\ FrameTask(frame[c])
    BY Parts
  <1>2. f.at = "advance"
    BY Zenon DEF Advance, At
  <1>3. f.todo # <<>>
    BY <1>1, <1>2 DEF FrameTask, Asking
  <1>4. /\ n \in Nat
        /\ mmcbt' \in [Entries -> MMCB]
        /\ Now(Free, mmcbt[Free].addr + n, mmcbt[Free].size, mmcbt[Free].owner,
               mmcbt[Free].par, mmcbt[Free].next)
        /\ \A e \in Entries \ {Free} : mmcbt'[e] = mmcbt[e]
        /\ Moved(c, "own", f.svc, f.type, f.pid, f.slot, f.todo, f.cur, w)
        /\ UNCHANGED <<topspid, topupid, tct, ready, halted>>
    BY <1>1, <1>3, AdvanceStep, Zenon
  <1>5. /\ f.cur = Free /\ w \in Entries /\ w > 5 /\ mmcbt[w].owner = NONE
        /\ Top(Free) + n = End /\ Covered(mmcbt[Free].addr)
        /\ mmcbt[w].addr = mmcbt[Free].addr /\ mmcbt[w].size = n
    BY <1>1, <1>2 DEF FrameMem, Found, Asking
  <1>6. /\ topspid' = topspid /\ topupid' = topupid /\ tct' = tct /\ ready' = ready
        /\ frame' \in [Creators -> Frames] /\ frame'[c].at = "own"
        /\ frame'[c].cur = f.cur /\ frame'[c].new = w /\ frame'[c].todo = f.todo
        /\ GoesOn(c) /\ frame'[c].at # "map"
    BY <1>2, <1>4 DEF Moved, GoesOn, Asking
  <1>7. /\ mmcbt'[Free].addr = mmcbt[Free].addr + n
        /\ mmcbt'[Free].size = mmcbt[Free].size
        /\ mmcbt'[Free].owner = mmcbt[Free].owner /\ mmcbt'[Free].next = mmcbt[Free].next
    BY <1>4 DEF Now
  <1> HIDE DEF f, n, w
  <1>8. /\ mmcbt[Free].addr \in Nat /\ mmcbt[Free].size \in Nat
        /\ Free \in Entries /\ 0 .. 5 \subseteq Entries /\ 0 .. 3 \subseteq Entries
    BY <1>1, EntryTypes, Constants DEF Entries
  <1>9. \A e \in Entries : mmcbt'[e].owner = mmcbt[e].owner
    BY <1>4, <1>7
  <1>10. /\ TaskEntries' = TaskEntries
         /\ \A e \in TaskEntries : e \in Entries /\ e # Free /\ mmcbt'[e] = mmcbt[e]
    <2>1. TaskEntries' = TaskEntries
      BY <1>9 DEF TaskEntries
    <2>2. \A e \in TaskEntries : e \in Entries /\ e # Free
      BY Constants DEF TaskEntries
    <2> QED
      BY <1>4, <2>1, <2>2
  <1>11. ChunksStay
    BY <1>6, <1>10 DEF ChunksStay
  <1>12. \A e \in 0 .. 3 : e \in Entries /\ e # Free /\ mmcbt'[e] = mmcbt[e]
    BY <1>4, <1>8, Constants
  <1>13. TypeInv'
    BY <1>1, <1>4, <1>6 DEF TypeInv
  <1>14. PidInv'
    BY <1>1, <1>6, PidsAlone
  <1>15. \A e \in TaskEntries : /\ mmcbt[e].addr \in Nat /\ mmcbt[e].size \in Nat
                                /\ FreeAddr <= mmcbt[e].addr
                                /\ Top(e) <= mmcbt[Free].addr
    BY <1>1, <1>10, EntryTypes DEF MemInv
  <1>16. MemInv'
    <2>1. \A e \in Entries : mmcbt'[e].owner = 0 <=> e = Free
      BY <1>1, <1>9 DEF MemInv
    <2>2. \A e \in 0 .. 5 : mmcbt'[e].owner # NONE
      BY <1>1, <1>8, <1>9 DEF MemInv
    <2>3. \A e \in 0 .. 3 : Top(e)' <= FreeAddr
      BY <1>1, <1>12 DEF MemInv, Top
    <2>4. FreeAddr <= mmcbt'[Free].addr
      BY <1>1, <1>4, <1>7, <1>8, Constants DEF MemInv
    <2>5. \A e \in TaskEntries :
              FreeAddr <= mmcbt'[e].addr /\ Top(e)' <= mmcbt'[Free].addr
      BY <1>4, <1>7, <1>8, <1>10, <1>15 DEF Top
    <2>6. \A e, d \in TaskEntries :
              e # d => Top(e)' <= mmcbt'[d].addr \/ Top(d)' <= mmcbt'[e].addr
      BY <1>1, <1>10 DEF MemInv, Top
    <2> QED
      BY <1>10, <2>1, <2>2, <2>3, <2>4, <2>5, <2>6, Zenon DEF MemInv
  <1>17. LinkInv'
    BY <1>1, <1>7, <1>10, <1>12 DEF LinkInv
  <1>18. ReadySound'
    BY <1>1, <1>11, ReadyStay
  <1>19. FramePid(frame[c])' /\ FrameTask(frame[c])'
    BY <1>1, <1>6, <1>11, PidStay, TaskStay
  <1>20. w # Free /\ mmcbt'[w] = mmcbt[w]
    BY <1>4, <1>5, Constants
  <1>21. \A x \in FreeAddr .. mmcbt'[w].addr - 1 : \E e \in TaskEntries' : x \in Blocks(e)'
    <2>1. \A e \in TaskEntries : Blocks(e)' = Blocks(e)
      BY <1>10 DEF Blocks
    <2>2. \A x \in FreeAddr .. mmcbt[w].addr - 1 : \E e \in TaskEntries : x \in Blocks(e)
      BY <1>5 DEF Covered
    <2> QED
      BY <1>10, <1>20, <2>1, <2>2
  <1>22. FrameMem(frame[c])'
    <2>1. (Top(Free))' = End
      BY <1>4, <1>5, <1>7, <1>8, Constants DEF Top, End
    <2>2. Head(frame'[c].todo).n = n
      BY <1>6 DEF n
    <2>3. FreeAddr <= mmcbt'[w].addr
      BY <1>1, <1>5, <1>20 DEF MemInv
    <2>4. mmcbt'[w].addr + mmcbt'[w].size = mmcbt'[Free].addr /\ mmcbt'[w].size = n
      BY <1>5, <1>7, <1>20
    <2>5. \A e \in TaskEntries' : Top(e)' <= mmcbt'[w].addr
      BY <1>5, <1>10, <1>15, <1>20 DEF Top
    <2>6. w \in Entries /\ w > 5 /\ mmcbt'[w].owner = NONE
      BY <1>5, <1>20
    <2>7. frame'[c].new = w /\ frame'[c].at = "own" /\ frame'[c].cur = Free
      BY <1>5, <1>6
    <2>8. Covered(mmcbt[frame[c].new].addr)'
      BY <1>21, <2>7 DEF Covered
    <2>9. /\ mmcbt'[frame'[c].new].size = Head(frame'[c].todo).n
          /\ FreeAddr <= mmcbt'[frame'[c].new].addr
          /\ Top(frame[c].new)' = mmcbt'[Free].addr
          /\ \A e \in TaskEntries' : Top(e)' <= mmcbt'[frame'[c].new].addr
          /\ frame'[c].new \in Entries /\ frame'[c].new > 5
          /\ mmcbt'[frame'[c].new].owner = NONE
      BY <2>2, <2>3, <2>4, <2>5, <2>6, <2>7 DEF Top
    <2> QED
      BY <2>1, <2>7, <2>8, <2>9 DEF FrameMem, End
  <1> QED
    BY <1>13, <1>14, <1>16, <1>17, <1>18, <1>19, <1>22, Whole

(* The chunk becomes one of the task's.                                     *)
LEMMA OwnKeeps ==
    ASSUME NEW c, Creators = {c}, IInv, Own(c)
    PROVE  IInv'
  <1> DEFINE f == frame[c]
             w == f.new
             p == tct[f.slot].pid
  <1>1. /\ TypeInv /\ PidInv /\ MemInv /\ LinkInv /\ ReadySound
        /\ FramePid(frame[c]) /\ FrameMem(frame[c]) /\ FrameTask(frame[c])
    BY Parts
  <1>2. f.at = "own"
    BY Zenon DEF Own, At
  <1>3. /\ f.todo # <<>> /\ f.slot \notin ready
        /\ tct[f.slot].type = f.type
        /\ tct[f.slot].file = "wanted" => f.svc = "loadprc"
        /\ Els(f.todo) \subseteq Wanted(f.type)
        /\ \A r \in Needed(f.type) : r \in Els(f.todo) \/ Met(f.slot, r)
        /\ f.type.kind = "DRV" => f.todo[Len(f.todo)] = Buffer
        /\ OwnersKnown(f) /\ f.at \in Building
    BY <1>1, <1>2 DEF FrameTask, Asking, Building
  <1>4. /\ w \in Entries /\ w # Free
        /\ mmcbt' \in [Entries -> MMCB]
        /\ Now(Free, mmcbt[Free].addr, mmcbt[Free].size, mmcbt[Free].owner,
               mmcbt[Free].par, w)
        /\ Now(w, mmcbt[w].addr, mmcbt[w].size, p, Head(f.todo).page, w)
        /\ \A e \in Entries \ {Free, w} : mmcbt'[e] = mmcbt[e]
        /\ Moved(c, "map", f.svc, f.type, f.pid, f.slot, f.todo, f.cur, w)
        /\ UNCHANGED <<topspid, topupid, tct, ready, halted>>
    BY <1>1, <1>3, OwnStep, Zenon
  <1>5. /\ f.cur = Free /\ w > 5 /\ mmcbt[w].owner = NONE
        /\ mmcbt[w].size = Head(f.todo).n
        /\ FreeAddr <= mmcbt[w].addr
        /\ mmcbt[w].addr + mmcbt[w].size = mmcbt[Free].addr
        /\ \A e \in TaskEntries : Top(e) <= mmcbt[w].addr
        /\ Covered(mmcbt[w].addr)
        /\ mmcbt[Free].addr + mmcbt[Free].size = End
    BY <1>1, <1>2 DEF FrameMem, Found, Asking, Top
  <1>6. /\ topspid' = topspid /\ topupid' = topupid /\ tct' = tct /\ ready' = ready
        /\ frame' \in [Creators -> Frames] /\ frame'[c].at = "map"
        /\ frame'[c].cur = f.cur /\ frame'[c].new = w /\ frame'[c].todo = f.todo
        /\ frame'[c].svc = f.svc /\ frame'[c].type = f.type
        /\ frame'[c].slot = f.slot /\ frame'[c].pid = f.pid
        /\ GoesOn(c)
    BY <1>2, <1>4 DEF Moved, GoesOn, Asking
  <1>7. /\ mmcbt'[Free].addr = mmcbt[Free].addr /\ mmcbt'[Free].size = mmcbt[Free].size
        /\ mmcbt'[Free].owner = mmcbt[Free].owner /\ mmcbt'[Free].next = w
        /\ mmcbt'[w].addr = mmcbt[w].addr /\ mmcbt'[w].size = mmcbt[w].size
        /\ mmcbt'[w].owner = p /\ mmcbt'[w].par = Head(f.todo).page
        /\ mmcbt'[w].next = w
    BY <1>4 DEF Now
  <1>8. p = f.pid /\ p # 0 /\ f.slot # 0 /\ f.slot \in Slots /\ p \in Nat
    BY <1>1, <1>3, FrameTypes DEF FramePid
  <1> HIDE DEF f, w, p
  <1>9. /\ mmcbt[Free].addr \in Nat /\ mmcbt[Free].size \in Nat
        /\ mmcbt[w].addr \in Nat /\ mmcbt[w].size \in Nat
        /\ Free \in Entries /\ 0 .. 5 \subseteq Entries /\ 0 .. 3 \subseteq Entries
        /\ p # NONE
    <2>1. Free \in Entries /\ 0 .. 5 \subseteq Entries /\ 0 .. 3 \subseteq Entries
      BY Constants DEF Entries
    <2>2. p # NONE
      BY <1>8, Constants
    <2> QED
      BY <1>1, <1>4, <2>1, <2>2, EntryTypes, Zenon
  <1>10. \A e \in TaskEntries : e \in Entries /\ e # Free /\ e # w /\ mmcbt'[e] = mmcbt[e]
    <2>1. \A e \in TaskEntries : e \in Entries /\ e # Free /\ e # w
      BY <1>5, Constants DEF TaskEntries
    <2> QED
      BY <1>4, <2>1
  <1>11. TaskEntries' = TaskEntries \cup {w}
    <2>1. \A e \in Entries : e # w => mmcbt'[e].owner = mmcbt[e].owner
      BY <1>4, <1>7
    <2>2. w \in TaskEntries'
      BY <1>4, <1>5, <1>7, <1>9 DEF TaskEntries
    <2>3. \A e \in Entries : e # w => (e \in TaskEntries' <=> e \in TaskEntries)
      BY <2>1 DEF TaskEntries
    <2>4. TaskEntries' \subseteq Entries /\ TaskEntries \subseteq Entries
      BY DEF TaskEntries
    <2> QED
      BY <2>2, <2>3, <2>4
  <1>12. \A e \in 0 .. 3 : e \in Entries /\ e # Free /\ e # w /\ mmcbt'[e] = mmcbt[e]
    BY <1>4, <1>5, <1>9, Constants
  <1>13. TypeInv'
    BY <1>1, <1>4, <1>6 DEF TypeInv
  <1>14. PidInv'
    BY <1>1, <1>6, PidsAlone
  <1>15. MemInv'
    <2>1. \A e \in Entries : mmcbt'[e].owner = 0 <=> e = Free
      BY <1>1, <1>4, <1>7, <1>8 DEF MemInv
    <2>2. \A e \in 0 .. 5 : mmcbt'[e].owner # NONE
      <3>1. \A e \in 0 .. 5 : e # w /\ e \in Entries
        BY <1>5, <1>9
      <3>2. \A e \in 0 .. 5 : mmcbt'[e].owner = mmcbt[e].owner
        BY <1>4, <1>7, <3>1
      <3> QED
        BY <1>1, <3>2 DEF MemInv
    <2>3. \A e \in 0 .. 3 : Top(e)' <= FreeAddr
      BY <1>1, <1>12 DEF MemInv, Top
    <2>4. FreeAddr <= mmcbt'[Free].addr
      BY <1>1, <1>7 DEF MemInv
    <2>5. \A e \in TaskEntries' :
              FreeAddr <= mmcbt'[e].addr /\ Top(e)' <= mmcbt'[Free].addr
      <3>1. ASSUME NEW e \in TaskEntries
            PROVE  FreeAddr <= mmcbt'[e].addr /\ Top(e)' <= mmcbt'[Free].addr
        BY <1>1, <1>7, <1>10 DEF MemInv, Top
      <3>2. FreeAddr <= mmcbt'[w].addr /\ mmcbt'[w].addr + mmcbt'[w].size <= mmcbt'[Free].addr
        BY <1>5, <1>7, <1>9
      <3> QED
        BY <1>11, <3>1, <3>2 DEF Top
    <2>6. \A e, d \in TaskEntries' :
              e # d => Top(e)' <= mmcbt'[d].addr \/ Top(d)' <= mmcbt'[e].addr
      <3>1. ASSUME NEW e \in TaskEntries, NEW d \in TaskEntries, e # d
            PROVE  Top(e)' <= mmcbt'[d].addr \/ Top(d)' <= mmcbt'[e].addr
        BY <1>1, <1>10, <3>1 DEF MemInv, Top
      <3>2. ASSUME NEW e \in TaskEntries PROVE Top(e)' <= mmcbt'[w].addr
        BY <1>5, <1>7, <1>10 DEF Top
      <3> QED
        BY <1>11, <3>1, <3>2
    <2> QED
      BY <2>1, <2>2, <2>3, <2>4, <2>5, <2>6, Zenon DEF MemInv
  <1>16. LinkInv'
    BY <1>1, <1>7, <1>11, <1>12 DEF LinkInv
  <1>17. \A s, r : Met(s, r) => \E e \in TaskEntries' :
                                    /\ mmcbt'[e].owner = tct'[s].pid
                                    /\ mmcbt'[e].par = r.page
                                    /\ mmcbt'[e].size = r.n
                                    /\ mmcbt'[e].addr = tct'[s].par[r.map] + r.off
    BY <1>6, <1>10, <1>11 DEF Met
  <1>18. ReadySound'
    <2>1. ASSUME NEW s \in ready', NEW r, Met(s, r) PROVE Met(s, r)'
      BY <1>17, <2>1, Zenon DEF Met
    <2> QED
      BY <1>1, <1>6, <2>1, Zenon DEF ReadySound
  <1>19. FramePid(frame[c])'
    BY <1>1, <1>6, PidStay
  <1>20. Covered(mmcbt[Free].addr)'
    <2>1. ASSUME NEW x \in FreeAddr .. mmcbt'[Free].addr - 1
          PROVE  \E e \in TaskEntries' : x \in Blocks(e)'
      <3>1. CASE x < mmcbt[w].addr
        <4>1. x \in FreeAddr .. mmcbt[w].addr - 1
          BY <1>9, <2>1, <3>1, Constants
        <4>2. PICK e \in TaskEntries : x \in Blocks(e)
          BY <1>5, <4>1 DEF Covered
        <4>3. x \in Blocks(e)' /\ e \in TaskEntries'
          BY <1>10, <1>11, <4>2 DEF Blocks
        <4> QED
          BY <4>3
      <3>2. CASE ~ (x < mmcbt[w].addr)
        <4>1. x \in mmcbt'[w].addr .. mmcbt'[w].addr + mmcbt'[w].size - 1
          BY <1>5, <1>7, <1>9, <2>1, <3>2, Constants
        <4> QED
          BY <1>11, <4>1 DEF Blocks
      <3> QED
        BY <3>1, <3>2
    <2> QED
      BY <2>1 DEF Covered
  <1>21. FrameMem(frame[c])'
    <2>1. (Top(Free) = End)' /\ frame'[c].at = "map" /\ frame'[c].cur = Free
      BY <1>5, <1>6, <1>7 DEF Top, End
    <2> QED
      BY <1>20, <2>1 DEF FrameMem, End
  <1>22. OwnersKnown(frame[c])'
    <2>1. frame'[c].at \in Building
      BY <1>6 DEF Building, Asking
    <2>2. ASSUME NEW e \in TaskEntries'
          PROVE  \E s \in Slots : /\ s # 0 /\ mmcbt'[e].owner = tct'[s].pid
                                  /\ s \in ready' \/ s = frame'[c].slot
      <3>1. CASE e = w
        BY <1>6, <1>7, <1>8, <3>1 DEF p
      <3>2. CASE e \in TaskEntries
        <4>1. PICK s \in Slots : /\ s # 0 /\ mmcbt[e].owner = tct[s].pid
                                 /\ s \in ready \/ s = f.slot
          BY <1>3, <3>2, Zenon DEF OwnersKnown
        <4> QED
          BY <1>6, <1>10, <3>2, <4>1
      <3> QED
        BY <1>11, <3>1, <3>2
    <2> QED
      BY <2>1, <2>2, Zenon DEF OwnersKnown
  <1>23. FrameTask(frame[c])'
    <2>1. \A r \in Needed(frame'[c].type) : r \in Els(frame'[c].todo) \/ Met(frame[c].slot, r)'
      <3> SUFFICES ASSUME NEW r \in Needed(frame'[c].type), r \notin Els(frame'[c].todo)
                   PROVE  Met(frame[c].slot, r)'
        OBVIOUS
      <3>1. Met(f.slot, r)
        BY <1>3, <1>6
      <3>2. \E e \in TaskEntries' : /\ mmcbt'[e].owner = tct'[frame'[c].slot].pid
                                    /\ mmcbt'[e].par = r.page
                                    /\ mmcbt'[e].size = r.n
                                    /\ mmcbt'[e].addr = tct'[frame'[c].slot].par[r.map] + r.off
        BY <1>6, <1>17, <3>1
      <3> QED
        BY <3>2, Zenon DEF Met
    <2>2. /\ frame'[c].slot \notin ready'
          /\ tct'[frame'[c].slot].type = frame'[c].type
          /\ tct'[frame'[c].slot].file = "wanted" =>
                frame'[c].svc = "loadprc" /\ frame'[c].at # "enqueue"
          /\ Els(frame'[c].todo) \subseteq Wanted(frame'[c].type)
          /\ frame'[c].todo # <<>>
          /\ frame'[c].type.kind = "DRV" => frame'[c].todo[Len(frame'[c].todo)] = Buffer
      BY <1>3, <1>6
    <2>3. /\ frame'[c].new \in TaskEntries'
          /\ mmcbt'[frame'[c].new].owner = frame'[c].pid
          /\ mmcbt'[frame'[c].new].par = Head(frame'[c].todo).page
          /\ mmcbt'[frame'[c].new].size = Head(frame'[c].todo).n
      BY <1>5, <1>6, <1>7, <1>8, <1>11
    <2>4. frame'[c].at \notin {"copy", "enqueue"}
      BY <1>6
    <2> QED
      BY <1>22, <2>1, <2>2, <2>3, <2>4, Zenon DEF FrameTask
  <1> QED
    BY <1>13, <1>14, <1>15, <1>16, <1>18, <1>19, <1>21, <1>23, Whole

-----------------------------------------------------------------------------
(* Back in muxx_setup_taskmem.  Two requests that load the same PAR are a   *)
(* driver's page 4 and its buffer, and the buffer is the one that counts.   *)
LEMMA SameMap ==
    ASSUME NEW ty \in TaskType, NEW r \in Wanted(ty), NEW q \in Needed(ty),
           r # q, r.map = q.map
    PROVE  ty.kind = "DRV" /\ q = Buffer
  <1>1. \A x \in Wanted(ty) : \/ x \in {Page(3), Page(4), Page(5), Stack}
                              \/ x = Buffer /\ ty.kind = "DRV"
    BY DEF Wanted
  <1>2. /\ Page(3).map = 3 /\ Page(4).map = 4 /\ Page(5).map = 5 /\ Stack.map = 6
        /\ Buffer.map = 4
    BY DEF Page, Stack, Buffer
  <1>3. q \in Wanted(ty) /\ (ty.kind = "DRV" => q # Page(4))
    BY DEF Needed
  <1> QED
    BY <1>1, <1>2, <1>3

(* A step that changes no PID.                                              *)
LEMMA PidsStay ==
    ASSUME \A s \in Slots : tct'[s].pid = tct[s].pid, topspid' = topspid,
           topupid' = topupid, PidInv
    PROVE  PidInv'
  <1>1. tct'[0].pid = 1
    BY Constants DEF PidInv
  <1>2. \A s \in Slots : tct'[s].pid = 0 \/ Given(tct[s].pid)'
    BY DEF PidInv, Given
  <1>3. PidsUnique'
    BY DEF PidInv, PidsUnique
  <1> QED
    BY <1>1, <1>2, <1>3, Zenon DEF PidInv

LEMMA MapBlockKeeps ==
    ASSUME NEW c, Creators = {c}, IInv, MapBlock(c)
    PROVE  IInv'
  <1> DEFINE f == frame[c]
             r == Head(f.todo)
             t == tct[f.slot]
             v == mmcbt[f.new].addr - r.off
             rest == Tail(f.todo)
  <1>1. /\ TypeInv /\ PidInv /\ MemInv /\ LinkInv /\ ReadySound
        /\ FramePid(frame[c]) /\ FrameMem(frame[c]) /\ FrameTask(frame[c])
    BY Parts
  <1>2. f.at = "map"
    BY DEF MapBlock, At
  <1>3. /\ f.todo # <<>> /\ f.slot \notin ready
        /\ tct[f.slot].type = f.type
        /\ tct[f.slot].file = "wanted" => f.svc = "loadprc"
        /\ Els(f.todo) \subseteq Wanted(f.type)
        /\ \A q \in Needed(f.type) : q \in Els(f.todo) \/ Met(f.slot, q)
        /\ f.type.kind = "DRV" => f.todo[Len(f.todo)] = Buffer
        /\ OwnersKnown(f) /\ f.at \in Building
        /\ f.new \in TaskEntries /\ mmcbt[f.new].owner = f.pid
        /\ mmcbt[f.new].par = r.page /\ mmcbt[f.new].size = r.n
    BY <1>1, <1>2 DEF FrameTask, Asking, Building
  <1>4. f.new \in Entries
    BY <1>3 DEF TaskEntries
  <1>5. /\ tct' \in [Slots -> Task]
        /\ Holds(f.slot, t.pid, t.type, [t.par EXCEPT ![r.map] = v], t.file)
        /\ \A s \in Slots : s # f.slot => tct'[s] = tct[s]
        /\ \E l \in Labels :
              /\ l = IF Tail(f.todo) # <<>> THEN "scan"
                     ELSE IF f.svc = "loadprc" THEN "copy" ELSE "enqueue"
              /\ Moved(c, l, f.svc, f.type, f.pid, f.slot, rest, NONE, NONE)
        /\ UNCHANGED <<topspid, topupid, mmcbt, ready, halted>>
    BY <1>1, <1>3, <1>4, MapBlockStep, Zenon
  <1>6. /\ topspid' = topspid /\ topupid' = topupid /\ mmcbt' = mmcbt /\ ready' = ready
        /\ TaskEntries' = TaskEntries
    <2>1. /\ topspid' = topspid /\ topupid' = topupid /\ mmcbt' = mmcbt
          /\ ready' = ready
      BY <1>5, Zenon
    <2> QED
      BY <2>1, MemoryAlone, Zenon
  <1>7. /\ frame' \in [Creators -> Frames]
        /\ frame'[c].svc = f.svc /\ frame'[c].type = f.type
        /\ frame'[c].slot = f.slot /\ frame'[c].pid = f.pid
        /\ frame'[c].todo = rest
        /\ frame'[c].at = IF rest # <<>> THEN "scan"
                          ELSE IF f.svc = "loadprc" THEN "copy" ELSE "enqueue"
    BY <1>5 DEF Moved
  <1>8. /\ f.slot \in Slots /\ f.todo \in Seq(Request) /\ f.type \in TaskType
        /\ ready \subseteq Slots /\ t.par \in [Pages -> Int]
    BY <1>1, FrameTypes, TaskTypes DEF TypeInv
  <1>9. /\ r \in Request /\ r \in Els(f.todo)
        /\ Els(f.todo) = {r} \cup Els(rest)
        /\ rest # <<>> => rest[Len(rest)] = f.todo[Len(f.todo)]
        /\ rest = <<>> => f.todo[Len(f.todo)] = r
        /\ rest \in Seq(Request)
    BY <1>3, <1>8, ElsTail
  <1>10. r.map \in Pages /\ r.off \in Nat /\ mmcbt[f.new].addr \in Nat
    BY <1>1, <1>4, <1>9, RequestFields, EntryTypes
  <1>11. f.pid = t.pid /\ f.pid # 0 /\ f.slot # 0
    BY <1>1, <1>3, Zenon DEF FramePid
  <1>12. /\ tct'[f.slot].pid = t.pid /\ tct'[f.slot].type = t.type
         /\ tct'[f.slot].file = t.file
         /\ tct'[f.slot].par[r.map] = v
         /\ \A m \in Pages : m # r.map => tct'[f.slot].par[m] = t.par[m]
    BY <1>5, <1>8, <1>10 DEF Holds
  <1>13. v + r.off = mmcbt[f.new].addr
    BY <1>10
  <1>14. f.type.kind = "DRV" => Buffer = r \/ Buffer \in Els(rest)
    <2>1. Len(f.todo) \in Nat /\ Len(f.todo) # 0
      BY <1>3, <1>8, EmptySeq
    <2>2. Len(f.todo) \in 1 .. Len(f.todo)
      BY <2>1
    <2>3. f.todo[Len(f.todo)] \in Els(f.todo)
      BY <2>2, Zenon DEF Els
    <2> QED
      BY <1>3, <1>9, <2>3, Zenon
  <1>15. \A q \in Needed(f.type) : q \in Request
    BY RequestTypes DEF Needed, Wanted
  <1>16. t = tct[f.slot]
    OBVIOUS
  <1> HIDE DEF f, r, t, v, rest
  <1>17. \A s \in Slots : tct'[s].pid = tct[s].pid
    BY <1>5, <1>12, <1>16
  <1>18. TypeInv'
    BY <1>1, <1>5, <1>6, <1>7 DEF TypeInv
  <1>19. PidInv' /\ MemInv' /\ LinkInv'
    BY <1>1, <1>6, <1>17, PidsStay, MemoryAlone
  <1>20. ReadySound'
    BY <1>1, <1>3, <1>5, <1>6, <1>8, ReadyElsewhere
  <1>21. frame'[c].at \in {"scan", "copy", "enqueue"}
    BY <1>7
  <1>22. FramePid(frame[c])'
    <2>1. /\ frame'[c].slot # 0 /\ tct'[frame'[c].slot].pid = frame'[c].pid
          /\ frame'[c].pid # 0
      BY <1>7, <1>11, <1>12
    <2> QED
      BY <1>21, <2>1 DEF FramePid
  <1>23. FrameMem(frame[c])'
    BY <1>1, <1>2, <1>6, <1>21, FrameMemAlone DEF Found, Asking, f
  <1>24. OwnersKnown(frame[c])'
    <2>1. frame'[c].at \in Building
      BY <1>21 DEF Building, Asking
    <2>2. ASSUME NEW e \in TaskEntries
          PROVE  \E s \in Slots : /\ s # 0 /\ mmcbt'[e].owner = tct'[s].pid
                                  /\ s \in ready' \/ s = frame'[c].slot
      <3>1. PICK s \in Slots : /\ s # 0 /\ mmcbt[e].owner = tct[s].pid
                               /\ s \in ready \/ s = f.slot
        BY <1>3, Zenon DEF OwnersKnown
      <3> QED
        BY <1>6, <1>7, <1>17, <3>1
    <2> QED
      BY <1>6, <2>1, <2>2, Zenon DEF OwnersKnown
  <1>25. ASSUME NEW q \in Needed(f.type), q \notin Els(rest)
         PROVE  \E e \in TaskEntries : /\ mmcbt[e].owner = t.pid
                                       /\ mmcbt[e].par = q.page
                                       /\ mmcbt[e].size = q.n
                                       /\ mmcbt[e].addr = tct'[f.slot].par[q.map] + q.off
    <2>1. CASE q = r
      <3>1. /\ f.new \in TaskEntries /\ mmcbt[f.new].owner = t.pid
            /\ mmcbt[f.new].par = q.page /\ mmcbt[f.new].size = q.n
            /\ mmcbt[f.new].addr = tct'[f.slot].par[q.map] + q.off
        BY <1>3, <1>11, <1>12, <1>13, <2>1
      <3> QED
        BY <3>1
    <2>2. CASE q # r
      <3>1. Met(f.slot, q)
        BY <1>3, <1>9, <1>25, <2>2
      <3>2. q.map # r.map
        <4> SUFFICES ASSUME q.map = r.map PROVE FALSE
          OBVIOUS
        <4>1. r \in Wanted(f.type)
          BY <1>3, <1>9
        <4>2. f.type.kind = "DRV" /\ q = Buffer
          BY <1>8, <2>2, <4>1, SameMap
        <4> QED
          BY <1>14, <1>25, <2>2, <4>2
      <3>3. q.map \in Pages
        BY <1>15, RequestFields
      <3>4. tct'[f.slot].par[q.map] = tct[f.slot].par[q.map]
        BY <1>12, <1>16, <3>2, <3>3
      <3> QED
        BY <1>16, <3>1, <3>4 DEF Met
    <2> QED
      BY <2>1, <2>2
  <1>26. FrameTask(frame[c])'
    <2>1. \A q \in Needed(frame'[c].type) : q \in Els(frame'[c].todo) \/ Met(frame[c].slot, q)'
      <3> SUFFICES ASSUME NEW q \in Needed(frame'[c].type), q \notin Els(frame'[c].todo)
                   PROVE  Met(frame[c].slot, q)'
        OBVIOUS
      <3>1. \E e \in TaskEntries' : /\ mmcbt'[e].owner = tct'[frame'[c].slot].pid
                                    /\ mmcbt'[e].par = q.page
                                    /\ mmcbt'[e].size = q.n
                                    /\ mmcbt'[e].addr = tct'[frame'[c].slot].par[q.map] + q.off
        BY <1>6, <1>7, <1>12, <1>25
      <3> QED
        BY <3>1, Zenon DEF Met
    <2>2. /\ frame'[c].slot \notin ready'
          /\ tct'[frame'[c].slot].type = frame'[c].type
          /\ tct'[frame'[c].slot].file = "wanted" =>
                frame'[c].svc = "loadprc" /\ frame'[c].at # "enqueue"
      BY <1>3, <1>6, <1>7, <1>12, <1>16
    <2>3. Els(frame'[c].todo) \subseteq Wanted(frame'[c].type)
      BY <1>3, <1>7, <1>9
    <2>4. frame'[c].at \in Asking =>
              /\ frame'[c].todo # <<>>
              /\ frame'[c].type.kind = "DRV" => frame'[c].todo[Len(frame'[c].todo)] = Buffer
      <3>1. frame'[c].at \in Asking => rest # <<>>
        BY <1>7 DEF Asking
      <3> QED
        BY <1>3, <1>7, <1>9, <3>1
    <2>5. frame'[c].at \in {"copy", "enqueue"} => frame'[c].todo = <<>>
      BY <1>7
    <2>6. frame'[c].at # "map"
      BY <1>21
    <2> QED
      BY <1>24, <2>1, <2>2, <2>3, <2>4, <2>5, <2>6, Zenon DEF FrameTask
  <1> QED
    BY <1>18, <1>19, <1>20, <1>22, <1>23, <1>26, Whole

(* loadprc puts the file name where the task will look for it.              *)
LEMMA CopyNameKeeps ==
    ASSUME NEW c, Creators = {c}, IInv, CopyName(c)
    PROVE  IInv'
  <1> DEFINE f == frame[c]
             t == tct[f.slot]
  <1>1. /\ TypeInv /\ PidInv /\ MemInv /\ LinkInv /\ ReadySound
        /\ FramePid(frame[c]) /\ FrameMem(frame[c]) /\ FrameTask(frame[c])
    BY Parts
  <1>2. /\ f.at = "copy"
        /\ tct' \in [Slots -> Task]
        /\ Holds(f.slot, t.pid, t.type, t.par, "there")
        /\ \A s \in Slots : s # f.slot => tct'[s] = tct[s]
        /\ Moved(c, "enqueue", f.svc, f.type, f.pid, f.slot, f.todo, f.cur, f.new)
        /\ UNCHANGED <<topspid, topupid, mmcbt, ready, halted>>
    BY <1>1, CopyNameStep, Zenon
  <1>3. /\ f.slot \notin ready /\ t.type = f.type
        /\ Els(f.todo) \subseteq Wanted(f.type)
        /\ \A q \in Needed(f.type) : q \in Els(f.todo) \/ Met(f.slot, q)
        /\ OwnersKnown(f) /\ f.todo = <<>>
    BY <1>1, <1>2 DEF FrameTask, Building
  <1>4. /\ topspid' = topspid /\ topupid' = topupid /\ mmcbt' = mmcbt /\ ready' = ready
        /\ TaskEntries' = TaskEntries
    BY <1>2, MemoryAlone
  <1>5. /\ frame' \in [Creators -> Frames]
        /\ frame'[c].svc = f.svc /\ frame'[c].type = f.type
        /\ frame'[c].slot = f.slot /\ frame'[c].pid = f.pid
        /\ frame'[c].todo = f.todo /\ frame'[c].at = "enqueue"
    BY <1>2 DEF Moved
  <1>6. f.slot \in Slots /\ ready \subseteq Slots
    BY <1>1, FrameTypes DEF TypeInv
  <1>7. t.pid = f.pid /\ f.pid # 0 /\ f.slot # 0
    BY <1>1, <1>2 DEF FramePid, Building
  <1>8. /\ tct'[f.slot].pid = t.pid /\ tct'[f.slot].type = t.type
        /\ tct'[f.slot].par = t.par /\ tct'[f.slot].file = "there"
    BY <1>2 DEF Holds
  <1>9. t = tct[f.slot]
    OBVIOUS
  <1> HIDE DEF f, t
  <1>10. \A s \in Slots : tct'[s].pid = tct[s].pid
    BY <1>2, <1>8, <1>9
  <1>11. TypeInv'
    BY <1>1, <1>2, <1>4, <1>5 DEF TypeInv
  <1>12. PidInv' /\ MemInv' /\ LinkInv'
    BY <1>1, <1>4, <1>10, PidsStay, MemoryAlone
  <1>13. ReadySound'
    BY <1>1, <1>2, <1>3, <1>4, <1>6, ReadyElsewhere
  <1>14. FramePid(frame[c])'
    BY <1>5, <1>7, <1>8 DEF FramePid
  <1>15. FrameMem(frame[c])'
    BY <1>1, <1>2, <1>4, <1>5, FrameMemAlone DEF Found, Asking, f
  <1>16. OwnersKnown(frame[c])'
    <2>1. frame'[c].at \in Building
      BY <1>5 DEF Building
    <2>2. ASSUME NEW e \in TaskEntries
          PROVE  \E s \in Slots : /\ s # 0 /\ mmcbt'[e].owner = tct'[s].pid
                                  /\ s \in ready' \/ s = frame'[c].slot
      <3>1. PICK s \in Slots : /\ s # 0 /\ mmcbt[e].owner = tct[s].pid
                               /\ s \in ready \/ s = f.slot
        BY <1>3, Zenon DEF OwnersKnown
      <3> QED
        BY <1>4, <1>5, <1>10, <3>1
    <2> QED
      BY <1>4, <2>1, <2>2, Zenon DEF OwnersKnown
  <1>17. FrameTask(frame[c])'
    <2>1. \A q \in Needed(frame'[c].type) : q \in Els(frame'[c].todo) \/ Met(frame[c].slot, q)'
      <3> SUFFICES ASSUME NEW q \in Needed(frame'[c].type), q \notin Els(frame'[c].todo)
                   PROVE  Met(frame[c].slot, q)'
        OBVIOUS
      <3>1. Met(f.slot, q)
        BY <1>3, <1>5
      <3>2. \E e \in TaskEntries' : /\ mmcbt'[e].owner = tct'[frame'[c].slot].pid
                                    /\ mmcbt'[e].par = q.page
                                    /\ mmcbt'[e].size = q.n
                                    /\ mmcbt'[e].addr = tct'[frame'[c].slot].par[q.map] + q.off
        BY <1>4, <1>5, <1>8, <1>9, <3>1 DEF Met
      <3> QED
        BY <3>2, Zenon DEF Met
    <2>2. /\ frame'[c].slot \notin ready'
          /\ tct'[frame'[c].slot].type = frame'[c].type
          /\ tct'[frame'[c].slot].file # "wanted"
          /\ Els(frame'[c].todo) \subseteq Wanted(frame'[c].type)
          /\ frame'[c].todo = <<>>
      BY <1>3, <1>4, <1>5, <1>8
    <2>3. frame'[c].at \notin Asking
      BY <1>5 DEF Asking
    <2>4. frame'[c].at # "map"
      BY <1>5
    <2> QED
      BY <1>16, <2>1, <2>2, <2>3, <2>4, Zenon DEF FrameTask
  <1> QED
    BY <1>11, <1>12, <1>13, <1>14, <1>15, <1>17, Whole

(* The task that is made ready has all it needs.                            *)
LEMMA EnqueueKeeps ==
    ASSUME NEW c, Creators = {c}, IInv, Enqueue(c)
    PROVE  IInv'
  <1> DEFINE f == frame[c]
  <1>1. /\ TypeInv /\ PidInv /\ MemInv /\ LinkInv /\ ReadySound
        /\ FramePid(frame[c]) /\ FrameMem(frame[c]) /\ FrameTask(frame[c])
    BY Parts
  <1>2. /\ f.at = "enqueue"
        /\ ready' = ready \cup {f.slot}
        /\ Moved(c, "idle", "none", NoType, 0, 0, <<>>, NONE, NONE)
        /\ UNCHANGED <<topspid, topupid, tct, mmcbt, halted>>
    BY <1>1, EnqueueStep, Zenon
  <1>3. /\ topspid' = topspid /\ topupid' = topupid /\ tct' = tct /\ mmcbt' = mmcbt
        /\ TaskEntries' = TaskEntries
        /\ frame' \in [Creators -> Frames] /\ frame'[c].at = "idle"
    BY <1>2, MemoryAlone DEF Moved
  <1>4. /\ tct[f.slot].type = f.type
        /\ tct[f.slot].file # "wanted"
        /\ \A q \in Needed(f.type) : q \in Els(f.todo) \/ Met(f.slot, q)
        /\ OwnersKnown(f) /\ f.todo = <<>>
    BY <1>1, <1>2 DEF FrameTask, Building
  <1>5. f.slot \in Slots /\ ready \subseteq Slots
    BY <1>1, FrameTypes DEF TypeInv
  <1>6. tct[f.slot].pid # 0 /\ f.slot # 0
    BY <1>1, <1>2 DEF FramePid, Building
  <1>7. \A q \in Needed(f.type) : Met(f.slot, q)
    BY <1>4, ElsSmall
  <1> HIDE DEF f
  <1>8. TypeInv'
    BY <1>1, <1>2, <1>3, <1>5 DEF TypeInv
  <1>9. PidInv' /\ MemInv' /\ LinkInv'
    BY <1>1, <1>3, PidsAlone, MemoryAlone
  <1>10. ReadySound'
    <2>1. ASSUME NEW s \in ready'
          PROVE  /\ s # 0 /\ tct[s].pid # 0 /\ tct[s].file # "wanted"
                 /\ \A q \in Needed(tct[s].type) : Met(s, q)
      <3>1. CASE s \in ready
        BY <1>1, <3>1, Zenon DEF ReadySound
      <3>2. CASE s = f.slot
        BY <1>4, <1>6, <1>7, <3>2
      <3> QED
        BY <1>2, <3>1, <3>2
    <2>2. ASSUME NEW s, NEW q, Met(s, q) PROVE Met(s, q)'
      BY <1>3, <2>2, Zenon DEF Met
    <2> QED
      BY <1>3, <2>1, <2>2, Zenon DEF ReadySound
  <1>11. FramePid(frame[c])'
    BY <1>3 DEF FramePid, Building, Asking
  <1>12. FrameMem(frame[c])'
    BY <1>1, <1>2, <1>3, FrameMemAlone DEF Found, Asking, f
  <1>13. OwnersKnown(frame[c])'
    <2>1. ASSUME NEW e \in TaskEntries
          PROVE  \E s \in Slots : s # 0 /\ mmcbt'[e].owner = tct'[s].pid /\ s \in ready'
      <3>1. PICK s \in Slots : /\ s # 0 /\ mmcbt[e].owner = tct[s].pid
                               /\ s \in ready \/ s = f.slot
        BY <1>4, Zenon DEF OwnersKnown
      <3> QED
        BY <1>2, <1>3, <3>1
    <2> QED
      BY <1>3, <2>1, Zenon DEF OwnersKnown
  <1>14. FrameTask(frame[c])'
    BY <1>3, <1>13 DEF FrameTask, Building, Asking
  <1> QED
    BY <1>8, <1>9, <1>10, <1>11, <1>12, <1>14, Whole

-----------------------------------------------------------------------------
(* The state muxx_mem_init leaves.                                          *)
LEMMA InitMemory ==
    ASSUME mmcbt = muxx_mem_init
    PROVE  /\ mmcbt[0] = Block(0, PageSize, 1, 0, 1)
           /\ mmcbt[1] = Block(PageSize, PageSize, 1, 1, 2)
           /\ mmcbt[2] = Block(2 * PageSize, PageSize, 1, 2, 3)
           /\ mmcbt[3] = Block(3 * PageSize, StackSize, 1, 6, 4)
           /\ mmcbt[4] = Block(FreeAddr, FreeSize, 0, 0, 5)
           /\ mmcbt[5] = Block(IOAddr, IOSize, 1, 7, NONE)
           /\ \A e \in Entries : e > 5 => mmcbt[e] = Unused
           /\ \A e \in Entries : mmcbt[e] \in MMCB
           /\ mmcbt \in [Entries -> MMCB]
  <1> DEFINE b == << Block(0, PageSize, 1, 0, 1),
                     Block(PageSize, PageSize, 1, 1, 2),
                     Block(2 * PageSize, PageSize, 1, 2, 3),
                     Block(3 * PageSize, StackSize, 1, 6, 4),
                     Block(FreeAddr, FreeSize, 0, 0, 5),
                     Block(IOAddr, IOSize, 1, 7, NONE) >>
  <1>1. mmcbt = [e \in Entries |-> IF e < 6 THEN b[e + 1] ELSE Unused]
    BY Zenon DEF muxx_mem_init
  <1>2. /\ b[1] = Block(0, PageSize, 1, 0, 1)
        /\ b[2] = Block(PageSize, PageSize, 1, 1, 2)
        /\ b[3] = Block(2 * PageSize, PageSize, 1, 2, 3)
        /\ b[4] = Block(3 * PageSize, StackSize, 1, 6, 4)
        /\ b[5] = Block(FreeAddr, FreeSize, 0, 0, 5)
        /\ b[6] = Block(IOAddr, IOSize, 1, 7, NONE)
    OBVIOUS
  <1> HIDE DEF b
  <1>3. \A e \in Entries : mmcbt[e] = IF e < 6 THEN b[e + 1] ELSE Unused
    BY <1>1
  <1>4. {0, 1, 2, 3, 4, 5} \subseteq Entries
    BY Constants DEF Entries
  <1>5. /\ mmcbt[0] = b[1] /\ mmcbt[1] = b[2] /\ mmcbt[2] = b[3] /\ mmcbt[3] = b[4]
        /\ mmcbt[4] = b[5] /\ mmcbt[5] = b[6]
    BY <1>3, <1>4
  <1>6. \A e \in Entries : e > 5 => mmcbt[e] = Unused
    BY <1>3 DEF Entries
  <1>7. 0 \in Pids /\ 1 \in Pids
    BY Constants DEF Pids
  <1>8. Unused \in MMCB
    BY Constants DEF Unused, Block, MMCB
  <1>9. /\ Block(0, PageSize, 1, 0, 1) \in MMCB
        /\ Block(PageSize, PageSize, 1, 1, 2) \in MMCB
        /\ Block(2 * PageSize, PageSize, 1, 2, 3) \in MMCB
        /\ Block(3 * PageSize, StackSize, 1, 6, 4) \in MMCB
        /\ Block(FreeAddr, FreeSize, 0, 0, 5) \in MMCB
        /\ Block(IOAddr, IOSize, 1, 7, NONE) \in MMCB
    <2>1. /\ PageSize \in 0 .. WORD - 1 /\ 2 * PageSize \in 0 .. WORD - 1
          /\ 3 * PageSize \in 0 .. WORD - 1 /\ StackSize \in 0 .. WORD - 1
          /\ FreeAddr \in 0 .. WORD - 1 /\ FreeSize \in 0 .. WORD - 1
          /\ IOAddr \in 0 .. WORD - 1 /\ IOSize \in 0 .. WORD - 1 /\ 0 \in 0 .. WORD - 1
      BY Constants
    <2> QED
      BY <1>4, <1>7, <2>1 DEF Block, MMCB
  <1>10. ASSUME NEW e \in Entries PROVE mmcbt[e] \in MMCB
    <2>1. CASE e > 5
      BY <1>6, <1>8, <2>1
    <2>2. CASE ~ (e > 5)
      <3>1. e \in {0, 1, 2, 3, 4, 5}
        BY <2>2 DEF Entries
      <3> QED
        BY <1>2, <1>5, <1>9, <3>1
    <2> QED
      BY <2>1, <2>2
  <1>11. mmcbt \in [Entries -> MMCB]
    BY <1>1, <1>10
  <1> QED
    BY <1>2, <1>5, <1>6, <1>10, <1>11

LEMMA InitKeeps ==
    ASSUME OneCreator, Init
    PROVE  IInv
  <1>1. /\ topspid = 1 /\ topupid = 0 /\ mmcbt = muxx_mem_init /\ ready = {}
        /\ tct = [s \in Slots |-> IF s = 0 THEN INITTask ELSE FreeTask]
        /\ frame = [c \in Creators |-> Idle]
    BY DEF Init
  <1>2. /\ mmcbt[0] = Block(0, PageSize, 1, 0, 1)
        /\ mmcbt[1] = Block(PageSize, PageSize, 1, 1, 2)
        /\ mmcbt[2] = Block(2 * PageSize, PageSize, 1, 2, 3)
        /\ mmcbt[3] = Block(3 * PageSize, StackSize, 1, 6, 4)
        /\ mmcbt[4] = Block(FreeAddr, FreeSize, 0, 0, 5)
        /\ mmcbt[5] = Block(IOAddr, IOSize, 1, 7, NONE)
        /\ \A e \in Entries : e > 5 => mmcbt[e] = Unused
        /\ mmcbt \in [Entries -> MMCB]
    BY <1>1, InitMemory
  <1>3. FreeTask \in Task /\ INITTask \in Task /\ FreeTask.pid = 0 /\ INITTask.pid = 1
    <2>1. /\ 0 \in Pids /\ 1 \in Pids /\ NoType \in TaskType
          /\ NoPars \in [Pages -> Int] /\ 6 \in Pages
          /\ 3 * PageSize - StackSize \in Int
      BY Constants DEF Pids, NoType, TaskType, NoPars, Pages
    <2>2. FreeTask \in Task /\ FreeTask.pid = 0
      BY <2>1 DEF FreeTask, Task
    <2> DEFINE d1 == [FreeTask EXCEPT !.pid = 1]
               ps == [NoPars EXCEPT ![6] = 3 * PageSize - StackSize]
    <2>3. d1 = [pid |-> 1, type |-> NoType, par |-> NoPars, file |-> "none"]
      BY DEF FreeTask
    <2>4. ps \in [Pages -> Int]
      BY <2>1
    <2>5. d1.par = NoPars
      BY <2>3
    <2>6. INITTask = [d1 EXCEPT !.par = [d1.par EXCEPT ![6] = 3 * PageSize - StackSize]]
      BY Zenon DEF INITTask
    <2> HIDE DEF d1
    <2>7. INITTask = [d1 EXCEPT !.par = ps]
      BY <2>5, <2>6, Zenon
    <2> HIDE DEF ps
    <2>8. INITTask = [pid |-> 1, type |-> NoType, par |-> ps, file |-> "none"]
      BY <2>3, <2>7
    <2>9. INITTask \in Task /\ INITTask.pid = 1
      BY <2>1, <2>4, <2>8 DEF Task
    <2> QED
      BY <2>2, <2>9
  <1>4. /\ tct \in [Slots -> Task] /\ tct[0].pid = 1
        /\ \A s \in Slots : s # 0 => tct[s].pid = 0
    BY <1>1, <1>3, Constants
  <1>5. Idle \in Frames
    BY Constants DEF Idle, Frames, Labels, Services, NoType, TaskType, Pids
  <1>6. frame \in [Creators -> Frames]
    BY <1>1, <1>5
  <1>7. TypeInv
    BY <1>1, <1>2, <1>4, <1>6, Constants DEF TypeInv
  <1>8. PidInv
    <2>1. Given(1)
      BY <1>1 DEF Given
    <2> QED
      BY <1>4, <2>1 DEF PidInv, PidsUnique
  <1>9. /\ mmcbt[0].addr = 0 /\ mmcbt[0].size = PageSize /\ mmcbt[0].owner = 1
        /\ mmcbt[0].next = 1
        /\ mmcbt[1].addr = PageSize /\ mmcbt[1].size = PageSize /\ mmcbt[1].owner = 1
        /\ mmcbt[1].next = 2
        /\ mmcbt[2].addr = 2 * PageSize /\ mmcbt[2].size = PageSize /\ mmcbt[2].owner = 1
        /\ mmcbt[2].next = 3
        /\ mmcbt[3].addr = 3 * PageSize /\ mmcbt[3].size = StackSize /\ mmcbt[3].owner = 1
        /\ mmcbt[3].next = 4
        /\ mmcbt[4].addr = FreeAddr /\ mmcbt[4].size = FreeSize /\ mmcbt[4].owner = 0
        /\ mmcbt[5].owner = 1
    BY <1>2 DEF Block
  <1>10. \A e \in Entries : e > 5 => mmcbt[e].owner = NONE
    BY <1>2 DEF Unused, Block
  <1>11. TaskEntries = {}
    BY <1>10 DEF TaskEntries
  <1>12. MemInv
    <2>1. \A e \in Entries : mmcbt[e].owner = 0 <=> e = Free
      <3>1. ASSUME NEW e \in Entries PROVE mmcbt[e].owner = 0 <=> e = 4
        <4>1. CASE e > 5
          BY <1>10, <4>1, Constants
        <4>2. CASE ~ (e > 5)
          <5>1. e \in {0, 1, 2, 3, 4, 5}
            BY <4>2 DEF Entries
          <5> QED
            BY <1>9, <5>1
        <4> QED
          BY <4>1, <4>2
      <3> QED
        BY <3>1, Constants
    <2>2. \A e \in 0 .. 5 : mmcbt[e].owner # NONE
      <3>1. \A e \in 0 .. 5 : e \in {0, 1, 2, 3, 4, 5}
        OBVIOUS
      <3> QED
        BY <1>9, <3>1, Constants
    <2>3. \A e \in 0 .. 3 : Top(e) <= FreeAddr
      <3>1. \A e \in 0 .. 3 : e \in {0, 1, 2, 3}
        OBVIOUS
      <3>2. /\ 0 + PageSize <= FreeAddr /\ PageSize + PageSize <= FreeAddr
            /\ 2 * PageSize + PageSize <= FreeAddr /\ 3 * PageSize + StackSize <= FreeAddr
        BY Constants
      <3> QED
        BY <1>9, <3>1, <3>2 DEF Top
    <2>4. FreeAddr <= mmcbt[Free].addr
      BY <1>9, Constants
    <2> QED
      BY <1>11, <2>1, <2>2, <2>3, <2>4, Zenon DEF MemInv
  <1>13. LinkInv
    <2>1. \A e \in 0 .. 3 : e \in {0, 1, 2, 3}
      OBVIOUS
    <2>2. \A e \in 0 .. 3 : mmcbt[e].next = e + 1
      BY <1>9, <2>1
    <2> QED
      BY <1>11, <2>2 DEF LinkInv
  <1>14. ReadySound
    BY <1>1 DEF ReadySound
  <1>15. ASSUME NEW c \in Creators
         PROVE  FramePid(frame[c]) /\ FrameMem(frame[c]) /\ FrameTask(frame[c])
    <2>1. frame[c].at = "idle"
      BY <1>1 DEF Idle
    <2>2. FramePid(frame[c])
      BY <2>1 DEF FramePid, Building, Asking
    <2>3. Top(Free) = End /\ mmcbt[Free].addr = FreeAddr
      BY <1>9, Constants DEF Top, End
    <2>4. Covered(mmcbt[Free].addr)
      BY <2>3, Constants DEF Covered
    <2>5. FrameMem(frame[c])
      BY <2>1, <2>3, <2>4 DEF FrameMem, Found, Asking
    <2>6. OwnersKnown(frame[c])
      BY <1>11, Zenon DEF OwnersKnown
    <2>7. FrameTask(frame[c])
      BY <2>1, <2>6 DEF FrameTask, Building, Asking
    <2> QED
      BY <2>2, <2>5, <2>7
  <1> QED
    BY <1>7, <1>8, <1>12, <1>13, <1>14, <1>15, Zenon DEF IInv

(* Nothing of the invariant depends on anything but the variables.          *)
LEMMA StutterKeeps ==
    ASSUME NEW c, Creators = {c}, IInv, UNCHANGED vars
    PROVE  IInv'
  <1>1. /\ TypeInv /\ PidInv /\ MemInv /\ LinkInv /\ ReadySound
        /\ FramePid(frame[c]) /\ FrameMem(frame[c]) /\ FrameTask(frame[c])
    BY Parts
  <1>2. /\ topspid' = topspid /\ topupid' = topupid /\ tct' = tct /\ mmcbt' = mmcbt
        /\ ready' = ready /\ frame' = frame
    BY DEF vars
  <1>3. TaskEntries' = TaskEntries
    BY <1>2, MemoryAlone
  <1>4. TypeInv'
    BY <1>1, <1>2, Zenon DEF TypeInv
  <1>5. PidInv' /\ MemInv' /\ LinkInv' /\ ReadySound'
    BY <1>1, <1>2, PidsAlone, MemoryAlone, ReadyAlone
  <1>6. FramePid(frame[c])'
    BY <1>1, <1>2, Zenon DEF FramePid, Given
  <1>7. FrameMem(frame[c])'
    BY <1>1, <1>2, <1>3, Zenon DEF FrameMem, Top, End, Covered, Blocks
  <1>8. FrameTask(frame[c])'
    BY <1>1, <1>2, <1>3, Zenon DEF FrameTask, OwnersKnown, Met
  <1> QED
    BY <1>4, <1>5, <1>6, <1>7, <1>8, Whole

LEMMA NextKeeps ==
    ASSUME OneCreator, IInv, [Next]_vars
    PROVE  IInv'
  <1>1. PICK c : Creators = {c}
    BY DEF OneCreator
  <1>2. CASE UNCHANGED vars
    BY <1>1, <1>2, StutterKeeps
  <1>3. CASE Next
    <2>1. PICK d \in Creators :
            \/ Call(d, "creprc") \/ Call(d, "loadprc") \/ TakePid(d) \/ BumpTop(d)
            \/ FindSlot(d) \/ StoreTask(d) \/ Scan(d) \/ findFreeMMCB(d) \/ Carve(d)
            \/ Advance(d) \/ Own(d) \/ MapBlock(d) \/ CopyName(d) \/ Enqueue(d)
      BY <1>3, Zenon DEF Next
    <2>2. d = c
      BY <1>1
    <2>3. "creprc" \in {"creprc", "loadprc"} /\ "loadprc" \in {"creprc", "loadprc"}
      OBVIOUS
    <2>4. CASE Call(d, "creprc") \/ Call(d, "loadprc")
      BY <1>1, <2>2, <2>3, <2>4, CallKeeps
    <2>5. CASE TakePid(d) \/ BumpTop(d) \/ FindSlot(d) \/ StoreTask(d)
      BY <1>1, <2>2, <2>5, TakePidKeeps, BumpTopKeeps, FindSlotKeeps, StoreTaskKeeps
    <2>6. CASE Scan(d) \/ findFreeMMCB(d) \/ Carve(d) \/ Advance(d) \/ Own(d)
      BY <1>1, <2>2, <2>6, ScanKeeps, FindFreeKeeps, CarveKeeps, AdvanceKeeps, OwnKeeps
    <2>7. CASE MapBlock(d) \/ CopyName(d) \/ Enqueue(d)
      BY <1>1, <2>2, <2>7, MapBlockKeeps, CopyNameKeeps, EnqueueKeeps
    <2> QED
      BY <2>1, <2>4, <2>5, <2>6, <2>7
  <1> QED
    BY <1>2, <1>3

-----------------------------------------------------------------------------
(* With one creator the invariant holds throughout.                         *)
THEOREM InductiveInvariant ==
    ASSUME OneCreator
    PROVE  Spec => []IInv
  <1>1. Init => IInv
    BY InitKeeps
  <1>2. IInv /\ [Next]_vars => IInv'
    BY NextKeeps
  <1> QED
    BY <1>1, <1>2, PTL DEF Spec

(* The state has the types of the C declarations: no PID exceeds its limit  *)
(* and no index leaves its table (muxx_taskinit.c, muxx_memsvc.c).          *)
THEOREM TypeCorrect ==
    ASSUME OneCreator
    PROVE  Spec => []TypeOK
  <1>1. IInv => TypeOK
    <2> SUFFICES ASSUME IInv PROVE TypeOK
      OBVIOUS
    <2>1. TypeInv
      BY DEF IInv
    <2>2. ASSUME NEW c \in Creators
          PROVE  /\ frame[c].at \in Labels /\ frame[c].type \in TaskType
                 /\ frame[c].pid \in Pids /\ frame[c].slot \in Slots
                 /\ \A i \in 1 .. Len(frame[c].todo) : frame[c].todo[i] \in Request
                 /\ {frame[c].cur, frame[c].new} \subseteq {NONE} \cup Entries
      <3>1. frame[c].todo \in Seq(Request)
        BY <2>1, FrameTypes
      <3>2. \A i \in 1 .. Len(frame[c].todo) : frame[c].todo[i] \in Request
        BY <3>1, ElementOfSeq
      <3> QED
        BY <2>1, <3>2, FrameTypes
    <2>3. topspid \in 0 .. maxspid
      BY <2>1, Constants DEF TypeInv
    <2> QED
      BY <2>1, <2>2, <2>3, Zenon DEF TypeOK, TypeInv
  <1> QED
    BY <1>1, InductiveInvariant, PTL

(* A PID names one task: muxx_taskinit never gives one out twice.           *)
THEOREM PidsNameOneTask ==
    ASSUME OneCreator
    PROVE  Spec => []PidsUnique
  <1>1. IInv => PidsUnique
    BY DEF IInv, PidInv
  <1> QED
    BY <1>1, InductiveInvariant, PTL

(* Where no creator is between the stores of muxx_mem_getblock.             *)
LEMMA SettledFrame ==
    ASSUME NEW c, Creators = {c}, Settled
    PROVE  frame[c].at # "advance" /\ frame[c].at # "own"
  BY DEF Settled

(* muxx_mem_getblock hands out memory once: the chunks of tasks overlap     *)
(* neither each other nor the kernel's pages nor the free area.             *)
THEOREM ChunksNeverOverlap ==
    ASSUME OneCreator
    PROVE  Spec => []ChunksDisjoint
  <1>1. IInv => ChunksDisjoint
    <2> SUFFICES ASSUME IInv, Settled, NEW e \in TaskEntries,
                        NEW d \in TaskEntries \cup 0 .. Free, d # e
                 PROVE  Blocks(e) \cap Blocks(d) = {}
      BY DEF ChunksDisjoint
    <2>1. TypeInv /\ MemInv
      BY DEF IInv
    <2>2. e \in Entries /\ d \in Entries
      BY Constants DEF TaskEntries, Entries
    <2>3. /\ mmcbt[e].addr \in Nat /\ mmcbt[e].size \in Nat
          /\ mmcbt[d].addr \in Nat /\ mmcbt[d].size \in Nat
      BY <2>1, <2>2, EntryTypes
    <2>4. Top(e) <= mmcbt[d].addr \/ Top(d) <= mmcbt[e].addr
      <3>1. CASE d \in TaskEntries
        BY <2>1, <3>1 DEF MemInv
      <3>2. CASE d = Free
        BY <2>1, <3>2 DEF MemInv
      <3>3. CASE d \in 0 .. 3
        <4>1. Top(d) <= FreeAddr /\ FreeAddr <= mmcbt[e].addr
          BY <2>1, <3>3 DEF MemInv
        <4> QED
          BY <2>3, <4>1, Constants DEF Top
      <3>4. d \in 0 .. Free => d \in 0 .. 3 \/ d = Free
        BY Constants
      <3> QED
        BY <3>1, <3>2, <3>3, <3>4
    <2> QED
      BY <2>3, <2>4 DEF Blocks, Top
  <1> QED
    BY <1>1, InductiveInvariant, PTL

(* No memory is lost: what muxx_mem_init put into the free area belongs to  *)
(* a task or is still free.                                                 *)
THEOREM NoMemoryLost ==
    ASSUME OneCreator
    PROVE  Spec => []MemoryConserved
  <1>1. IInv => MemoryConserved
    <2> SUFFICES ASSUME IInv, Settled
                 PROVE  FreeAddr .. FreeAddr + FreeSize - 1
                            = UNION {Blocks(e) : e \in TaskEntries \cup {Free}}
      BY DEF MemoryConserved
    <2>1. PICK c : Creators = {c}
      BY DEF OneCreator
    <2>2. TypeInv /\ MemInv /\ FrameMem(frame[c])
      BY <2>1, Parts
    <2>3. Top(Free) = End /\ Covered(mmcbt[Free].addr)
      <3>1. frame[c].at # "advance" /\ frame[c].at # "own"
        BY <2>1, SettledFrame
      <3> QED
        BY <2>2, <3>1, Zenon DEF FrameMem
    <2>4. /\ mmcbt[Free].addr \in Nat /\ mmcbt[Free].size \in Nat
          /\ FreeAddr <= mmcbt[Free].addr
      BY <2>2, EntryTypes, Constants DEF MemInv, Entries
    <2>5. ASSUME NEW x \in FreeAddr .. FreeAddr + FreeSize - 1
          PROVE  \E e \in TaskEntries \cup {Free} : x \in Blocks(e)
      <3>1. CASE x < mmcbt[Free].addr
        <4>1. x \in FreeAddr .. mmcbt[Free].addr - 1
          BY <2>4, <3>1, Constants
        <4> QED
          BY <2>3, <4>1 DEF Covered
      <3>2. CASE ~ (x < mmcbt[Free].addr)
        <4>1. x \in Blocks(Free)
          BY <2>3, <2>4, <3>2, Constants DEF Blocks, Top, End
        <4> QED
          BY <4>1
      <3> QED
        BY <3>1, <3>2
    <2>6. ASSUME NEW e \in TaskEntries \cup {Free}, NEW x \in Blocks(e)
          PROVE  x \in FreeAddr .. FreeAddr + FreeSize - 1
      <3>1. CASE e = Free
        BY <2>3, <2>4, <3>1, Constants DEF Blocks, Top, End
      <3>2. CASE e \in TaskEntries
        <4>1. /\ FreeAddr <= mmcbt[e].addr /\ Top(e) <= mmcbt[Free].addr
              /\ mmcbt[e].addr \in Nat /\ mmcbt[e].size \in Nat
          BY <2>2, <3>2, EntryTypes DEF MemInv, TaskEntries
        <4>2. x \in Nat /\ FreeAddr <= x /\ x < Top(e)
          BY <4>1, Constants DEF Blocks, Top
        <4>3. x < mmcbt[Free].addr
          BY <2>4, <4>1, <4>2 DEF Top
        <4> QED
          BY <2>3, <2>4, <4>2, <4>3, Constants DEF Top, End
      <3> QED
        BY <3>1, <3>2
    <2> QED
      BY <2>5, <2>6
  <1> QED
    BY <1>1, InductiveInvariant, PTL

(* What creprc and loadprc promise of a ready task: every page its type     *)
(* asks for is mapped on a chunk of its own, but for the one that the       *)
(* buffer of a medium driver hides; a driver reaches its buffer; and the    *)
(* name of the file to load is there.                                       *)
THEOREM ReadyTasksAreComplete ==
    ASSUME OneCreator
    PROVE  Spec => []ReadyTasksComplete
  <1>1. IInv => ReadyTasksComplete
    <2> SUFFICES ASSUME IInv, NEW s \in ready
                 PROVE  LET t == tct[s] IN
                    /\ t.file # "wanted"
                    /\ t.type.kind = "DRV" => \E p \in Pages : ShowsBuffer(t, p)
                    /\ \A p \in PagesOf(t.type) :
                        \/ HasChunk(t, p, IF p = 6 THEN StackSize ELSE PageSize)
                        \/ ShowsBuffer(t, p)
      BY Zenon DEF ReadyTasksComplete
    <2> DEFINE t == tct[s]
    <2>1. TypeInv /\ ReadySound
      BY DEF IInv
    <2>2. t.file # "wanted" /\ \A r \in Needed(t.type) : Met(s, r)
      BY <2>1, Zenon DEF ReadySound
    <2>3. t.type \in TaskType /\ t.par \in [Pages -> Int]
      BY <2>1, TaskTypes DEF TypeInv
    <2>4. t = tct[s]
      OBVIOUS
    <2> HIDE DEF t
    <2>5. ASSUME NEW p \in {3, 4, 5}, Page(p) \in Needed(t.type)
          PROVE  \E e \in TaskEntries : /\ mmcbt[e].owner = t.pid /\ mmcbt[e].par = p
                                        /\ mmcbt[e].size = PageSize
                                        /\ mmcbt[e].addr = t.par[p]
      <3>1. PICK e \in TaskEntries :
                /\ mmcbt[e].owner = t.pid /\ mmcbt[e].par = Page(p).page
                /\ mmcbt[e].size = Page(p).n
                /\ mmcbt[e].addr = t.par[Page(p).map] + Page(p).off
        BY <2>2, <2>4, <2>5, Zenon DEF Met
      <3>2. /\ Page(p).page = p /\ Page(p).n = PageSize /\ Page(p).map = p
            /\ Page(p).off = 0
        BY DEF Page
      <3>3. t.par[p] \in Int
        BY <2>3 DEF Pages
      <3>4. mmcbt[e].addr = t.par[p]
        BY <3>1, <3>2, <3>3
      <3> QED
        BY <3>1, <3>2, <3>4
    <2>6. Stack \in Needed(t.type) =>
            \E e \in TaskEntries : /\ mmcbt[e].owner = t.pid /\ mmcbt[e].par = 6
                                   /\ mmcbt[e].size = StackSize
                                   /\ mmcbt[e].addr = t.par[6] + StackSize
      BY <2>2, <2>4 DEF Met, Stack
    <2>7. Buffer \in Needed(t.type) =>
            \E e \in TaskEntries : /\ mmcbt[e].owner = t.pid
                                   /\ mmcbt[e].size = BufSize
                                   /\ mmcbt[e].addr = t.par[4]
      <3> SUFFICES ASSUME Buffer \in Needed(t.type)
                   PROVE  \E e \in TaskEntries : /\ mmcbt[e].owner = t.pid
                                                 /\ mmcbt[e].size = BufSize
                                                 /\ mmcbt[e].addr = t.par[4]
        OBVIOUS
      <3>1. PICK e \in TaskEntries :
                /\ mmcbt[e].owner = t.pid /\ mmcbt[e].size = Buffer.n
                /\ mmcbt[e].addr = t.par[Buffer.map] + Buffer.off
        BY <2>2, <2>4, Zenon DEF Met
      <3>2. Buffer.n = BufSize /\ Buffer.map = 4 /\ Buffer.off = 0
        BY DEF Buffer
      <3>3. t.par[4] \in Int
        BY <2>3 DEF Pages
      <3> QED
        BY <3>1, <3>2, <3>3
    <2>8. /\ Page(3) # Page(4) /\ Page(5) # Page(4) /\ Stack # Page(4) /\ Buffer # Page(4)
      BY DEF Page, Stack, Buffer
    <2>9. /\ Page(3) \in Needed(t.type) /\ Stack \in Needed(t.type)
          /\ t.type.kind = "DRV" => Buffer \in Needed(t.type)
          /\ t.type.size # "SMALL" /\ t.type.kind # "DRV" => Page(4) \in Needed(t.type)
          /\ t.type.size = "BIG" => Page(5) \in Needed(t.type)
      <3>1. t.type.size \in {"SMALL", "MED", "BIG"}
        BY <2>3 DEF TaskType
      <3> QED
        BY <2>8, <3>1 DEF Needed, Wanted
    <2>10. ASSUME NEW p \in PagesOf(t.type), ~(t.type.kind = "DRV" /\ p = 4)
           PROVE  HasChunk(t, p, IF p = 6 THEN StackSize ELSE PageSize)
      <3>1. \/ p = 3
            \/ p = 6
            \/ p = 4 /\ t.type.size # "SMALL" /\ t.type.kind # "DRV"
            \/ p = 5 /\ t.type.size = "BIG"
        <4>1. p \in PagesOf(t.type) /\ (t.type.kind = "DRV" => p # 4)
          BY <2>10
        <4> QED
          BY <4>1, Zenon DEF PagesOf
      <3>2. CASE p = 6
        BY <2>6, <2>9, <3>2 DEF HasChunk
      <3>3. CASE p # 6
        <4>1. p \in {3, 4, 5} /\ Page(p) \in Needed(t.type)
          BY <2>9, <3>1, <3>3
        <4>2. t.par[p] \in Int
          BY <2>3, <4>1 DEF Pages
        <4>3. t.par[p] + (IF p = 6 THEN StackSize ELSE 0) = t.par[p]
          BY <3>3, <4>2
        <4> QED
          BY <2>5, <3>3, <4>1, <4>3 DEF HasChunk
      <3> QED
        BY <3>2, <3>3
    <2>11. t.type.kind = "DRV" => ShowsBuffer(t, 4)
      BY <2>7, <2>9, Zenon DEF ShowsBuffer
    <2>12. 4 \in Pages
      BY DEF Pages
    <2> QED
      BY <2>2, <2>10, <2>11, <2>12, Zenon DEF t
  <1> QED
    BY <1>1, InductiveInvariant, PTL

(* A task whose creation creprc refused owns no memory.                     *)
THEOREM RefusedOwnsNothing ==
    ASSUME OneCreator
    PROVE  Spec => []RefusedOwnNothing
  <1>1. IInv => RefusedOwnNothing
    <2> SUFFICES ASSUME IInv, NEW s \in Slots \ ({0} \cup ready \cup Creating),
                        NEW e \in TaskEntries, mmcbt[e].owner = tct[s].pid
                 PROVE  FALSE
      BY Zenon DEF RefusedOwnNothing
    <2>1. PICK c : Creators = {c}
      BY DEF OneCreator
    <2>2. TypeInv /\ PidInv /\ ReadySound /\ FramePid(frame[c]) /\ FrameTask(frame[c])
      BY <2>1, Parts
    <2>3. OwnersKnown(frame[c])
      BY <2>2 DEF FrameTask
    <2>4. PICK q \in Slots : /\ q # 0 /\ mmcbt[e].owner = tct[q].pid
                             /\ q \in ready \/ (frame[c].at \in Building /\ q = frame[c].slot)
      BY <2>3, Zenon DEF OwnersKnown
    <2>5. tct[q].pid # 0
      BY <2>2, <2>4 DEF ReadySound, FramePid
    <2>6. q = s
      BY <2>2, <2>4, <2>5 DEF PidInv, PidsUnique
    <2>7. frame[c].at \in Building /\ q = frame[c].slot
      BY <2>4, <2>6
    <2>8. frame[c].at # "idle"
      BY <2>7 DEF Building, Asking
    <2>9. frame[c].slot \in Creating
      BY <2>1, <2>8 DEF Creating
    <2> QED
      BY <2>6, <2>7, <2>9
  <1> QED
    BY <1>1, InductiveInvariant, PTL
=============================================================================
