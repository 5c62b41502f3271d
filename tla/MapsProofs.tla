----------------------------- MODULE MapsProofs -----------------------------
(***************************************************************************)
(* The invariants of the memory maps, for every number of tasks and pages. *)
(*                                                                         *)
(* RunsOnOwnMap alone is not inductive: an interrupted protmem resumes in  *)
(* the middle of its five stores, and its last one ends the exception that *)
(* the property makes for the page.  OwnInv says what every call has       *)
(* stored by each of its statements.                                       *)
(*                                                                         *)
(* TypeOK is not inductive either: the access field that only INIT's page  *)
(* 7 has could come back by a yield of INIT after a call cleared it in the *)
(* TCB, and the rest of the call would copy it to a kernel PDR.  FieldInv  *)
(* says why it does not.                                                   *)
(***************************************************************************)
EXTENDS Maps, TLAPS

(* Without a breach "other" a call is about the caller's own page.          *)
OwnCalls == \A u \in Tasks : call[u] # NoCall => call[u].of = u

(* What a call of u has stored in the TCB when it stands at a statement.    *)
Stored(u) ==
    LET c == call[u]
    IN  /\ c.at = "set" => tcb[u].upd[c.page] = NA
        /\ c.at \in {"user", "save", "kernel"} =>
              /\ tcb[u].upd[c.page] = c.prot
              /\ asked[u][c.page] = c.prot
        /\ c.at = "kernel" => tcb[u].kpd[c.page] = c.prot
        /\ u = curtcb /\ c.at \in {"save", "kernel"} =>
              mmu.upd[c.page] = c.prot

(* Page p of task t is not being changed by t itself.                       *)
Quiet(t, p) == call[t] = NoCall \/ call[t].page # p

OwnInv ==
    /\ OwnCalls
    /\ \A u \in Tasks : call[u] # NoCall => Stored(u)
    /\ \A p \in Pages : Quiet(curtcb, p) =>
          /\ mmu.upd[p] = tcb[curtcb].upd[p]
          /\ mmu.kpd[p] = tcb[curtcb].kpd[p]
    /\ \A t \in Tasks, p \in Pages : Quiet(t, p) => tcb[t].upd[p] = asked[t][p]

(* Without a breach "kernel" no call is about a page of the kernel.         *)
KernelInv ==
    /\ \A u \in Tasks : call[u] # NoCall => call[u].page \notin KernelPages
    /\ \A p \in Pages \cap KernelPages :
          /\ mmu.kpd[p] = RW
          /\ \A t \in Tasks : tcb[t].kpd[p] = RW

(* A call that has cleared a register finds one of its three values there.  *)
PastMask ==
    \A u \in Tasks : call[u] # NoCall /\ call[u].at # "mask" =>
        tcb[call[u].of].upd[call[u].page] \in Access

(* INIT is about to store its page p in the MMU.                            *)
InitChanges(p) ==
    /\ call[InitTask] # NoCall
    /\ call[InitTask].of = InitTask
    /\ call[InitTask].page = p
    /\ call[InitTask].at \in {"set", "user"}

(* The MMU has INIT's own access field only as long as the TCB has it too.  *)
FieldInv ==
    /\ PastMask
    /\ \A p \in Pages : mmu.upd[p] = InitIO =>
          tcb[InitTask].upd[p] = InitIO \/ InitChanges(p)

IInv ==
    /\ TypeOK
    /\ FieldInv
    /\ "other" \notin breach => OwnInv
    /\ "kernel" \notin breach => KernelInv

-----------------------------------------------------------------------------
(* The marker of a task outside protmem is not a call.                      *)
LEMMA NoCallIsNoCall == NoCall \notin Call
  BY DEF NoCall, Call, Stmts

(* Clearing an access field and or-ing the new one in gives the new one.    *)
LEMMA OrWithCleared == \A a \in Access : Or(NA, a) = a
  BY DEF Or, NA, Access, RW, RO

(* Any or of access fields that occurs is an access field again.            *)
LEMMA OrType == \A a, b \in Access : Or(a, b) \in Access
  BY DEF Or, NA, Access, RW, RO

-----------------------------------------------------------------------------
(* What each statement of protmem stores, register by register: the one it  *)
(* names changes and every other one keeps its value.                       *)
Stmt == call[curtcb]

(* Every store of a statement is in the task and the page of its call.      *)
LEMMA StoresOneRegister ==
    ASSUME TypeOK, ProtmemStmt
    PROVE  /\ \A t \in Tasks, p \in Pages : t # Stmt.of \/ p # Stmt.page =>
                 /\ tcb'[t].upd[p] = tcb[t].upd[p]
                 /\ tcb'[t].kpd[p] = tcb[t].kpd[p]
                 /\ asked'[t][p] = asked[t][p]
           /\ \A p \in Pages : p # Stmt.page =>
                 /\ mmu'.upd[p] = mmu.upd[p]
                 /\ mmu'.kpd[p] = mmu.kpd[p]
           /\ \A u \in Tasks : u # curtcb => call'[u] = call[u]
  <1>1. Stmt \in Call
    BY DEF ProtmemStmt, TypeOK, Stmt
  <1>2. Stmt.of \in Tasks /\ Stmt.page \in Pages
    BY <1>1 DEF Call
  <1>3. CASE MaskTcb(Stmt)
    BY <1>2, <1>3 DEF MaskTcb, TypeOK, Map
  <1>4. CASE SetTcb(Stmt)
    <2> DEFINE v == Or(tcb[Stmt.of].upd[Stmt.page], Stmt.prot)
    <2>1. tcb' = [tcb EXCEPT ![Stmt.of].upd[Stmt.page] = v]
      BY <1>4 DEF SetTcb
    <2> HIDE DEF v
    <2> QED
      BY <1>2, <1>4, <2>1 DEF SetTcb, TypeOK, Map
  <1>5. CASE SetUser(Stmt)
    BY <1>2, <1>5 DEF SetUser, TypeOK, Map
  <1>6. CASE SaveKernel(Stmt)
    BY <1>2, <1>6 DEF SaveKernel, TypeOK, Map
  <1>7. CASE SetKernel(Stmt)
    BY <1>2, <1>7 DEF SetKernel, TypeOK, Map
  <1> QED
    BY <1>3, <1>4, <1>5, <1>6, <1>7 DEF ProtmemStmt, Stmt

(* The one register that a statement stores, and where the call stands      *)
(* next.                                                                    *)
LEMMA StoresItsRegister ==
    ASSUME TypeOK, ProtmemStmt, NEW t, t = Stmt.of, NEW p, p = Stmt.page
    PROVE  \/ /\ Stmt.at = "mask" /\ call'[curtcb] = [Stmt EXCEPT !.at = "set"]
              /\ tcb'[t].upd[p] = NA /\ tcb'[t].kpd[p] = tcb[t].kpd[p]
              /\ mmu' = mmu
           \/ /\ Stmt.at = "set" /\ call'[curtcb] = [Stmt EXCEPT !.at = "user"]
              /\ tcb'[t].upd[p] = Or(tcb[t].upd[p], Stmt.prot)
              /\ tcb'[t].kpd[p] = tcb[t].kpd[p] /\ mmu' = mmu
              /\ asked'[t][p] = Stmt.prot
           \/ /\ Stmt.at = "user" /\ call'[curtcb] = [Stmt EXCEPT !.at = "save"]
              /\ tcb' = tcb /\ asked' = asked
              /\ mmu'.upd[p] = tcb[t].upd[p] /\ mmu'.kpd[p] = mmu.kpd[p]
           \/ /\ Stmt.at = "save" /\ call'[curtcb] = [Stmt EXCEPT !.at = "kernel"]
              /\ tcb'[t].kpd[p] = tcb[t].upd[p] /\ tcb'[t].upd[p] = tcb[t].upd[p]
              /\ mmu' = mmu /\ asked' = asked
           \/ /\ Stmt.at = "kernel" /\ call'[curtcb] = NoCall
              /\ tcb' = tcb /\ asked' = asked
              /\ mmu'.kpd[p] = tcb[t].upd[p] /\ mmu'.upd[p] = mmu.upd[p]
  <1>1. Stmt \in Call
    BY DEF ProtmemStmt, TypeOK, Stmt
  <1>2. Stmt.of \in Tasks /\ Stmt.page \in Pages
    BY <1>1 DEF Call
  <1>3. CASE MaskTcb(Stmt)
    BY <1>2, <1>3 DEF MaskTcb, TypeOK, Map, Stmt
  <1>4. CASE SetTcb(Stmt)
    <2> DEFINE v == Or(tcb[Stmt.of].upd[Stmt.page], Stmt.prot)
    <2>1. tcb' = [tcb EXCEPT ![Stmt.of].upd[Stmt.page] = v]
      BY <1>4 DEF SetTcb
    <2>2. v = Or(tcb[t].upd[p], Stmt.prot)
      OBVIOUS
    <2> HIDE DEF v
    <2>3. tcb'[t].upd[p] = v /\ tcb'[t].kpd[p] = tcb[t].kpd[p]
      BY <1>2, <2>1 DEF TypeOK, Map
    <2>4. asked'[t][p] = Stmt.prot
      BY <1>2, <1>4 DEF SetTcb, TypeOK
    <2>5. call'[curtcb] = [Stmt EXCEPT !.at = "user"]
      BY <1>4 DEF SetTcb, TypeOK, Stmt
    <2> QED
      BY <1>4, <2>2, <2>3, <2>4, <2>5 DEF SetTcb
  <1>5. CASE SetUser(Stmt)
    BY <1>2, <1>5 DEF SetUser, TypeOK, Map, Stmt
  <1>6. CASE SaveKernel(Stmt)
    BY <1>2, <1>6 DEF SaveKernel, TypeOK, Map, Stmt
  <1>7. CASE SetKernel(Stmt)
    BY <1>2, <1>7 DEF SetKernel, TypeOK, Map, Stmt
  <1> QED
    BY <1>3, <1>4, <1>5, <1>6, <1>7 DEF ProtmemStmt, Stmt

-----------------------------------------------------------------------------
(* INIT's access field is not one that protmem gives.                       *)
LEMMA InitIOIsOther == InitIO \notin Access
  BY DEF InitIO, Access, RW, RO, NA

(* The types hold initially.                                                *)
LEMMA TypeInit == Init => TypeOK
  <1> SUFFICES ASSUME Init PROVE TypeOK
    OBVIOUS
  <1>1. ASSUME NEW t \in Tasks
        PROVE  /\ FirstMap(t) \in Map
               /\ \A p \in Pages : FirstMap(t).upd[p] = InitIO => OfInit(t, p)
    BY DEF FirstMap, InitMap, TaskMap, Map, OfInit, Access, InitIO, RW, RO, NA
  <1>2. curtcb \in Tasks /\ ready \subseteq Tasks \ {curtcb}
    BY DEF Init
  <1>3. mmu \in Map /\ \A p \in Pages : mmu.upd[p] = InitIO => OfInit(curtcb, p)
    BY <1>1, <1>2 DEF Init
  <1>4. /\ tcb \in [Tasks -> Map]
        /\ \A t \in Tasks, p \in Pages : tcb[t].upd[p] = InitIO => OfInit(t, p)
    BY <1>1 DEF Init
  <1>5. asked \in [Tasks -> [Pages -> Access \cup {InitIO}]]
    BY <1>1 DEF Init, Map
  <1>6. call \in [Tasks -> Call \cup {NoCall}] /\ breach \subseteq {"other", "kernel"}
    BY DEF Init
  <1> QED
    BY <1>2, <1>3, <1>4, <1>5, <1>6 DEF TypeOK

(* A switch loads a map that the TCB of the dispatched task may hold.       *)
LEMMA TypeSwitch ==
    ASSUME TypeOK, NEW t \in Tasks, Switch(t), tcb' = tcb \/ copyMMUstate,
           ready' \subseteq Tasks \ {t}, UNCHANGED <<call, asked, breach>>
    PROVE  TypeOK'
  <1>1. /\ tcb' \in [Tasks -> Map]
        /\ \A u \in Tasks, p \in Pages : tcb'[u].upd[p] = InitIO => OfInit(u, p)
    <2>1. CASE tcb' = tcb
      BY <2>1 DEF TypeOK
    <2>2. CASE copyMMUstate
      <3>1. \A u \in Tasks : tcb'[u] = IF u = curtcb THEN mmu ELSE tcb[u]
        BY <2>2 DEF copyMMUstate, TypeOK
      <3>2. tcb' \in [Tasks -> Map]
        BY <2>2 DEF copyMMUstate, TypeOK
      <3> QED
        BY <3>1, <3>2 DEF TypeOK
    <2> QED
      BY <2>1, <2>2
  <1>2. /\ mmu' \in Map
        /\ \A p \in Pages : mmu'.upd[p] = InitIO => OfInit(curtcb', p)
    BY <1>1 DEF Switch
  <1> QED
    BY <1>1, <1>2 DEF Switch, TypeOK

(* Each store of protmem keeps the types: what it copies was cleared first. *)
LEMMA TypeStmt ==
    ASSUME TypeOK, PastMask, ProtmemStmt
    PROVE  TypeOK'
  <1> DEFINE c == call[curtcb]
             v == tcb[c.of].upd[c.page]
  <1>1. c \in Call /\ c # NoCall /\ curtcb \in Tasks
    BY DEF ProtmemStmt, TypeOK
  <1>2. c.at \in Stmts /\ c.of \in Tasks /\ c.page \in Pages /\ c.prot \in Access
    BY <1>1 DEF Call
  <1>3. \A s \in Stmts : [c EXCEPT !.at = s] \in Call
    BY <1>1 DEF Call
  <1>4. UNCHANGED <<curtcb, ready, breach>>
    BY DEF ProtmemStmt
  <1>5. c.at # "mask" => v \in Access
    BY <1>1 DEF PastMask
  <1>6. c.at # "mask" => Or(v, c.prot) \in Access
    BY <1>2, <1>5, OrType
  <1>7. /\ mmu' \in Map
        /\ tcb' \in [Tasks -> Map]
        /\ call' \in [Tasks -> Call \cup {NoCall}]
        /\ asked' \in [Tasks -> [Pages -> Access \cup {InitIO}]]
    <2>1. CASE MaskTcb(c)
      BY <1>2, <1>3, <2>1 DEF MaskTcb, TypeOK, Map, Access, Stmts
    <2>2. CASE SetTcb(c)
      <3>1. Or(v, c.prot) \in Access
        BY <1>6, <2>2 DEF SetTcb
      <3>2. tcb' \in [Tasks -> Map]
        BY <1>2, <2>2, <3>1 DEF SetTcb, TypeOK, Map
      <3>3. asked' \in [Tasks -> [Pages -> Access \cup {InitIO}]]
        BY <1>2, <2>2 DEF SetTcb, TypeOK
      <3>4. call' \in [Tasks -> Call \cup {NoCall}]
        BY <1>3, <2>2 DEF SetTcb, TypeOK, Stmts
      <3>5. mmu' \in Map
        BY <2>2 DEF SetTcb, TypeOK
      <3> QED
        BY <3>2, <3>3, <3>4, <3>5
    <2>3. CASE SetUser(c)
      <3>1. mmu' = [upd |-> [mmu.upd EXCEPT ![c.page] = v], kpd |-> mmu.kpd]
        BY <2>3 DEF SetUser, TypeOK, Map
      <3>2. v \in Access
        BY <1>5, <2>3 DEF SetUser
      <3> HIDE DEF v
      <3>3. mmu' \in Map
        BY <1>2, <3>1, <3>2 DEF TypeOK, Map
      <3> QED
        BY <1>3, <2>3, <3>3 DEF SetUser, TypeOK, Stmts
    <2>4. CASE SaveKernel(c)
      <3>1. v \in Access
        BY <1>5, <2>4 DEF SaveKernel
      <3>2. tcb' = [tcb EXCEPT ![c.of].kpd[c.page] = v]
        BY <2>4 DEF SaveKernel
      <3> HIDE DEF v
      <3>3. tcb' \in [Tasks -> Map]
        BY <1>2, <3>1, <3>2 DEF TypeOK, Map
      <3> QED
        BY <1>3, <2>4, <3>3 DEF SaveKernel, TypeOK, Stmts
    <2>5. CASE SetKernel(c)
      <3>1. mmu' = [kpd |-> [mmu.kpd EXCEPT ![c.page] = v], upd |-> mmu.upd]
        BY <2>5 DEF SetKernel, TypeOK, Map
      <3>2. v \in Access
        BY <1>5, <2>5 DEF SetKernel
      <3> HIDE DEF v
      <3>3. mmu' \in Map
        BY <1>2, <3>1, <3>2 DEF TypeOK, Map
      <3> QED
        BY <2>5, <3>3 DEF SetKernel, TypeOK
    <2> QED
      BY <2>1, <2>2, <2>3, <2>4, <2>5 DEF ProtmemStmt
  <1>8. ASSUME NEW t \in Tasks, NEW p \in Pages, tcb'[t].upd[p] = InitIO
        PROVE  OfInit(t, p)
    <2>1. CASE t # c.of \/ p # c.page
      BY <1>8, <2>1, StoresOneRegister DEF TypeOK, Stmt
    <2>2. CASE t = c.of /\ p = c.page
      <3>1. NA # InitIO /\ (c.at # "mask" => Or(v, c.prot) # InitIO)
        BY <1>6, InitIOIsOther DEF NA, InitIO
      <3>2. tcb'[t].upd[p] = v
        BY <1>8, <2>2, <3>1, StoresItsRegister DEF Stmt
      <3> QED
        BY <1>8, <2>2, <3>2 DEF TypeOK
    <2> QED
      BY <2>1, <2>2
  <1>9. ASSUME NEW p \in Pages, mmu'.upd[p] = InitIO
        PROVE  OfInit(curtcb, p)
    <2>1. CASE p # c.page
      BY <1>9, <2>1, StoresOneRegister DEF TypeOK, Stmt
    <2>2. CASE p = c.page
      <3>1. c.at = "user" => v # InitIO
        BY <1>5, InitIOIsOther
      <3>2. mmu'.upd[p] = mmu.upd[p]
        BY <1>9, <2>2, <3>1, StoresItsRegister DEF Stmt
      <3> QED
        BY <1>9, <3>2 DEF TypeOK
    <2> QED
      BY <2>1, <2>2
  <1> QED
    BY <1>4, <1>7, <1>8, <1>9 DEF TypeOK

(* Every step keeps the types.                                              *)
LEMMA TypeStep ==
    ASSUME TypeOK, PastMask, Next
    PROVE  TypeOK'
  <1>1. ASSUME NEW t \in Tasks, ClockSwitch(t) PROVE TypeOK'
    <2>1. ready' \subseteq Tasks \ {t}
      BY <1>1 DEF ClockSwitch, TypeOK
    <2> QED
      BY <1>1, <2>1, TypeSwitch DEF ClockSwitch
  <1>2. ASSUME NEW t \in Tasks, Yield(t) PROVE TypeOK'
    <2>1. ready' \subseteq Tasks \ {t}
      BY <1>2 DEF Yield, TypeOK
    <2> QED
      BY <1>2, <2>1, TypeSwitch DEF Yield
  <1>3. ASSUME NEW t \in Tasks, Suspend(t) PROVE TypeOK'
    <2>1. ready' \subseteq Tasks \ {t}
      BY <1>3 DEF Suspend, TypeOK
    <2> QED
      BY <1>3, <2>1, TypeSwitch DEF Suspend
  <1>4. ASSUME NEW t \in Tasks, NEW p \in Pages, NEW prot \in Prots,
               Protmem(t, p, prot)
        PROVE  TypeOK'
    <2>1. breach' \subseteq {"other", "kernel"}
      BY <1>4 DEF Protmem, Exposes, TypeOK
    <2>2. [at |-> "mask", of |-> t, page |-> p, prot |-> prot] \in Call
      BY <1>4 DEF Protmem, Call, Stmts
    <2>3. call' \in [Tasks -> Call \cup {NoCall}]
      BY <1>4, <2>2 DEF Protmem, TypeOK
    <2> QED
      BY <1>4, <2>1, <2>3 DEF Protmem, TypeOK
  <1> QED
    BY <1>1, <1>2, <1>3, <1>4, TypeStmt DEF Next

-----------------------------------------------------------------------------
(* A switch: what a yield of INIT stores of its page 7 is what the TCB has. *)
LEMMA FieldSwitch ==
    ASSUME TypeOK, FieldInv, NEW t \in Tasks, Switch(t), UNCHANGED call,
           tcb' = tcb \/ (copyMMUstate /\ call[curtcb] = NoCall)
    PROVE  FieldInv'
  <1>1. ASSUME NEW u \in Tasks, NEW p \in Pages, tcb[u].upd[p] \in Access
        PROVE  tcb'[u].upd[p] \in Access
    <2>1. CASE tcb' = tcb \/ u # curtcb
      BY <1>1, <2>1 DEF copyMMUstate, TypeOK
    <2>2. CASE tcb' # tcb /\ u = curtcb
      <3>1. tcb'[u] = mmu /\ call[curtcb] = NoCall
        BY <2>2 DEF copyMMUstate, TypeOK
      <3>2. mmu.upd[p] # InitIO
        BY <1>1, <2>2, <3>1, InitIOIsOther DEF FieldInv, InitChanges, TypeOK, OfInit
      <3> QED
        BY <3>1, <3>2 DEF TypeOK, Map
    <2> QED
      BY <2>1, <2>2
  <1>2. PastMask'
    <2> SUFFICES ASSUME NEW u \in Tasks, call[u] # NoCall, call[u].at # "mask"
                 PROVE  tcb'[call[u].of].upd[call[u].page] \in Access
      BY DEF PastMask
    <2>1. call[u].of \in Tasks /\ call[u].page \in Pages
      BY DEF TypeOK, Call
    <2> QED
      BY <1>1, <2>1 DEF FieldInv, PastMask
  <1>3. tcb' \in [Tasks -> Map]
        /\ \A u \in Tasks, p \in Pages : tcb'[u].upd[p] = InitIO => OfInit(u, p)
    BY DEF copyMMUstate, TypeOK
  <1>4. \A p \in Pages : mmu'.upd[p] = InitIO => tcb'[InitTask].upd[p] = InitIO
    BY <1>3 DEF Switch, OfInit
  <1> QED
    BY <1>2, <1>4 DEF FieldInv

(* A new call has cleared nothing yet.                                      *)
LEMMA FieldCall ==
    ASSUME TypeOK, FieldInv, NEW t \in Tasks, NEW p \in Pages, NEW prot \in Prots,
           Protmem(t, p, prot)
    PROVE  FieldInv'
  <1> DEFINE m == [at |-> "mask", of |-> t, page |-> p, prot |-> prot]
  <1>1. call' = [call EXCEPT ![curtcb] = m] /\ m.at = "mask"
    BY DEF Protmem
  <1>2. UNCHANGED <<curtcb, mmu, tcb>> /\ call[curtcb] = NoCall
    BY DEF Protmem
  <1> HIDE DEF m
  <1>3. call'[curtcb] = m /\ \A u \in Tasks : u # curtcb => call'[u] = call[u]
    BY <1>1 DEF TypeOK
  <1>4. PastMask'
    BY <1>1, <1>2, <1>3 DEF FieldInv, PastMask
  <1>5. InitTask \in Tasks
    BY MapsAssumption
  <1>6. \A q \in Pages : InitChanges(q) => InitChanges(q)'
    BY <1>2, <1>3, <1>5 DEF InitChanges
  <1> QED
    BY <1>2, <1>4, <1>6 DEF FieldInv

(* A statement: after the first store of a call the register holds one of   *)
(* the three values, and only INIT's own call can leave the MMU behind.     *)
LEMMA FieldStmt ==
    ASSUME TypeOK, FieldInv, ProtmemStmt
    PROVE  FieldInv'
  <1> DEFINE o == Stmt.of
             q == Stmt.page
             v == tcb[o].upd[q]
  <1>1. Stmt # NoCall /\ Stmt \in Call /\ UNCHANGED curtcb /\ curtcb \in Tasks
    BY DEF ProtmemStmt, TypeOK, Stmt
  <1>2. o \in Tasks /\ q \in Pages /\ Stmt.prot \in Access
    BY <1>1 DEF Call
  <1>3. /\ \A t \in Tasks, p \in Pages : t # o \/ p # q =>
              tcb'[t].upd[p] = tcb[t].upd[p]
        /\ \A p \in Pages : p # q => mmu'.upd[p] = mmu.upd[p]
        /\ \A u \in Tasks : u # curtcb => call'[u] = call[u]
    BY StoresOneRegister
  <1>4. Stmt.at # "mask" => v \in Access
    BY <1>1 DEF FieldInv, PastMask, Stmt
  <1>5. Stmt.at # "mask" => Or(v, Stmt.prot) \in Access
    BY <1>2, <1>4, OrType
  <1>6. \A s \in Stmts : LET d == [Stmt EXCEPT !.at = s] IN
            d.at = s /\ d.of = o /\ d.page = q /\ d # NoCall
    <2>1. \A s \in Stmts : [Stmt EXCEPT !.at = s] \in Call
      BY <1>1 DEF Call
    <2> QED
      BY <1>1, <2>1, NoCallIsNoCall DEF Call
  <1>7. tcb'[o].upd[q] \in Access
    <2>1. NA \in Access
      BY DEF Access
    <2> HIDE DEF v
    <2>2. v = tcb[o].upd[q]
      BY DEF v
    <2> QED
      BY <1>4, <1>5, <2>1, <2>2, StoresItsRegister
  <1>8. call'[curtcb] # NoCall => call'[curtcb].of = o /\ call'[curtcb].page = q
    BY <1>6, StoresItsRegister DEF Stmts
  <1>9. PastMask'
    <2> SUFFICES ASSUME NEW u \in Tasks, call'[u] # NoCall, call'[u].at # "mask"
                 PROVE  tcb'[call'[u].of].upd[call'[u].page] \in Access
      BY DEF PastMask
    <2>1. CASE u = curtcb
      BY <1>7, <1>8, <2>1
    <2>2. CASE u # curtcb
      <3>1. call'[u] = call[u] /\ call[u] \in Call
        BY <1>3, <2>2 DEF TypeOK
      <3>2. call[u].of \in Tasks /\ call[u].page \in Pages
        BY <3>1 DEF Call
      <3>3. tcb[call[u].of].upd[call[u].page] \in Access
        BY <3>1 DEF FieldInv, PastMask
      <3> QED
        BY <1>3, <1>7, <3>1, <3>2, <3>3
    <2> QED
      BY <2>1, <2>2
  <1>10. ASSUME NEW p \in Pages, mmu'.upd[p] = InitIO
         PROVE  tcb'[InitTask].upd[p] = InitIO \/ InitChanges(p)'
    <2>1. Stmt.at # "mask" => v # InitIO
      BY <1>4, InitIOIsOther
    <2>2. mmu.upd[p] = InitIO /\ (p = q => Stmt.at # "user")
      BY <1>2, <1>3, <1>10, <2>1, StoresItsRegister
    <2>3. curtcb = InitTask
      BY <2>2 DEF TypeOK, OfInit
    <2>4. tcb[InitTask].upd[p] = InitIO \/ InitChanges(p)
      BY <2>2 DEF FieldInv
    <2>5. CASE o = InitTask /\ p = q
      <3>1. Stmt.at \in {"mask", "set"}
        <4>1. CASE tcb[InitTask].upd[p] = InitIO
          BY <1>1, <2>1, <2>5, <4>1 DEF Call, Stmts
        <4>2. CASE InitChanges(p)
          BY <2>2, <2>3, <2>5, <4>2 DEF InitChanges, Stmt
        <4> QED
          BY <2>4, <4>1, <4>2
      <3>2. call'[curtcb] = [Stmt EXCEPT !.at = "set"]
            \/ call'[curtcb] = [Stmt EXCEPT !.at = "user"]
        BY <3>1, StoresItsRegister
      <3> QED
        BY <1>1, <1>6, <2>3, <2>5, <3>2 DEF InitChanges, Stmts
    <2>6. CASE ~(o = InitTask /\ p = q)
      <3>1. ~InitChanges(p)
        BY <2>3, <2>6 DEF InitChanges, Stmt
      <3> QED
        BY <1>1, <1>3, <2>3, <2>4, <2>6, <3>1
    <2> QED
      BY <2>5, <2>6
  <1> QED
    BY <1>9, <1>10 DEF FieldInv

(* Every step keeps what the types rest on.                                 *)
LEMMA FieldStep ==
    ASSUME TypeOK, FieldInv, Next
    PROVE  FieldInv'
  <1>1. ASSUME NEW t \in Tasks, ClockSwitch(t) PROVE FieldInv'
    BY <1>1, FieldSwitch DEF ClockSwitch
  <1>2. ASSUME NEW t \in Tasks, Yield(t) PROVE FieldInv'
    BY <1>2, FieldSwitch DEF Yield
  <1>3. ASSUME NEW t \in Tasks, Suspend(t) PROVE FieldInv'
    BY <1>3, FieldSwitch DEF Suspend
  <1> QED
    BY <1>1, <1>2, <1>3, FieldCall, FieldStmt DEF Next

-----------------------------------------------------------------------------
(* Initially the running task has its own map and nobody calls protmem.     *)
LEMMA InvInit == Init => IInv
  <1> SUFFICES ASSUME Init PROVE IInv
    OBVIOUS
  <1>1. TypeOK
    BY TypeInit
  <1>2. OwnInv
    BY DEF Init, OwnInv, OwnCalls, Quiet
  <1>3. KernelInv
    BY DEF Init, KernelInv, FirstMap, InitMap, TaskMap, KernelPages
  <1>4. FieldInv
    <2>1. \A p \in Pages : mmu.upd[p] = InitIO => tcb[InitTask].upd[p] = InitIO
      BY <1>1, MapsAssumption DEF Init, TypeOK, OfInit
    <2>2. PastMask
      BY DEF Init, PastMask
    <2> QED
      BY <2>1, <2>2 DEF FieldInv
  <1> QED
    BY <1>1, <1>2, <1>3, <1>4 DEF IInv

(* A switch that stores nothing new hands the processor over together with  *)
(* the map of the dispatched task.                                          *)
LEMMA SwitchOwn ==
    ASSUME TypeOK, OwnInv, NEW t \in Tasks, tcb' = tcb, Switch(t),
           UNCHANGED <<call, asked>>
    PROVE  OwnInv'
  <1>1. OwnCalls'
    BY DEF OwnInv, OwnCalls
  <1>2. ASSUME NEW u \in Tasks, call[u] # NoCall PROVE Stored(u)'
    BY <1>2 DEF OwnInv, Stored, Switch
  <1>3. \A p \in Pages : mmu'.upd[p] = tcb'[curtcb'].upd[p]
                         /\ mmu'.kpd[p] = tcb'[curtcb'].kpd[p]
    BY DEF Switch
  <1>4. \A u \in Tasks, p \in Pages : Quiet(u, p)' => tcb'[u].upd[p] = asked'[u][p]
    BY DEF OwnInv, Quiet
  <1> QED
    BY <1>1, <1>2, <1>3, <1>4 DEF OwnInv

(* A task outside protmem that stores its map stores what its TCB holds.    *)
LEMMA StoresNothingNew ==
    ASSUME TypeOK, OwnInv, call[curtcb] = NoCall, copyMMUstate
    PROVE  tcb' = tcb
  <1>1. \A p \in Pages : mmu.upd[p] = tcb[curtcb].upd[p]
                         /\ mmu.kpd[p] = tcb[curtcb].kpd[p]
    BY DEF OwnInv, Quiet
  <1>2. mmu \in Map /\ tcb[curtcb] \in Map
    BY DEF TypeOK
  <1>3. mmu.upd = tcb[curtcb].upd
    BY <1>1, <1>2 DEF Map
  <1>4. mmu.kpd = tcb[curtcb].kpd
    BY <1>1, <1>2 DEF Map
  <1>5. mmu = tcb[curtcb]
    BY <1>2, <1>3, <1>4 DEF Map
  <1> QED
    BY <1>5 DEF copyMMUstate, TypeOK

(* A new call of protmem is about a page of the caller.                     *)
LEMMA CallOwn ==
    ASSUME TypeOK, OwnInv, NEW t \in Tasks, NEW p \in Pages, NEW prot \in Prots,
           Protmem(t, p, prot), "other" \notin breach'
    PROVE  OwnInv'
  <1>1. t = curtcb
    BY DEF Protmem, Exposes
  <1> DEFINE m == [at |-> "mask", of |-> t, page |-> p, prot |-> prot]
  <1>2. call' = [call EXCEPT ![curtcb] = m]
    BY DEF Protmem
  <1>3. m.at = "mask" /\ m.of = t /\ m.page = p
    OBVIOUS
  <1>4. m # NoCall
    BY DEF NoCall
  <1>5. UNCHANGED <<curtcb, mmu, tcb, asked>> /\ call[curtcb] = NoCall
    BY DEF Protmem
  <1> HIDE DEF m
  <1>6. call'[curtcb] = m /\ \A u \in Tasks : u # curtcb => call'[u] = call[u]
    BY <1>2 DEF TypeOK
  <1>7. OwnCalls'
    BY <1>1, <1>3, <1>6 DEF OwnInv, OwnCalls
  <1>8. ASSUME NEW u \in Tasks, call'[u] # NoCall PROVE Stored(u)'
    <2>1. CASE u = curtcb
      BY <1>3, <1>6, <2>1 DEF Stored
    <2>2. CASE u # curtcb
      BY <1>5, <1>6, <1>8, <2>2 DEF OwnInv, Stored
    <2> QED
      BY <2>1, <2>2
  <1>9. \A u \in Tasks, q \in Pages : Quiet(u, q)' => Quiet(u, q)
    BY <1>5, <1>6 DEF Quiet
  <1>10. \A q \in Pages : Quiet(curtcb, q)' =>
            mmu'.upd[q] = tcb'[curtcb'].upd[q] /\ mmu'.kpd[q] = tcb'[curtcb'].kpd[q]
    BY <1>5, <1>9 DEF OwnInv, TypeOK
  <1>11. \A u \in Tasks, q \in Pages : Quiet(u, q)' => tcb'[u].upd[q] = asked'[u][q]
    BY <1>5, <1>9 DEF OwnInv
  <1> QED
    BY <1>5, <1>7, <1>8, <1>10, <1>11 DEF OwnInv, Quiet

(* A statement of protmem keeps what the calls have stored; the last one    *)
(* leaves the page the same in the MMU and in the TCB.                      *)
LEMMA StmtOwn ==
    ASSUME TypeOK, OwnInv, ProtmemStmt
    PROVE  OwnInv'
  <1> DEFINE o == curtcb
             q == Stmt.page
  <1>1. Stmt # NoCall /\ Stmt \in Call /\ UNCHANGED curtcb
    BY DEF ProtmemStmt, TypeOK, Stmt
  <1>2. Stmt.of = o /\ q \in Pages /\ o \in Tasks /\ Stmt.prot \in Access
    BY <1>1 DEF OwnInv, OwnCalls, Stmt, Call, TypeOK
  <1>3. /\ \A t \in Tasks, p \in Pages : t # o \/ p # q =>
              /\ tcb'[t].upd[p] = tcb[t].upd[p]
              /\ tcb'[t].kpd[p] = tcb[t].kpd[p]
              /\ asked'[t][p] = asked[t][p]
        /\ \A p \in Pages : p # q =>
              /\ mmu'.upd[p] = mmu.upd[p]
              /\ mmu'.kpd[p] = mmu.kpd[p]
        /\ \A u \in Tasks : u # o => call'[u] = call[u]
    BY <1>2, StoresOneRegister
  <1>4. Stored(o)
    BY <1>1, <1>2 DEF OwnInv, Stmt
  <1>5. \A s \in Stmts : LET d == [Stmt EXCEPT !.at = s] IN
            d.at = s /\ d.of = o /\ d.page = q /\ d.prot = Stmt.prot /\ d # NoCall
    <2>1. \A s \in Stmts : [Stmt EXCEPT !.at = s] \in Call
      BY <1>1 DEF Call
    <2> QED
      BY <1>1, <1>2, <2>1, NoCallIsNoCall DEF Call
  <1>6. \/ /\ call'[o] # NoCall /\ call'[o].of = o /\ call'[o].page = q
           /\ Stored(o)'
        \/ /\ call'[o] = NoCall
           /\ mmu'.upd[q] = tcb'[o].upd[q] /\ mmu'.kpd[q] = tcb'[o].kpd[q]
           /\ tcb'[o].upd[q] = asked'[o][q]
    <2>1. CASE /\ Stmt.at = "mask" /\ call'[curtcb] = [Stmt EXCEPT !.at = "set"]
               /\ tcb'[o].upd[q] = NA
      BY <1>1, <1>2, <1>5, <2>1 DEF Stored, Stmts
    <2>2. CASE /\ Stmt.at = "set" /\ call'[curtcb] = [Stmt EXCEPT !.at = "user"]
               /\ tcb'[o].upd[q] = Or(tcb[o].upd[q], Stmt.prot)
               /\ asked'[o][q] = Stmt.prot
      <3>1. tcb'[o].upd[q] = Stmt.prot
        BY <1>2, <1>4, <2>2, OrWithCleared DEF Stored, Stmt
      <3> QED
        BY <1>1, <1>2, <1>5, <2>2, <3>1 DEF Stored, Stmts
    <2>3. CASE /\ Stmt.at = "user" /\ call'[curtcb] = [Stmt EXCEPT !.at = "save"]
               /\ tcb' = tcb /\ asked' = asked
               /\ mmu'.upd[q] = tcb[o].upd[q]
      BY <1>1, <1>2, <1>4, <1>5, <2>3 DEF Stored, Stmts, Stmt
    <2>4. CASE /\ Stmt.at = "save" /\ call'[curtcb] = [Stmt EXCEPT !.at = "kernel"]
               /\ tcb'[o].kpd[q] = tcb[o].upd[q] /\ tcb'[o].upd[q] = tcb[o].upd[q]
               /\ mmu' = mmu /\ asked' = asked
      BY <1>1, <1>2, <1>4, <1>5, <2>4 DEF Stored, Stmts, Stmt
    <2>5. CASE /\ Stmt.at = "kernel" /\ call'[curtcb] = NoCall
               /\ tcb' = tcb /\ asked' = asked
               /\ mmu'.kpd[q] = tcb[o].upd[q] /\ mmu'.upd[q] = mmu.upd[q]
      BY <1>1, <1>2, <1>4, <2>5 DEF Stored, Stmt
    <2> QED
      BY <1>2, <2>1, <2>2, <2>3, <2>4, <2>5, StoresItsRegister
  <1>7. OwnCalls'
    BY <1>3, <1>6 DEF OwnInv, OwnCalls
  <1>8. ASSUME NEW u \in Tasks, call'[u] # NoCall, u # o PROVE Stored(u)'
    <2>1. call'[u] = call[u] /\ call[u] \in Call
      BY <1>3, <1>8 DEF TypeOK
    <2>2. call[u].page \in Pages
      BY <2>1 DEF Call
    <2>3. Stored(u)
      BY <1>8, <2>1 DEF OwnInv
    <2> QED
      BY <1>1, <1>3, <1>8, <2>1, <2>2, <2>3 DEF Stored
  <1>9. \A p \in Pages : Quiet(o, p)' /\ p # q => Quiet(o, p)
    BY <1>1, <1>6 DEF Quiet, Stmt
  <1>10. \A p \in Pages : Quiet(o, p)' =>
            mmu'.upd[p] = tcb'[o].upd[p] /\ mmu'.kpd[p] = tcb'[o].kpd[p]
            /\ tcb'[o].upd[p] = asked'[o][p]
    <2> SUFFICES ASSUME NEW p \in Pages, Quiet(o, p)'
                 PROVE  mmu'.upd[p] = tcb'[o].upd[p] /\ mmu'.kpd[p] = tcb'[o].kpd[p]
                        /\ tcb'[o].upd[p] = asked'[o][p]
      BY <1>1 DEF Quiet
    <2>1. CASE p = q
      BY <1>1, <1>6, <2>1 DEF Quiet
    <2>2. CASE p # q
      <3>1. Quiet(o, p)
        BY <1>9, <2>2
      <3> QED
        BY <1>2, <1>3, <2>2, <3>1 DEF OwnInv
    <2> QED
      BY <2>1, <2>2
  <1>11. ASSUME NEW t \in Tasks, NEW p \in Pages, t # o, Quiet(t, p)'
         PROVE  tcb'[t].upd[p] = asked'[t][p]
    <2>1. Quiet(t, p)
      BY <1>3, <1>11 DEF Quiet
    <2> QED
      BY <1>3, <1>11, <2>1 DEF OwnInv
  <1> QED
    BY <1>1, <1>6, <1>7, <1>8, <1>10, <1>11 DEF OwnInv, Quiet

-----------------------------------------------------------------------------
(* No step changes a kernel page's register unless protmem was asked to.    *)
LEMMA KernelStep ==
    ASSUME TypeOK, KernelInv, Next, "kernel" \notin breach'
    PROVE  KernelInv'
  <1>1. ASSUME NEW t \in Tasks, ClockSwitch(t) PROVE KernelInv'
    BY <1>1 DEF ClockSwitch, Switch, KernelInv
  <1>2. ASSUME NEW t \in Tasks, copyMMUstate, Switch(t), UNCHANGED call
        PROVE  KernelInv'
    <2>1. \A u \in Tasks : tcb'[u] = IF u = curtcb THEN mmu ELSE tcb[u]
      BY <1>2 DEF copyMMUstate, TypeOK
    <2>2. \A p \in Pages \cap KernelPages, u \in Tasks : tcb'[u].kpd[p] = RW
      BY <2>1 DEF KernelInv
    <2> QED
      BY <1>2, <2>2 DEF Switch, KernelInv
  <1>3. ASSUME NEW t \in Tasks, NEW p \in Pages, NEW prot \in Prots,
               Protmem(t, p, prot)
        PROVE  KernelInv'
    <2>1. p \notin KernelPages
      BY <1>3 DEF Protmem, Exposes
    <2>2. \A u \in Tasks : call'[u] # NoCall => call'[u].page \notin KernelPages
      BY <1>3, <2>1 DEF Protmem, KernelInv, TypeOK
    <2> QED
      BY <1>3, <2>2 DEF Protmem, KernelInv
  <1>4. CASE ProtmemStmt
    <2>1. Stmt \in Call /\ Stmt # NoCall
      BY <1>4 DEF ProtmemStmt, TypeOK, Stmt
    <2>2. Stmt.page \notin KernelPages /\ Stmt.of \in Tasks
      BY <2>1 DEF KernelInv, Call, Stmt, TypeOK
    <2>3. \A s \in Stmts : [Stmt EXCEPT !.at = s].page = Stmt.page
      BY <2>1 DEF Call
    <2>4. call'[curtcb] = NoCall \/ call'[curtcb].page = Stmt.page
      BY <1>4, <2>3, StoresItsRegister DEF Stmts
    <2>5. \A u \in Tasks : call'[u] # NoCall => call'[u].page \notin KernelPages
      BY <1>4, <2>2, <2>4, StoresOneRegister DEF KernelInv, Stmt
    <2>6. \A p \in Pages \cap KernelPages : p # Stmt.page
      BY <2>2
    <2>7. \A p \in Pages \cap KernelPages :
             mmu'.kpd[p] = RW /\ \A t \in Tasks : tcb'[t].kpd[p] = RW
      BY <1>4, <2>6, StoresOneRegister DEF KernelInv
    <2> QED
      BY <2>5, <2>7 DEF KernelInv
  <1> QED
    BY <1>1, <1>2, <1>3, <1>4 DEF Next, Yield, Suspend

(* The inductive invariant is kept by every step.                           *)
LEMMA InvStep == IInv /\ [Next]_vars => IInv'
  <1> SUFFICES ASSUME IInv, [Next]_vars PROVE IInv'
    OBVIOUS
  <1>2. CASE UNCHANGED vars
    <2>1. TypeOK' /\ FieldInv'
      BY <1>2 DEF vars, IInv, TypeOK, FieldInv, PastMask, InitChanges
    <2>2. (OwnInv => OwnInv') /\ (KernelInv => KernelInv') /\ breach' = breach
      BY <1>2 DEF vars, OwnInv, OwnCalls, Stored, Quiet, KernelInv
    <2> QED
      BY <2>1, <2>2 DEF IInv
  <1>3. CASE Next
    <2>1. breach \subseteq breach'
      BY <1>3 DEF Next, ClockSwitch, Yield, Suspend, Protmem, ProtmemStmt
    <2>2. ASSUME "other" \notin breach' PROVE OwnInv'
      <3>1. TypeOK /\ OwnInv
        BY <2>1, <2>2 DEF IInv
      <3>2. ASSUME NEW t \in Tasks, ClockSwitch(t) PROVE OwnInv'
        BY <3>1, <3>2, SwitchOwn DEF ClockSwitch
      <3>3. ASSUME NEW t \in Tasks, Yield(t) PROVE OwnInv'
        BY <3>1, <3>3, SwitchOwn, StoresNothingNew DEF Yield
      <3>4. ASSUME NEW t \in Tasks, Suspend(t) PROVE OwnInv'
        BY <3>1, <3>4, SwitchOwn, StoresNothingNew DEF Suspend
      <3>5. ASSUME NEW t \in Tasks, NEW p \in Pages, NEW prot \in Prots,
                   Protmem(t, p, prot)
            PROVE  OwnInv'
        BY <2>2, <3>1, <3>5, CallOwn
      <3>6. CASE ProtmemStmt
        BY <3>1, <3>6, StmtOwn
      <3> QED
        BY <1>3, <3>2, <3>3, <3>4, <3>5, <3>6 DEF Next
    <2>3. ASSUME "kernel" \notin breach' PROVE KernelInv'
      BY <1>3, <2>1, <2>3, KernelStep DEF IInv
    <2>4. TypeOK' /\ FieldInv'
      BY <1>3, TypeStep, FieldStep DEF IInv, FieldInv
    <2> QED
      BY <2>2, <2>3, <2>4 DEF IInv
  <1> QED
    BY <1>2, <1>3

-----------------------------------------------------------------------------
(* IInv holds in every state of every behaviour.                            *)
THEOREM InductiveInvariant == Spec => []IInv
  BY InvInit, InvStep, PTL DEF Spec

(* Every page register always holds an access that protmem accepts, but for *)
(* INIT's user PDR of page 7, whose other value (muxx_fakeproc) neither a   *)
(* switch, a yield nor an interrupted protmem carries to another register.  *)
THEOREM TypeCorrect == Spec => []TypeOK
  <1>1. IInv => TypeOK
    BY DEF IInv
  <1> QED
    BY <1>1, InductiveInvariant, PTL

(* As long as nobody changes the page of another task, the running task     *)
(* runs on the map its TCB holds, in every page it is not changing.         *)
THEOREM OwnMap == Spec => []RunsOnOwnMap
  <1>1. IInv => RunsOnOwnMap
    <2> SUFFICES ASSUME IInv, "other" \notin breach,
                        NEW p \in Pages, ~Changing(curtcb, p)
                 PROVE  mmu.upd[p] = tcb[curtcb].upd[p]
                        /\ mmu.kpd[p] = tcb[curtcb].kpd[p]
      BY DEF RunsOnOwnMap
    <2>1. OwnInv /\ curtcb \in Tasks
      BY DEF IInv, TypeOK
    <2>2. Quiet(curtcb, p)
      BY <2>1 DEF Changing, Quiet, OwnInv, OwnCalls
    <2> QED
      BY <2>1, <2>2 DEF OwnInv
  <1> QED
    BY <1>1, InductiveInvariant, PTL

(* As long as nobody changes the page of another task, every page that is   *)
(* not being changed has the access last granted for it, however many       *)
(* switches fell between the five stores of the call that granted it.       *)
THEOREM AccessGranted == Spec => []AccessAsAsked
  <1>1. IInv => AccessAsAsked
    <2> SUFFICES ASSUME IInv, "other" \notin breach,
                        NEW t \in Tasks, NEW p \in Pages, ~Changing(t, p)
                 PROVE  tcb[t].upd[p] = asked[t][p]
                        /\ (t = curtcb => mmu.upd[p] = asked[t][p])
      BY DEF AccessAsAsked
    <2>1. OwnInv
      BY DEF IInv
    <2>2. Quiet(t, p)
      BY <2>1 DEF Changing, Quiet, OwnInv, OwnCalls
    <2> QED
      BY <2>1, <2>2 DEF OwnInv
  <1> QED
    BY <1>1, InductiveInvariant, PTL

(* As long as no page of the kernel is asked for, kernel mode keeps its     *)
(* code, its stack and the device registers in every map.                   *)
THEOREM KernelPagesKept == Spec => []KernelMapped
  <1>1. IInv => KernelMapped
    BY DEF IInv, KernelInv, KernelMapped
  <1> QED
    BY <1>1, InductiveInvariant, PTL

=============================================================================
