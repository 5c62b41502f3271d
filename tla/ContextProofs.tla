---------------------------- MODULE ContextProofs ----------------------------
(***************************************************************************)
(* Every task has a processor of its own, for every size of the task table *)
(* and every quantum.  The argument: what a task sees of the processor,    *)
(* Virtual(t), does not depend on whether it runs, because what the entry  *)
(* pushes and copytrapfp stores is exactly what muxx_switch loads.         *)
(***************************************************************************)
EXTENDS Context, SchedulerProofs, SequenceTheorems

(* The values of a register, the items of a kernel stack, the registers,    *)
(* and the processor as a task sees it.                                     *)
Modes == {"user", "kernel"}
Regs == [of : Ptr, mode : Modes, v : {0, 1}]
Item == [pc : Regs, mode : Modes] \cup [lo : Regs, hi : Regs]
CpuState == [lo : Regs, hi : Regs, pc : Regs, mode : Modes, usp : Regs]
View == [lo : Regs, hi : Regs, pc : Regs, mode : Modes, usp : Regs,
         stk : Seq(Item)]

CpuTypes ==
    /\ cpu \in CpuState
    /\ stack \in [Tasks -> Seq(Item)]
    /\ tcb = [t \in Tasks |-> tcb[t]]
    /\ svc \in [Tasks -> Services]
    /\ caller \in [Tasks -> CpuState]

(* What the trap has pushed for a service called with the registers c.      *)
CallFrame(c) == << [pc |-> c.pc, mode |-> "user"], [lo |-> Zero, hi |-> c.hi] >>

(* A task outside a service is in user mode with an empty kernel stack; a   *)
(* task inside one is in kernel mode, with the frame of its call below.     *)
Calling(t) ==
    /\ Virtual(t) \in View
    /\ svc[t] = "none" => Virtual(t).mode = "user" /\ Virtual(t).stk = << >>
    /\ svc[t] # "none" => /\ Virtual(t).mode = "kernel"
                          /\ Virtual(t).usp = caller[t].usp
                          /\ Virtual(t).stk = CallFrame(caller[t])

(* A task that does not run was left with its frame on top of its stack,    *)
(* or never ran and has an empty stack.                                     *)
Parked(t) ==
    t # curtcb => \/ /\ tcb[t].ksp = 0
                     /\ stack[t] = << >>
                  \/ /\ tcb[t].ksp \in Nat \ {0}
                     /\ Len(stack[t]) = tcb[t].ksp + 1

(* A task that has not run is as muxx_taskinit left it.                     *)
Unrun(t) ==
    status[t] \in {"FREE", "INIT"} => /\ tcb[t] = NewTcb(t)
                                      /\ stack[t] = << >>
                                      /\ svc[t] = "none"

CpuInv ==
    /\ CpuTypes
    /\ \A t \in Tasks : Calling(t) /\ Parked(t) /\ Unrun(t)

CIInv == IInv /\ (Sound => CpuInv)

-----------------------------------------------------------------------------
(* The switch.                                                              *)

LEMMA RegFacts ==
    /\ Zero \in Regs
    /\ Garbage \in Regs
    /\ \A t \in Tasks : Tag(t, "user", 0) \in Regs /\ Tag(t, "kernel", 0) \in Regs
  BY DEF Zero, Garbage, Tag, Regs, Modes, Ptr

(* The switch looks at the status only to tell whether the task ever ran.   *)
LEMMA SwitchStatus ==
    ASSUME NEW b, NEW s, NEW st1, NEW st2, (st1 = "INIT") <=> (st2 = "INIT")
    PROVE  SwitchTo(b, s, st1) = SwitchTo(b, s, st2)
  BY DEF SwitchTo

(* The registers and the stack are all that the switch yields.              *)
LEMMA SwitchRecord ==
    ASSUME NEW b, NEW s, NEW st
    PROVE  LET r == SwitchTo(b, s, st)
               c == Live(r)
           IN  /\ r = [lo |-> c.lo, hi |-> c.hi, pc |-> c.pc, mode |-> c.mode,
                       usp |-> c.usp, stk |-> r.stk]
               /\ r \in View => c \in CpuState
  <1> DEFINE l == b.lo  h == b.hi  u == b.usp
             p == SwitchTo(b, s, st).pc  m == SwitchTo(b, s, st).mode
             k == SwitchTo(b, s, st).stk
  <1>1. SwitchTo(b, s, st) = [lo |-> l, hi |-> h, pc |-> p, mode |-> m,
                              usp |-> u, stk |-> k]
    BY DEF SwitchTo
  <1> HIDE DEF l, h, u, p, m, k
  <1>2. Live(SwitchTo(b, s, st)) = [lo |-> l, hi |-> h, pc |-> p, mode |-> m,
                                    usp |-> u]
    BY <1>1 DEF Live
  <1> QED
    BY <1>1, <1>2 DEF View, CpuState

LEMMA ViewRecord ==
    ASSUME NEW l \in Regs, NEW h \in Regs, NEW p \in Regs, NEW m \in Modes,
           NEW u \in Regs, NEW k \in Seq(Item)
    PROVE  LET v == [lo |-> l, hi |-> h, pc |-> p, mode |-> m, usp |-> u,
                     stk |-> k]
           IN  v \in View /\ v.mode = m /\ v.stk = k
  BY DEF View

(* The first dispatch of a task starts it in user mode on an empty stack;   *)
(* so would, with a wrong PC, the dispatch of one suspended before.         *)
LEMMA SwitchUnrun ==
    ASSUME NEW t \in Tasks, NEW st
    PROVE  /\ SwitchTo(NewTcb(t), << >>, st) \in View
           /\ SwitchTo(NewTcb(t), << >>, st).mode = "user"
           /\ SwitchTo(NewTcb(t), << >>, st).stk = << >>
  <1> DEFINE pc == IF st = "INIT" THEN Tag(t, "user", 0) ELSE Garbage
             u  == Tag(t, "user", 0)
  <1>1. SubSeq(<< >>, 1, 0) = << >> /\ SubSeq(<< >>, 1, 0 - 1) = << >>
    BY SubSeqEmpty
  <1>2. 0 \notin DOMAIN << >>
    OBVIOUS
  <1>3. SwitchTo(NewTcb(t), << >>, st)
          = [lo |-> Zero, hi |-> Zero, pc |-> pc, mode |-> "user", usp |-> u,
             stk |-> << >>]
    BY <1>1, <1>2 DEF SwitchTo, NewTcb
  <1>4. pc \in Regs /\ u \in Regs /\ Zero \in Regs
    BY RegFacts
  <1>5. << >> \in Seq(Item)
    BY EmptySeq
  <1>6. "user" \in Modes
    BY DEF Modes
  <1> DEFINE e == << >>
             v == [lo |-> Zero, hi |-> Zero, pc |-> pc, mode |-> "user",
                   usp |-> u, stk |-> e]
  <1> HIDE DEF pc, u, e
  <1>7. e \in Seq(Item)
    BY <1>5 DEF e
  <1>8. v \in View /\ v.mode = "user" /\ v.stk = e
    BY <1>4, <1>6, <1>7, ViewRecord
  <1> HIDE DEF v
  <1>9. SwitchTo(NewTcb(t), << >>, st) = v /\ e = << >>
    BY <1>3 DEF v, e
  <1> QED
    BY <1>8, <1>9

(* What was saved from a stack s with a frame at its top, height fp, is     *)
(* what the switch finds.                                                   *)
Saved(s, fp) ==
    [lo |-> s[fp].lo, hi |-> s[fp].hi, pc |-> s[fp - 1].pc,
     mode |-> s[fp - 1].mode, usp |-> cpu.usp, stk |-> SubSeq(s, 1, fp - 2)]

LEMMA SwitchSaved ==
    ASSUME NEW s \in Seq(Item), NEW fp \in Nat, fp >= 2, Len(s) = fp,
           NEW st, st # "INIT"
    PROVE  SwitchTo(copytrapfp(s, fp), s, st) = Saved(s, fp)
  <1>1. fp - 1 \in DOMAIN s
    BY LenProperties
  <1>2. (fp - 1) - 1 = fp - 2
    OBVIOUS
  <1>3. copytrapfp(s, fp).ksp = fp - 1
    BY DEF copytrapfp
  <1> DEFINE b == copytrapfp(s, fp)
  <1>4. /\ b.lo = s[fp].lo /\ b.hi = s[fp].hi /\ b.usp = cpu.usp
    BY DEF copytrapfp
  <1> HIDE DEF b
  <1>5. SwitchTo(b, s, st) = [lo |-> b.lo, hi |-> b.hi, pc |-> s[fp - 1].pc,
                              mode |-> s[fp - 1].mode, usp |-> b.usp,
                              stk |-> SubSeq(s, 1, fp - 2)]
    BY <1>1, <1>2, <1>3 DEF SwitchTo, b
  <1> QED
    BY <1>4, <1>5 DEF Saved, b

(* Two items pushed on a stack.                                             *)
LEMMA Pushed ==
    ASSUME NEW s \in Seq(Item), NEW a \in Item, NEW b \in Item
    PROVE  LET q == s \o << a, b >>
           IN  /\ q \in Seq(Item)
               /\ Len(q) = Len(s) + 2
               /\ q[Len(s) + 1] = a
               /\ q[Len(s) + 2] = b
               /\ SubSeq(q, 1, Len(s)) = s
  <1> DEFINE p == << a, b >>
             q == s \o p
  <1>1. p \in Seq(Item) /\ Len(p) = 2 /\ p[1] = a /\ p[2] = b
    OBVIOUS
  <1>0. Len(s) \in Nat
    BY LenProperties
  <1> HIDE DEF p
  <1>2. /\ q \in Seq(Item)
        /\ Len(q) = Len(s) + 2
        /\ \A i \in 1 .. Len(s) + 2 :
              q[i] = IF i <= Len(s) THEN s[i] ELSE p[i - Len(s)]
    <2>1. /\ q \in Seq(Item)
          /\ Len(q) = Len(s) + Len(p)
          /\ \A i \in 1 .. Len(s) + Len(p) :
                q[i] = IF i <= Len(s) THEN s[i] ELSE p[i - Len(s)]
      BY <1>1, ConcatProperties, Zenon
    <2> HIDE DEF q
    <2> QED
      BY <1>1, <2>1
  <1> HIDE DEF q
  <1>3. q[Len(s) + 1] = a /\ q[Len(s) + 2] = b
    BY <1>0, <1>1, <1>2
  <1>4. SubSeq(q, 1, Len(s)) = s
    <2>1. \A i \in 1 .. Len(s) : q[i] \in Item /\ q[i] = s[i]
      BY <1>0, <1>2, LenProperties
    <2>2. /\ SubSeq(q, 1, Len(s)) \in Seq(Item)
          /\ Len(SubSeq(q, 1, Len(s))) = Len(s)
          /\ \A i \in 1 .. Len(s) : SubSeq(q, 1, Len(s))[i] = q[i]
      BY <1>0, <2>1, SubSeqProperties, SMTT(30)
    <2> QED
      BY <1>0, <2>1, <2>2, SeqEqual
  <1> QED
    BY <1>2, <1>3, <1>4 DEF q, p

-----------------------------------------------------------------------------
(* What the Scheduler's dispatches say of the statuses.                     *)
LEMMA GiveUpStatus ==
    ASSUME TypeOK, TypeOK', halted = "no", halted' = "no", GiveUp
    PROVE  /\ curtcb' \in Tasks
           /\ status' = [[status EXCEPT ![curtcb] = "READY"]
                            EXCEPT ![curtcb'] = "RUN"]
  <1>1. curtcb' \in Tasks
    BY DEF TypeOK
  <1>2. curtcb' # NULL
    BY <1>1, NullIsNoTask
  <1> DEFINE g == qGetTask(qAddTask(ReadyMem, curtcb))
  <1>3. /\ curtcb' = g.task
        /\ IF g.task = NULL
           THEN status' = [status EXCEPT ![curtcb] = "READY"]
                /\ halted' = "null task"
           ELSE status' = [[status EXCEPT ![curtcb] = "READY"]
                              EXCEPT ![g.task] = "RUN"]
                /\ halted' = halted
    BY DEF GiveUp, muxx_schedule
  <1> HIDE DEF g
  <1> QED
    BY <1>1, <1>2, <1>3

LEMMA SuspendStatus ==
    ASSUME TypeOK, TypeOK', NEW t \in Tasks, Suspend(t), halted' = "no"
    PROVE  /\ curtcb' \in Tasks
           /\ t # curtcb => /\ curtcb' = curtcb
                            /\ status' = [status EXCEPT ![t] = "SUSP"]
           /\ t = curtcb => status' = [[status EXCEPT ![t] = "SUSP"]
                                          EXCEPT ![curtcb'] = "RUN"]
  <1>1. curtcb' \in Tasks
    BY DEF TypeOK
  <1>2. curtcb' # NULL
    BY <1>1, NullIsNoTask
  <1> DEFINE st == [status EXCEPT ![t] = "SUSP"]
  <1>3. PICK m : IF t = curtcb THEN muxx_schedule(m, st)
                 ELSE status' = st /\ curtcb' = curtcb
    BY Zenon DEF Suspend
  <1> DEFINE g == qGetTask(m)
  <1>4. t = curtcb =>
          /\ curtcb' = g.task
          /\ IF g.task = NULL
             THEN status' = st /\ halted' = "null task"
             ELSE status' = [st EXCEPT ![g.task] = "RUN"]
    BY <1>3 DEF muxx_schedule
  <1> HIDE DEF g, st
  <1>5. t = curtcb => status' = [st EXCEPT ![curtcb'] = "RUN"]
    BY <1>2, <1>4
  <1> QED
    BY <1>1, <1>3, <1>5 DEF st

-----------------------------------------------------------------------------
(* The view of a task that neither ran nor runs.                            *)
LEMMA OtherView ==
    ASSUME NEW t \in Tasks, t # curtcb, t # curtcb',
           tcb'[t] = tcb[t], stack'[t] = stack[t],
           (status'[t] = "INIT") <=> (status[t] = "INIT")
    PROVE  Virtual(t)' = Virtual(t)
  <1>1. Virtual(t) = SwitchTo(tcb[t], stack[t], status[t])
    BY DEF Virtual
  <1>2. Virtual(t)' = SwitchTo(tcb'[t], stack'[t], status'[t])
    BY DEF Virtual
  <1> QED
    BY <1>1, <1>2, SwitchStatus

(* The view of the task that is switched to is what the switch yields.      *)
LEMMA LoadedView ==
    ASSUME NEW r, NEW b, NEW s, NEW st, r = SwitchTo(b, s, st),
           NEW t \in Tasks, t = curtcb', cpu' = Live(r), stack'[t] = r.stk
    PROVE  Virtual(t)' = r
  <1> DEFINE c == Live(r)
  <1>1. r = [lo |-> c.lo, hi |-> c.hi, pc |-> c.pc, mode |-> c.mode,
             usp |-> c.usp, stk |-> r.stk]
    BY SwitchRecord
  <1>2. Virtual(t)' = [lo |-> cpu'.lo, hi |-> cpu'.hi, pc |-> cpu'.pc,
                       mode |-> cpu'.mode, usp |-> cpu'.usp, stk |-> stack'[t]]
    BY DEF Virtual
  <1> QED
    BY <1>1, <1>2, Zenon

(* Saving the running task and switching: the running task keeps what was   *)
(* saved, the others what they had.                                         *)
SwitchDone(c, s, fp) ==
    /\ \A t \in Tasks \ {curtcb} : Virtual(t)' = Virtual(t)
    /\ Virtual(c)' = Saved(s, fp)
    /\ tcb' = [tcb EXCEPT ![curtcb] = copytrapfp(s, fp)]
    /\ \A t \in Tasks \ {curtcb'} :
          stack'[t] = IF t = curtcb THEN s ELSE stack[t]
    /\ cpu' \in CpuState
    /\ stack' \in [Tasks -> Seq(Item)]

LEMMA SwitchView ==
    ASSUME CpuInv, NEW c \in Tasks, c = curtcb, NEW n \in Tasks, n = curtcb',
           NEW s \in Seq(Item), NEW fp \in Nat, fp >= 2, Len(s) = fp,
           SaveAndSwitch(s, fp), Saved(s, fp) \in View,
           status'[curtcb] # "INIT",
           \A t \in Tasks \ {curtcb, curtcb'} : status'[t] = status[t]
    PROVE  SwitchDone(c, s, fp)
  <1> DEFINE k  == copytrapfp(s, fp)
             b  == [tcb EXCEPT ![curtcb] = k]
             s1 == [stack EXCEPT ![curtcb] = s]
             st == IF curtcb' = curtcb THEN "READY" ELSE status[curtcb']
             r  == SwitchTo(b[curtcb'], s1[curtcb'], st)
  <1>1. /\ tcb' = b
        /\ IF curtcb' = NULL
           THEN cpu' = cpu /\ stack' = s1
           ELSE cpu' = Live(r) /\ stack' = [s1 EXCEPT ![curtcb'] = r.stk]
    BY DEF SaveAndSwitch
  <1>2. curtcb' # NULL
    BY NullIsNoTask
  <1>3. s1 \in [Tasks -> Seq(Item)] /\ s1[curtcb] = s
        /\ \A t \in Tasks \ {curtcb} : s1[t] = stack[t]
    BY DEF CpuInv, CpuTypes
  <1>4. /\ b[curtcb] = k
        /\ \A t \in Tasks \ {curtcb} : b[t] = tcb[t]
    <2>1. tcb = [t \in Tasks |-> tcb[t]]
      BY DEF CpuInv, CpuTypes
    <2> HIDE DEF k
    <2> QED
      BY <2>1
  <1>5. r = IF curtcb' = curtcb THEN Saved(s, fp) ELSE Virtual(n)
    <2>1. CASE curtcb' = curtcb
      <3>1. r = SwitchTo(k, s, "READY")
        BY <1>3, <1>4, <2>1
      <3> QED
        BY <2>1, <3>1, SwitchSaved
    <2>2. CASE curtcb' # curtcb
      BY <1>3, <1>4, <2>2 DEF Virtual
    <2> QED
      BY <2>1, <2>2
  <1>6. r \in View
    <2>1. \A t \in Tasks : Virtual(t) \in View
      BY DEF CpuInv, Calling
    <2> HIDE DEF r
    <2> QED
      BY <1>5, <2>1
  <1>7. Live(r) \in CpuState /\ r.stk \in Seq(Item)
    <2>1. Live(r) \in CpuState
      BY <1>6, SwitchRecord
    <2> HIDE DEF r
    <2> QED
      BY <1>6, <2>1 DEF View
  <1> HIDE DEF b, s1, st, k
  <1>8. /\ stack' \in [Tasks -> Seq(Item)]
        /\ stack'[curtcb'] = r.stk
        /\ \A t \in Tasks \ {curtcb'} : stack'[t] = s1[t]
    <2> HIDE DEF r
    <2> QED
      BY <1>1, <1>2, <1>3, <1>7
  <1>9. cpu' = Live(r)
    BY <1>1, <1>2
  <1>10. Virtual(n)' = r
    BY <1>8, <1>9, LoadedView
  <1>11. \A t \in Tasks \ {curtcb'} :
            stack'[t] = IF t = curtcb THEN s ELSE stack[t]
    BY <1>3, <1>8
  <1>12. Virtual(c)' = Saved(s, fp)
    <2>1. CASE curtcb' = curtcb
      <3> HIDE DEF r
      <3> QED
        BY <2>1, <1>5, <1>10
    <2>2. CASE curtcb' # curtcb
      <3>1. Virtual(c)' = SwitchTo(tcb'[c], stack'[c], status'[c])
        BY <2>2 DEF Virtual
      <3>2. tcb'[curtcb] = copytrapfp(s, fp) /\ stack'[curtcb] = s
        BY <2>2, <1>1, <1>4, <1>11 DEF k
      <3> QED
        BY <3>1, <3>2, SwitchSaved
    <2> QED
      BY <2>1, <2>2
  <1>13. ASSUME NEW t \in Tasks \ {curtcb} PROVE Virtual(t)' = Virtual(t)
    <2>1. CASE t = curtcb'
      <3> HIDE DEF r
      <3> QED
        BY <2>1, <1>5, <1>10
    <2>2. CASE t # curtcb'
      <3>1. tcb'[t] = tcb[t] /\ stack'[t] = stack[t] /\ status'[t] = status[t]
        BY <2>2, <1>1, <1>4, <1>11
      <3> QED
        BY <2>2, <3>1, OtherView
    <2> QED
      BY <2>1, <2>2
  <1>14. tcb' = [tcb EXCEPT ![curtcb] = copytrapfp(s, fp)]
    BY <1>1 DEF b, k
  <1>15. cpu' \in CpuState
    BY <1>7, <1>9
  <1> QED
    BY <1>8, <1>11, <1>12, <1>13, <1>14, <1>15 DEF SwitchDone

-----------------------------------------------------------------------------
(* The view of the running task is the processor and its stack.             *)
LEMMA ViewFields ==
    ASSUME NEW c \in CpuState, NEW k \in Seq(Item),
           NEW v, v = [lo |-> c.lo, hi |-> c.hi, pc |-> c.pc, mode |-> c.mode,
                       usp |-> c.usp, stk |-> k]
    PROVE  /\ v \in View
           /\ v.lo = c.lo /\ v.hi = c.hi /\ v.pc = c.pc /\ v.mode = c.mode
           /\ v.usp = c.usp /\ v.stk = k
  BY DEF View, CpuState

LEMMA RunningView ==
    ASSUME NEW c \in Tasks, c = curtcb, cpu \in CpuState, stack[c] \in Seq(Item)
    PROVE  /\ Virtual(c) \in View
           /\ Virtual(c).lo = cpu.lo /\ Virtual(c).hi = cpu.hi
           /\ Virtual(c).pc = cpu.pc /\ Virtual(c).mode = cpu.mode
           /\ Virtual(c).usp = cpu.usp /\ Virtual(c).stk = stack[c]
  <1>1. Virtual(c) = [lo |-> cpu.lo, hi |-> cpu.hi, pc |-> cpu.pc,
                      mode |-> cpu.mode, usp |-> cpu.usp, stk |-> stack[c]]
    BY DEF Virtual
  <1> QED
    BY <1>1, ViewFields

LEMMA RunningViewAfter ==
    ASSUME NEW c \in Tasks, c = curtcb', cpu' \in CpuState,
           stack'[c] \in Seq(Item)
    PROVE  /\ Virtual(c)' \in View
           /\ Virtual(c)'.lo = cpu'.lo /\ Virtual(c)'.hi = cpu'.hi
           /\ Virtual(c)'.pc = cpu'.pc /\ Virtual(c)'.mode = cpu'.mode
           /\ Virtual(c)'.usp = cpu'.usp /\ Virtual(c)'.stk = stack'[c]
  <1>1. Virtual(c)' = [lo |-> cpu'.lo, hi |-> cpu'.hi, pc |-> cpu'.pc,
                      mode |-> cpu'.mode, usp |-> cpu'.usp, stk |-> stack'[c]]
    BY DEF Virtual
  <1> QED
    BY <1>1, ViewFields

(* What the invariant says of the running task.                             *)
LEMMA RunningFacts ==
    ASSUME CpuInv, NEW c \in Tasks, c = curtcb
    PROVE  /\ cpu \in CpuState /\ stack[c] \in Seq(Item)
           /\ svc[c] = "none" => cpu.mode = "user" /\ stack[c] = << >>
           /\ svc[c] # "none" => /\ cpu.mode = "kernel"
                                 /\ cpu.usp = caller[c].usp
                                 /\ stack[c] = CallFrame(caller[c])
  <1>1. cpu \in CpuState /\ stack[c] \in Seq(Item)
    BY DEF CpuInv, CpuTypes
  <1>2. Calling(c)
    BY DEF CpuInv
  <1> QED
    BY <1>1, <1>2, RunningView DEF Calling

(* A step keeps the invariant and the views of the tasks that do not run.   *)
Kept(c) ==
    /\ CpuInv'
    /\ \A t \in Tasks \ {c} : status[t] # "FREE" /\ ~SuspendedUnrun(t)
                                 => Virtual(t)' = Virtual(t)

(* A step after which the same task runs: it only changes what is its own,  *)
(* the status of a new task and that of a suspended one.                    *)
StaysAt(t) ==
    /\ tcb'[t] = tcb[t] /\ stack'[t] = stack[t]
    /\ svc'[t] = svc[t] /\ caller'[t] = caller[t]
    /\ \/ status'[t] = status[t]
       \/ status[t] = "FREE" /\ status'[t] = "INIT"
       \/ status'[t] = "SUSP"

LEMMA StayOther ==
    ASSUME CpuInv, NEW t \in Tasks, t # curtcb, t # curtcb', StaysAt(t)
    PROVE  /\ Calling(t)' /\ Parked(t)' /\ Unrun(t)'
           /\ status[t] # "FREE" /\ ~SuspendedUnrun(t) => Virtual(t)' = Virtual(t)
  <1>1. Calling(t) /\ Parked(t) /\ Unrun(t)
    BY DEF CpuInv
  <1>2. Parked(t)' /\ Unrun(t)'
    BY <1>1 DEF Parked, Unrun, StaysAt
  <1>3. CASE (status'[t] = "INIT") <=> (status[t] = "INIT")
    <2>1. Virtual(t)' = Virtual(t)
      BY <1>3, OtherView DEF StaysAt
    <2>2. Calling(t)'
      BY <1>1, <2>1 DEF Calling, StaysAt
    <2> QED
      BY <1>2, <2>1, <2>2
  <1>4. CASE ~((status'[t] = "INIT") <=> (status[t] = "INIT"))
    <2>1. status[t] \in {"FREE", "INIT"} /\ (status[t] = "FREE" \/ SuspendedUnrun(t))
      BY <1>4 DEF StaysAt, SuspendedUnrun
    <2>2. tcb'[t] = NewTcb(t) /\ stack'[t] = << >> /\ svc'[t] = "none"
      BY <1>1, <2>1 DEF Unrun, StaysAt
    <2>3. Virtual(t)' = SwitchTo(NewTcb(t), << >>, status'[t])
      BY <2>2 DEF Virtual
    <2>4. Virtual(t)' \in View /\ Virtual(t)'.mode = "user"
          /\ Virtual(t)'.stk = << >>
      BY <2>3, SwitchUnrun
    <2>5. Calling(t)'
      BY <2>2, <2>4 DEF Calling
    <2> QED
      BY <1>2, <2>1, <2>5
  <1> QED
    BY <1>3, <1>4

LEMMA Stay ==
    ASSUME CpuInv, NEW c \in Tasks, c = curtcb, c = curtcb', status'[c] = "RUN",
           \A t \in Tasks \ {c} : StaysAt(t), CpuTypes', Calling(c)'
    PROVE  Kept(c)
  <1>1. Parked(c)' /\ Unrun(c)'
    BY DEF Parked, Unrun
  <1>2. \A t \in Tasks \ {c} : 
           /\ Calling(t)' /\ Parked(t)' /\ Unrun(t)'
           /\ status[t] # "FREE" /\ ~SuspendedUnrun(t) => Virtual(t)' = Virtual(t)
    BY StayOther
  <1> QED
    BY <1>1, <1>2 DEF Kept, CpuInv

-----------------------------------------------------------------------------
(* Every step here is a step of the Scheduler or leaves it alone.           *)
LEMMA StepsOfScheduler == CNext => [Next]_vars
  <1>1. Clock => Next
    BY Zenon DEF Clock, Next
  <1>2. YieldSvc => Next
    BY Zenon DEF YieldSvc, Next
  <1>3. ASSUME NEW t \in Tasks, SuspendSvc(t) PROVE Next
    BY <1>3, Zenon DEF SuspendSvc, Next
  <1>4. CreateSvc => Next
    BY Zenon DEF CreateSvc, Next
  <1>5. UserStep => UNCHANGED vars
    BY Zenon DEF UserStep, vars
  <1>6. ASSUME NEW s, Trap(s) PROVE UNCHANGED vars
    BY <1>6, Zenon DEF Trap, vars
  <1> QED
    BY <1>1, <1>2, <1>3, <1>4, <1>5, <1>6, Zenon DEF CNext

(* The state before a step that ends in a sound one.                        *)
Before(c) ==
    /\ CpuInv /\ TypeOK /\ TypeOK' /\ halted = "no" /\ halted' = "no"
    /\ c \in Tasks /\ c = curtcb
    /\ \A t \in Tasks : status[t] = "RUN" <=> t = curtcb

LEMMA SoundStep ==
    ASSUME CIInv, CNext, Sound'
    PROVE  IInv' /\ Before(curtcb)
  <1>1. IInv /\ [Next]_vars
    BY StepsOfScheduler DEF CIInv
  <1>2. IInv'
    BY <1>1, IInvStep
  <1>3. TypeOK /\ TypeOK'
    BY <1>1, <1>2 DEF IInv
  <1>4. Sound
    <2>1. CASE Next
      BY <1>3, <2>1, SoundBefore DEF Sound
    <2>2. CASE UNCHANGED vars
      BY <2>2 DEF Sound, vars
    <2> QED
      BY <1>1, <2>1, <2>2
  <1>5. PICK rs, ss : QueueInv(rs, ss)
    BY <1>1, <1>4 DEF IInv
  <1>6. \A t \in Tasks : status[t] = "RUN" <=> t = curtcb
    BY <1>5 DEF QueueInv
  <1>7. curtcb \in Tasks
    BY <1>3, <1>4 DEF TypeOK, Sound
  <1> QED
    BY <1>2, <1>3, <1>4, <1>6, <1>7 DEF Before, Sound, CIInv

(* A step of the running program, in user or in kernel mode.                *)
LEMMA ExecuteCpu ==
    ASSUME CpuTypes, curtcb \in Tasks, Execute
    PROVE  /\ cpu' \in CpuState /\ cpu'.mode = cpu.mode
           /\ cpu.mode = "kernel" => cpu'.usp = cpu.usp
  <1> DEFINE w == Tag(curtcb, cpu.mode, 1 - cpu.pc.v)
             u == IF cpu.mode = "user" THEN w ELSE cpu.usp
  <1>1. cpu.pc.v \in {0, 1} /\ cpu.mode \in Modes /\ cpu.usp \in Regs
    BY DEF CpuTypes, CpuState, Regs
  <1>2. w \in Regs
    BY <1>1 DEF Tag, Regs, Ptr
  <1>3. cpu' = [lo |-> w, hi |-> w, pc |-> w, mode |-> cpu.mode, usp |-> u]
    BY DEF Execute
  <1>4. u \in Regs
    BY <1>1, <1>2
  <1>5. cpu.mode = "kernel" => u = cpu.usp
    OBVIOUS
  <1> HIDE DEF w, u
  <1> QED
    BY <1>1, <1>2, <1>3, <1>4, <1>5 DEF CpuState

LEMMA UserStepKept ==
    ASSUME NEW c, Before(c), UserStep
    PROVE  Kept(c)
  <1>1. /\ svc[c] = "none" /\ Execute /\ curtcb' = curtcb /\ status' = status
        /\ stack' = stack /\ tcb' = tcb /\ svc' = svc /\ caller' = caller
    BY DEF UserStep, Before, vars
  <1>2. CpuInv /\ c \in Tasks /\ c = curtcb /\ status[c] = "RUN" /\ CpuTypes
    BY DEF Before, CpuInv
  <1>3. cpu' \in CpuState /\ cpu'.mode = "user" /\ stack[c] = << >>
    BY <1>1, <1>2, ExecuteCpu, RunningFacts
  <1>4. CpuTypes'
    BY <1>1, <1>2, <1>3 DEF CpuTypes
  <1>5. stack'[c] \in Seq(Item)
    BY <1>2, <1>4 DEF CpuTypes
  <1>6. Calling(c)'
    BY <1>1, <1>2, <1>3, <1>5, RunningViewAfter DEF Calling
  <1>7. \A t \in Tasks \ {c} : StaysAt(t)
    BY <1>1 DEF StaysAt
  <1> QED
    BY <1>1, <1>2, <1>4, <1>6, <1>7, Stay

(* The frame a trap pushes on an empty stack.                               *)
LEMMA TrapFrame ==
    ASSUME NEW c \in CpuState, c.mode = "user"
    PROVE  /\ << >> \o << [pc |-> c.pc, mode |-> c.mode], [lo |-> Zero, hi |-> c.hi] >>
                = CallFrame(c)
           /\ CallFrame(c) \in Seq(Item)
  <1> DEFINE a == [pc |-> c.pc, mode |-> c.mode]
             b == [lo |-> Zero, hi |-> c.hi]
  <1>1. a \in Item /\ b \in Item
    BY RegFacts DEF Item, CpuState
  <1>2. CallFrame(c) = << a, b >>
    BY DEF CallFrame
  <1> HIDE DEF a, b
  <1>3. << a, b >> \in Seq(Item)
    BY <1>1
  <1>4. << >> \o << a, b >> = << a, b >>
    BY <1>3, ConcatEmptySeq
  <1> QED
    BY <1>2, <1>3, <1>4, Zenon DEF a, b

LEMMA TrapKept ==
    ASSUME NEW c, Before(c), NEW s \in Services \ {"none"}, Trap(s)
    PROVE  Kept(c)
  <1> DEFINE w == Tag(curtcb, "kernel", 0)
  <1>1. CpuInv /\ c \in Tasks /\ c = curtcb /\ status[c] = "RUN" /\ CpuTypes
    BY DEF Before, CpuInv
  <1>2. /\ svc[c] = "none" /\ curtcb' = curtcb /\ status' = status /\ tcb' = tcb
        /\ stack' = [stack EXCEPT ![curtcb] = Push(FALSE)]
        /\ cpu' = [lo |-> w, hi |-> w, pc |-> w, mode |-> "kernel", usp |-> cpu.usp]
        /\ svc' = [svc EXCEPT ![curtcb] = s]
        /\ caller' = [caller EXCEPT ![curtcb] = cpu]
    BY <1>1 DEF Trap, vars
  <1>3. cpu \in CpuState /\ cpu.mode = "user" /\ stack[c] = << >>
    BY <1>1, <1>2, RunningFacts
  <1>4. Push(FALSE) = CallFrame(cpu) /\ CallFrame(cpu) \in Seq(Item)
    <2>1. Push(FALSE) = << >> \o << [pc |-> cpu.pc, mode |-> cpu.mode],
                                    [lo |-> Zero, hi |-> cpu.hi] >>
      BY <1>1, <1>3 DEF Push
    <2> QED
      BY <1>3, <2>1, TrapFrame
  <1>5. w \in Regs
    BY <1>1, RegFacts
  <1> HIDE DEF w
  <1>6. cpu' \in CpuState /\ cpu'.mode = "kernel" /\ cpu'.usp = cpu.usp
    BY <1>2, <1>3, <1>5 DEF CpuState, Modes
  <1>7. /\ stack'[c] = CallFrame(cpu) /\ svc'[c] = s /\ caller'[c] = cpu
        /\ \A t \in Tasks \ {c} : /\ stack'[t] = stack[t] /\ svc'[t] = svc[t]
                                  /\ caller'[t] = caller[t]
    BY <1>1, <1>2, <1>4 DEF CpuTypes
  <1>8. CpuTypes'
    <2>1. stack' \in [Tasks -> Seq(Item)]
      BY <1>1, <1>2, <1>4 DEF CpuTypes
    <2>2. svc' \in [Tasks -> Services] /\ caller' \in [Tasks -> CpuState]
      BY <1>1, <1>2, <1>3 DEF CpuTypes
    <2> QED
      BY <1>1, <1>2, <1>6, <2>1, <2>2 DEF CpuTypes
  <1>9. Calling(c)'
    <2>1. stack'[c] \in Seq(Item)
      BY <1>4, <1>7
    <2> QED
      BY <1>1, <1>2, <1>6, <1>7, <2>1, RunningViewAfter DEF Calling
  <1>10. \A t \in Tasks \ {c} : StaysAt(t)
    BY <1>2, <1>7 DEF StaysAt
  <1> QED
    BY <1>1, <1>2, <1>8, <1>9, <1>10, Stay

-----------------------------------------------------------------------------
(* What the end of a service leaves to its caller.                          *)
Returned(c) ==
    /\ Virtual(c)'.hi = caller[c].hi
    /\ Virtual(c)'.pc = caller[c].pc
    /\ Virtual(c)'.usp = caller[c].usp
    /\ Virtual(c)'.mode = "user"
    /\ Virtual(c)'.stk = << >>

(* The frame of the call is on the stack of a task inside a service.        *)
LEMMA FrameOfCall ==
    ASSUME NEW c \in CpuState, NEW s, s = CallFrame(c)
    PROVE  /\ Len(s) = 2 /\ s[1].pc = c.pc /\ s[1].mode = "user"
           /\ s[2].hi = c.hi /\ s[2].lo = Zero
  BY DEF CallFrame

LEMMA LeaveFacts ==
    ASSUME CpuTypes, NEW c \in Tasks, c = curtcb, Leave
    PROVE  /\ svc' \in [Tasks -> Services] /\ caller' \in [Tasks -> CpuState]
           /\ svc'[c] = "none"
           /\ \A t \in Tasks \ {c} : svc'[t] = svc[t] /\ caller'[t] = caller[t]
  <1>1. NoCall \in CpuState
    BY RegFacts DEF NoCall, CpuState, Modes
  <1>2. "none" \in Services
    BY DEF Services
  <1> QED
    BY <1>1, <1>2 DEF CpuTypes, Leave

(* The processor after the end of muxx_trap.                                *)
LEMMA ReturnCpu ==
    ASSUME CpuInv, NEW c \in Tasks, c = curtcb, curtcb' = curtcb,
           svc[c] # "none", ServiceReturn
    PROVE  /\ cpu' \in CpuState
           /\ stack' \in [Tasks -> Seq(Item)]
           /\ stack'[c] = << >>
           /\ \A t \in Tasks \ {c} : stack'[t] = stack[t]
           /\ Returned(c) /\ Virtual(c)' \in View
  <1> DEFINE s == stack[c]
             f == caller[c]
  <1>1. CpuTypes /\ cpu \in CpuState /\ f \in CpuState
    BY DEF CpuInv, CpuTypes
  <1>2. cpu.usp = f.usp /\ s = CallFrame(f)
    BY RunningFacts
  <1>3. s[1].pc = f.pc /\ s[1].mode = "user" /\ s[2].hi = f.hi
    BY <1>1, <1>2, FrameOfCall
  <1>4. cpu' = [lo |-> cpu.lo, hi |-> s[2].hi, pc |-> s[1].pc,
                mode |-> s[1].mode, usp |-> cpu.usp]
        /\ stack' = [stack EXCEPT ![c] = << >>]
    BY DEF ServiceReturn
  <1> HIDE DEF s, f
  <1>5. cpu' = [lo |-> cpu.lo, hi |-> f.hi, pc |-> f.pc, mode |-> "user",
                usp |-> f.usp]
    BY <1>2, <1>3, <1>4
  <1>6. /\ cpu' \in CpuState
        /\ cpu'.hi = f.hi /\ cpu'.pc = f.pc /\ cpu'.mode = "user"
        /\ cpu'.usp = f.usp
    BY <1>1, <1>5 DEF CpuState, Modes
  <1> DEFINE e == << >>
  <1>7. e \in Seq(Item)
    BY EmptySeq
  <1> HIDE DEF e
  <1>8. /\ stack' \in [Tasks -> Seq(Item)] /\ stack'[c] = e
        /\ \A t \in Tasks \ {c} : stack'[t] = stack[t]
    <2>1. stack' = [stack EXCEPT ![c] = e]
      BY <1>4 DEF e
    <2> QED
      BY <1>1, <1>7, <2>1 DEF CpuTypes
  <1>9. /\ Virtual(c)' \in View
        /\ Virtual(c)'.hi = cpu'.hi /\ Virtual(c)'.pc = cpu'.pc
        /\ Virtual(c)'.mode = cpu'.mode /\ Virtual(c)'.usp = cpu'.usp
        /\ Virtual(c)'.stk = stack'[c]
    <2>1. stack'[c] \in Seq(Item)
      BY <1>7, <1>8
    <2> QED
      BY <1>6, <2>1, RunningViewAfter
  <1>10. Returned(c)
    BY <1>6, <1>8, <1>9 DEF Returned, f, e
  <1> QED
    BY <1>6, <1>8, <1>9, <1>10 DEF e

LEMMA ReturnKept ==
    ASSUME NEW c, Before(c), curtcb' = curtcb, tcb' = tcb, svc[c] # "none",
           ServiceReturn,
           \A t \in Tasks \ {c} : status'[t] = status[t] \/ status'[t] = "SUSP",
           status'[c] = status[c]
    PROVE  Kept(c) /\ Returned(c)
  <1>1. CpuInv /\ c \in Tasks /\ c = curtcb /\ status[c] = "RUN" /\ CpuTypes
    BY DEF Before, CpuInv
  <1>2. /\ cpu' \in CpuState
        /\ stack' \in [Tasks -> Seq(Item)]
        /\ \A t \in Tasks \ {c} : stack'[t] = stack[t]
        /\ Returned(c) /\ Virtual(c)' \in View
    BY <1>1, ReturnCpu
  <1>3. /\ svc' \in [Tasks -> Services] /\ caller' \in [Tasks -> CpuState]
        /\ svc'[c] = "none"
        /\ \A t \in Tasks \ {c} : svc'[t] = svc[t] /\ caller'[t] = caller[t]
    BY <1>1, LeaveFacts DEF ServiceReturn
  <1>4. CpuTypes'
    BY <1>1, <1>2, <1>3 DEF CpuTypes
  <1>5. Calling(c)'
    BY <1>2, <1>3 DEF Calling, Returned
  <1>6. \A t \in Tasks \ {c} : StaysAt(t)
    BY <1>2, <1>3 DEF StaysAt
  <1> QED
    BY <1>1, <1>2, <1>4, <1>5, <1>6, Stay

(* A step of creprc or loadprc that does not return.                        *)
LEMMA CreatingKept ==
    ASSUME NEW c, Before(c), curtcb' = curtcb, tcb' = tcb, svc[c] # "none",
           Execute, UNCHANGED <<stack, svc, caller>>,
           \A t \in Tasks \ {c} : \/ status'[t] = status[t]
                                  \/ status[t] = "FREE" /\ status'[t] = "INIT",
           status'[c] = status[c]
    PROVE  Kept(c)
  <1>1. CpuInv /\ c \in Tasks /\ c = curtcb /\ status[c] = "RUN" /\ CpuTypes
    BY DEF Before, CpuInv
  <1>2. /\ cpu.mode = "kernel" /\ cpu.usp = caller[c].usp
        /\ stack[c] = CallFrame(caller[c]) /\ stack[c] \in Seq(Item)
    BY <1>1, RunningFacts
  <1>3. cpu' \in CpuState /\ cpu'.mode = "kernel" /\ cpu'.usp = caller[c].usp
    BY <1>1, <1>2, ExecuteCpu
  <1>4. stack' = stack /\ svc' = svc /\ caller' = caller
    OBVIOUS
  <1>5. CpuTypes'
    BY <1>1, <1>3, <1>4 DEF CpuTypes
  <1>6. Calling(c)'
    BY <1>1, <1>2, <1>3, <1>4, RunningViewAfter DEF Calling
  <1>7. \A t \in Tasks \ {c} : StaysAt(t)
    BY <1>4 DEF StaysAt
  <1> QED
    BY <1>1, <1>5, <1>6, <1>7, Stay

(* creprc and loadprc.  muxx_taskinit finds in a free slot what it stores.  *)
LEMMA CreateSvcKept ==
    ASSUME NEW c, Before(c), CreateSvc
    PROVE  Kept(c) /\ (svc'[c] = "none" => Returned(c))
  <1>1. CpuInv /\ c \in Tasks /\ c = curtcb /\ status[c] = "RUN" /\ CpuTypes
        /\ TypeOK /\ svc[c] = "create" /\ halted' = "no"
    BY DEF Before, CpuInv, CreateSvc
  <1>2. CASE /\ CreateStart
             /\ Execute
             /\ tcb' = IF creation' = NoCreation THEN tcb
                       ELSE [tcb EXCEPT ![creation'.new] = NewTcb(creation'.new)]
             /\ UNCHANGED <<stack, svc, caller>>
    <2>1. PICK n \in FreeSlots :
            /\ status' = [status EXCEPT ![n] = "INIT"]
            /\ creation' = [by |-> curtcb, new |-> n, at |-> "mem", last |-> NULL]
      BY <1>1, <1>2 DEF CreateStart
    <2>2. n \in Tasks /\ status[n] = "FREE" /\ n # c /\ curtcb' = curtcb
      BY <1>1, <1>2, <2>1 DEF FreeSlots, CreateStart
    <2>3. creation'.new = n /\ creation' # NoCreation
      BY <2>1 DEF NoCreation
    <2>4. tcb[n] = NewTcb(n)
      BY <1>1, <2>2 DEF CpuInv, Unrun
    <2>5. tcb' = tcb
      <3> DEFINE w == NewTcb(n)
      <3>1. tcb' = [tcb EXCEPT ![n] = w] /\ tcb[n] = w
        BY <1>2, <2>3, <2>4
      <3>2. tcb = [t \in Tasks |-> tcb[t]]
        BY <1>1 DEF CpuTypes
      <3> HIDE DEF w
      <3> QED
        BY <2>2, <3>1, <3>2
    <2>6. /\ status'[c] = status[c]
          /\ \A t \in Tasks \ {c} : \/ status'[t] = status[t]
                                    \/ status[t] = "FREE" /\ status'[t] = "INIT"
      BY <1>1, <2>1, <2>2 DEF TypeOK
    <2>7. Kept(c)
      BY <1>1, <1>2, <2>2, <2>5, <2>6, CreatingKept
    <2> QED
      BY <1>1, <1>2, <2>7
  <1>3. CASE /\ EnqueueStart \/ (EnqueueStmt /\ creation' # NoCreation)
             /\ Execute
             /\ UNCHANGED <<stack, svc, tcb, caller>>
    <2>1. curtcb' = curtcb /\ status' = status
      BY <1>3, Zenon DEF EnqueueStart, EnqueueStmt
    <2>2. Kept(c)
      BY <1>1, <1>3, <2>1, CreatingKept
    <2> QED
      BY <1>1, <1>3, <2>2
  <1>4. CASE /\ CreateFails \/ (EnqueueStmt /\ creation' = NoCreation)
             /\ ServiceReturn
             /\ UNCHANGED tcb
    <2>1. curtcb' = curtcb /\ status' = status
      BY <1>4, Zenon DEF CreateFails, EnqueueStmt
    <2> QED
      BY <1>1, <1>4, <2>1, ReturnKept
  <1> QED
    BY <1>2, <1>3, <1>4, Zenon DEF CreateSvc

-----------------------------------------------------------------------------
(* A step that saves the running task and switches.                         *)
LEMMA Switched ==
    ASSUME NEW c, Before(c), NEW n \in Tasks, n = curtcb',
           NEW s \in Seq(Item), NEW fp \in Nat, fp >= 2, Len(s) = fp,
           SaveAndSwitch(s, fp), Saved(s, fp) \in View,
           status'[c] \notin {"INIT", "FREE"}, status'[n] = "RUN",
           \A t \in Tasks \ {c, n} : status'[t] = status[t],
           svc' \in [Tasks -> Services], caller' \in [Tasks -> CpuState],
           \A t \in Tasks \ {c} : svc'[t] = svc[t] /\ caller'[t] = caller[t],
           Virtual(c)' = Saved(s, fp) => Calling(c)'
    PROVE  Kept(c) /\ Virtual(c)' = Saved(s, fp)
  <1>1. CpuInv /\ c \in Tasks /\ c = curtcb /\ CpuTypes
    BY DEF Before, CpuInv
  <1>2. SwitchDone(c, s, fp)
    BY <1>1, SwitchView
  <1>3. Virtual(c)' = Saved(s, fp) /\ Calling(c)'
    BY <1>2 DEF SwitchDone
  <1>4. \A t \in Tasks \ {c} : Virtual(t)' = Virtual(t)
    BY <1>1, <1>2 DEF SwitchDone
  <1> DEFINE k == copytrapfp(s, fp)
  <1>5. tcb' = [tcb EXCEPT ![c] = k] /\ k.ksp = fp - 1
    BY <1>1, <1>2 DEF SwitchDone, copytrapfp
  <1> HIDE DEF k
  <1>6. /\ tcb' = [t \in Tasks |-> tcb'[t]]
        /\ tcb'[c] = k
        /\ \A t \in Tasks \ {c} : tcb'[t] = tcb[t]
    <2>1. tcb = [t \in Tasks |-> tcb[t]]
      BY <1>1 DEF CpuTypes
    <2> QED
      BY <1>1, <1>5, <2>1
  <1>7. \A t \in Tasks \ {n} : stack'[t] = IF t = c THEN s ELSE stack[t]
    BY <1>1, <1>2 DEF SwitchDone
  <1>8. CpuTypes'
    BY <1>2, <1>6 DEF CpuTypes, SwitchDone
  <1>9. ASSUME NEW t \in Tasks PROVE Calling(t)' /\ Parked(t)' /\ Unrun(t)'
    <2>1. Calling(t) /\ Parked(t) /\ Unrun(t)
      BY <1>1 DEF CpuInv
    <2>2. CASE t = c
      <3>1. Parked(t)'
        BY <2>2, <1>5, <1>6, <1>7 DEF Parked
      <3>2. Unrun(t)'
        BY <2>2 DEF Unrun
      <3> QED
        BY <2>2, <1>3, <3>1, <3>2
    <2>3. CASE t # c
      <3>1. Calling(t)'
        BY <2>1, <2>3, <1>4 DEF Calling
      <3>2. Parked(t)' /\ Unrun(t)'
        BY <1>1, <2>1, <2>3, <1>6, <1>7 DEF Parked, Unrun
      <3> QED
        BY <3>1, <3>2
    <2> QED
      BY <2>2, <2>3
  <1> QED
    BY <1>3, <1>4, <1>8, <1>9 DEF Kept, CpuInv

(* What the clock entry pushes and copytrapfp saves is what the task sees.  *)
LEMMA ClockFrame ==
    ASSUME CpuInv, NEW c \in Tasks, c = curtcb
    PROVE  LET s == Push(TRUE)
               fp == Len(stack[c]) + 2
           IN  /\ s \in Seq(Item) /\ fp \in Nat /\ fp >= 2 /\ Len(s) = fp
               /\ Saved(s, fp) = Virtual(c)
  <1> DEFINE k  == stack[c]
             a  == [pc |-> cpu.pc, mode |-> cpu.mode]
             b  == [lo |-> cpu.lo, hi |-> cpu.hi]
             s  == k \o << a, b >>
             fp == Len(k) + 2
  <1>1. cpu \in CpuState /\ k \in Seq(Item)
    BY DEF CpuInv, CpuTypes
  <1>2. a \in Item /\ b \in Item
    BY <1>1 DEF CpuState, Item
  <1>3. Len(k) \in Nat
    BY <1>1, LenProperties
  <1>4. Push(TRUE) = s
    BY DEF Push
  <1>5. a.pc = cpu.pc /\ a.mode = cpu.mode /\ b.lo = cpu.lo /\ b.hi = cpu.hi
    OBVIOUS
  <1>6. Virtual(c) = [lo |-> cpu.lo, hi |-> cpu.hi, pc |-> cpu.pc,
                      mode |-> cpu.mode, usp |-> cpu.usp, stk |-> k]
    BY DEF Virtual
  <1> HIDE DEF k, a, b
  <1>7. /\ s \in Seq(Item) /\ Len(s) = Len(k) + 2
        /\ s[Len(k) + 1] = a /\ s[Len(k) + 2] = b
        /\ SubSeq(s, 1, Len(k)) = k
    BY <1>1, <1>2, Pushed
  <1> HIDE DEF s
  <1>8. fp - 1 = Len(k) + 1 /\ fp - 2 = Len(k) /\ fp \in Nat /\ fp >= 2
    BY <1>3
  <1>9. /\ s[fp].lo = cpu.lo /\ s[fp].hi = cpu.hi /\ s[fp - 1].pc = cpu.pc
        /\ s[fp - 1].mode = cpu.mode /\ SubSeq(s, 1, fp - 2) = k
    BY <1>5, <1>7, <1>8
  <1> HIDE DEF fp
  <1>10. Saved(s, fp) = Virtual(c)
    BY <1>6, <1>9, Zenon DEF Saved
  <1> QED
    BY <1>4, <1>7, <1>8, <1>10 DEF fp, k

(* The clock interrupt, also at the end of a quantum inside a service.      *)
LEMMA ClockKept ==
    ASSUME NEW c, Before(c), Clock
    PROVE  Kept(c) /\ Virtual(c)' = Virtual(c) /\ svc' = svc
  <1>1. CpuInv /\ c \in Tasks /\ c = curtcb /\ status[c] = "RUN" /\ CpuTypes
        /\ TypeOK /\ TypeOK' /\ halted = "no" /\ halted' = "no"
    BY DEF Before, CpuInv
  <1>2. ClockTick /\ svc' = svc /\ caller' = caller
    BY DEF Clock
  <1>3. CASE clkcountdown = 1 /\ readyq.count > 0
    <2>1. GiveUp /\ SaveAndSwitch(Push(TRUE), Len(stack[c]) + 2)
      <3>1. GiveUp
        BY <1>2, <1>3 DEF ClockTick
      <3>2. SaveAndSwitch(Push(TRUE), Len(stack[curtcb]) + 2)
        BY <1>3, Zenon DEF Clock
      <3> QED
        BY <1>1, <3>1, <3>2, Zenon
    <2>2. PICK n \in Tasks : n = curtcb'
      BY <1>1, <2>1, GiveUpStatus
    <2>3. status' = [[status EXCEPT ![c] = "READY"] EXCEPT ![n] = "RUN"]
      BY <1>1, <2>1, <2>2, GiveUpStatus
    <2>4. /\ status'[c] \notin {"INIT", "FREE"} /\ status'[n] = "RUN"
          /\ \A t \in Tasks \ {c, n} : status'[t] = status[t]
      BY <1>1, <2>3 DEF TypeOK
    <2> DEFINE s == Push(TRUE)
               fp == Len(stack[c]) + 2
    <2>5. s \in Seq(Item) /\ fp \in Nat /\ fp >= 2 /\ Len(s) = fp
          /\ Saved(s, fp) = Virtual(c)
      BY <1>1, ClockFrame
    <2>6. Calling(c) /\ Virtual(c) \in View
      BY <1>1 DEF CpuInv, Calling
    <2>7. Virtual(c)' = Virtual(c) => Calling(c)'
      BY <1>2, <2>6 DEF Calling
    <2>8. svc' \in [Tasks -> Services] /\ caller' \in [Tasks -> CpuState]
          /\ \A t \in Tasks \ {c} : svc'[t] = svc[t] /\ caller'[t] = caller[t]
      BY <1>1, <1>2 DEF CpuTypes
    <2>9. SaveAndSwitch(s, fp)
      BY <2>1
    <2> HIDE DEF s, fp
    <2>10. Kept(c) /\ Virtual(c)' = Saved(s, fp)
      BY <2>2, <2>4, <2>5, <2>6, <2>7, <2>8, <2>9, Switched
    <2> QED
      BY <1>2, <2>5, <2>10
  <1>4. CASE ~(clkcountdown = 1 /\ readyq.count > 0)
    <2>1. cpu' = cpu /\ stack' = stack /\ tcb' = tcb
      BY <1>4 DEF Clock
    <2>2. curtcb' = curtcb /\ status' = status
      <3>1. clkcountdown > 1 \/ clkcountdown = 1
        BY <1>1, SchedulerAssumption DEF TypeOK
      <3> QED
        BY <1>2, <1>4, <3>1 DEF ClockTick
    <2>3. CpuTypes'
      BY <1>1, <1>2, <2>1 DEF CpuTypes
    <2>4. Virtual(c)' = Virtual(c)
      BY <1>1, <2>1, <2>2 DEF Virtual
    <2>5. Calling(c)
      BY <1>1 DEF CpuInv
    <2>6. Calling(c)'
      BY <1>2, <2>4, <2>5 DEF Calling
    <2>7. \A t \in Tasks \ {c} : StaysAt(t)
      BY <1>2, <2>1, <2>2 DEF StaysAt
    <2>8. Kept(c)
      BY <1>1, <2>2, <2>3, <2>6, <2>7, Stay
    <2> QED
      BY <1>2, <2>4, <2>8
  <1> QED
    BY <1>3, <1>4

(* muxx_svc_yield and muxx_svc_suspend save the frame of their own call.    *)
LEMMA CallSaved ==
    ASSUME CpuInv, NEW c \in Tasks, c = curtcb, svc[c] # "none"
    PROVE  LET s == stack[c]
               v == Saved(s, 2)
           IN  /\ s \in Seq(Item) /\ Len(s) = 2
               /\ v \in View
               /\ v.hi = caller[c].hi /\ v.pc = caller[c].pc
               /\ v.usp = caller[c].usp /\ v.mode = "user" /\ v.stk = << >>
               /\ v.lo = Zero
  <1> DEFINE s == stack[c]
             f == caller[c]
  <1>1. CpuTypes /\ f \in CpuState /\ cpu.usp = f.usp /\ s = CallFrame(f)
        /\ s \in Seq(Item)
    BY RunningFacts DEF CpuInv, CpuTypes
  <1>2. /\ Len(s) = 2 /\ s[1].pc = f.pc /\ s[1].mode = "user"
        /\ s[2].hi = f.hi /\ s[2].lo = Zero
    BY <1>1, FrameOfCall
  <1>3. 2 - 1 = 1 /\ 2 - 2 = 0 /\ SubSeq(s, 1, 0) = << >>
    BY SubSeqEmpty
  <1> DEFINE e == << >>
             d == [lo |-> Zero, hi |-> f.hi, pc |-> f.pc, mode |-> "user",
                   usp |-> f.usp]
  <1>4. e \in Seq(Item)
    BY EmptySeq
  <1>5. d \in CpuState
    BY <1>1, RegFacts DEF CpuState, Modes
  <1> HIDE DEF e, s, f
  <1>6. Saved(s, 2) = [lo |-> d.lo, hi |-> d.hi, pc |-> d.pc, mode |-> d.mode,
                       usp |-> d.usp, stk |-> e]
    <2>1. Saved(s, 2) = [lo |-> s[2].lo, hi |-> s[2].hi, pc |-> s[1].pc,
                         mode |-> s[1].mode, usp |-> cpu.usp, stk |-> e]
      BY <1>3 DEF Saved, e
    <2> QED
      BY <1>1, <1>2, <2>1
  <1>7. d.lo = Zero /\ d.hi = f.hi /\ d.pc = f.pc /\ d.mode = "user"
        /\ d.usp = f.usp
    OBVIOUS
  <1> HIDE DEF d
  <1> DEFINE v == Saved(s, 2)
  <1> HIDE DEF v
  <1>9. /\ v \in View
        /\ v.lo = d.lo /\ v.hi = d.hi /\ v.pc = d.pc /\ v.mode = d.mode
        /\ v.usp = d.usp /\ v.stk = e
    BY <1>4, <1>5, <1>6, ViewFields DEF v
  <1> QED
    BY <1>1, <1>2, <1>7, <1>9 DEF s, f, e, v

LEMMA CallSwitched ==
    ASSUME NEW c, Before(c), NEW n \in Tasks, n = curtcb', svc[c] # "none",
           SaveAndSwitch(stack[c], 2), Leave,
           status'[c] \notin {"INIT", "FREE"}, status'[n] = "RUN",
           \A t \in Tasks \ {c, n} : status'[t] = status[t]
    PROVE  Kept(c) /\ Returned(c) /\ Virtual(c)'.lo = Zero
  <1>1. CpuInv /\ c \in Tasks /\ c = curtcb /\ CpuTypes /\ TypeOK
    BY DEF Before, CpuInv
  <1> DEFINE s == stack[c]
             fp == 2
             v == Saved(s, fp)
  <1>2. /\ s \in Seq(Item) /\ Len(s) = 2
        /\ v \in View
        /\ v.hi = caller[c].hi /\ v.pc = caller[c].pc
        /\ v.usp = caller[c].usp /\ v.mode = "user" /\ v.stk = << >>
        /\ v.lo = Zero
    BY <1>1, CallSaved
  <1>3. /\ svc' \in [Tasks -> Services] /\ caller' \in [Tasks -> CpuState]
        /\ svc'[c] = "none"
        /\ \A t \in Tasks \ {c} : svc'[t] = svc[t] /\ caller'[t] = caller[t]
    BY <1>1, LeaveFacts
  <1>5. SaveAndSwitch(s, fp) /\ fp \in Nat /\ fp >= 2 /\ Len(s) = fp
    BY <1>2
  <1> HIDE DEF s, fp
  <1>6. Virtual(c)' = v => Calling(c)'
    <2> HIDE DEF v
    <2> QED
      BY <1>2, <1>3 DEF Calling
  <1>7. Kept(c) /\ Virtual(c)' = v
    <2>1. s \in Seq(Item) /\ Saved(s, fp) \in View
      BY <1>2
    <2>2. /\ svc' \in [Tasks -> Services] /\ caller' \in [Tasks -> CpuState]
          /\ \A t \in Tasks \ {c} : svc'[t] = svc[t] /\ caller'[t] = caller[t]
      BY <1>3
    <2>3. Virtual(c)' = Saved(s, fp) => Calling(c)'
      BY <1>6
    <2> HIDE DEF v
    <2>4. Kept(c) /\ Virtual(c)' = Saved(s, fp)
      BY <1>5, <2>1, <2>2, <2>3, Switched
    <2> QED
      BY <2>4 DEF v
  <1> HIDE DEF v
  <1> QED
    BY <1>2, <1>7 DEF Returned

LEMMA YieldSvcKept ==
    ASSUME NEW c, Before(c), YieldSvc
    PROVE  Kept(c) /\ Returned(c) /\ Virtual(c)'.lo = Zero
  <1>1. CpuInv /\ c \in Tasks /\ c = curtcb /\ TypeOK /\ TypeOK'
        /\ halted = "no" /\ halted' = "no"
    BY DEF Before
  <1>2. svc[c] = "yield" /\ GiveUp /\ SaveAndSwitch(stack[c], 2) /\ Leave
    BY <1>1 DEF YieldSvc, Yield
  <1>3. PICK n \in Tasks : n = curtcb'
    BY <1>1, <1>2, GiveUpStatus
  <1>4. status' = [[status EXCEPT ![c] = "READY"] EXCEPT ![n] = "RUN"]
    BY <1>1, <1>2, <1>3, GiveUpStatus
  <1>5. /\ status'[c] \notin {"INIT", "FREE"} /\ status'[n] = "RUN"
        /\ \A t \in Tasks \ {c, n} : status'[t] = status[t]
    BY <1>1, <1>4 DEF TypeOK
  <1> QED
    BY <1>2, <1>3, <1>5, CallSwitched

LEMMA SuspendSvcKept ==
    ASSUME NEW c, Before(c), NEW t \in Tasks, SuspendSvc(t)
    PROVE  Kept(c) /\ Returned(c)
  <1>1. CpuInv /\ c \in Tasks /\ c = curtcb /\ TypeOK /\ TypeOK'
        /\ halted = "no" /\ halted' = "no"
    BY DEF Before
  <1>2. /\ svc[c] = "suspend" /\ Suspend(t)
        /\ t = c => SaveAndSwitch(stack[c], 2) /\ Leave
        /\ t # c => ServiceReturn /\ tcb' = tcb
    BY <1>1 DEF SuspendSvc
  <1>3. /\ curtcb' \in Tasks
        /\ t # c => /\ curtcb' = curtcb
                    /\ status' = [status EXCEPT ![t] = "SUSP"]
        /\ t = c => status' = [[status EXCEPT ![t] = "SUSP"]
                                  EXCEPT ![curtcb'] = "RUN"]
    BY <1>1, <1>2, SuspendStatus
  <1>4. CASE t = c
    <2>1. PICK n \in Tasks : n = curtcb'
      BY <1>3
    <2>2. /\ status'[c] \notin {"INIT", "FREE"} /\ status'[n] = "RUN"
          /\ \A u \in Tasks \ {c, n} : status'[u] = status[u]
      BY <1>1, <1>3, <1>4, <2>1 DEF TypeOK
    <2> QED
      BY <1>2, <1>4, <2>1, <2>2, CallSwitched
  <1>5. CASE t # c
    <2>1. /\ status'[c] = status[c]
          /\ \A u \in Tasks \ {c} : status'[u] = status[u] \/ status'[u] = "SUSP"
      BY <1>1, <1>3, <1>5 DEF TypeOK
    <2> QED
      BY <1>2, <1>3, <1>5, <2>1, ReturnKept
  <1> QED
    BY <1>4, <1>5

-----------------------------------------------------------------------------
(* Every step that ends in a sound state.                                   *)
LEMMA ContextStep ==
    ASSUME CIInv, CNext, Sound', NEW c, c = curtcb
    PROVE  /\ IInv' /\ Kept(c)
           /\ Clock => Virtual(c)' = Virtual(c)
           /\ \A t \in Tasks : svc[t] # "none" /\ svc'[t] = "none"
                  => /\ t = c /\ Returned(c)
                     /\ svc[t] = "yield" => Virtual(c)'.lo = Zero
  <1>1. IInv' /\ Before(c)
    BY SoundStep
  <1>2. Clock => Virtual(c)' = Virtual(c)
    BY <1>1, ClockKept
  <1>3. CpuTypes /\ c \in Tasks
    BY <1>1 DEF Before, CpuInv
  <1> DEFINE Ret(t) == svc[t] # "none" /\ svc'[t] = "none"
                  => /\ t = c /\ Returned(c)
                     /\ svc[t] = "yield" => Virtual(c)'.lo = Zero
  <1> SUFFICES Kept(c) /\ \A t \in Tasks : Ret(t)
    BY <1>1, <1>2
  <1>4. ASSUME UNCHANGED svc PROVE \A t \in Tasks : Ret(t)
    BY <1>4
  <1>5. ASSUME Leave, Returned(c), svc[c] = "yield" => Virtual(c)'.lo = Zero
        PROVE  \A t \in Tasks : Ret(t)
    BY <1>3, <1>5, LeaveFacts
  <1>6. CASE UserStep
    BY <1>1, <1>4, <1>6, UserStepKept DEF UserStep
  <1>7. ASSUME NEW s \in Services \ {"none"}, Trap(s)
        PROVE  Kept(c) /\ \A t \in Tasks : Ret(t)
    <2>1. svc' = [svc EXCEPT ![c] = s]
      BY <1>7 DEF Trap
    <2>2. \A t \in Tasks : Ret(t)
      BY <1>3, <2>1 DEF CpuTypes
    <2> QED
      BY <1>1, <1>7, <2>2, TrapKept
  <1>8. CASE Clock
    BY <1>1, <1>4, <1>8, ClockKept
  <1>9. CASE YieldSvc
    BY <1>1, <1>5, <1>9, YieldSvcKept DEF YieldSvc
  <1>10. ASSUME NEW t \in Tasks, SuspendSvc(t)
         PROVE  Kept(c) /\ \A u \in Tasks : Ret(u)
    <2>1. Kept(c) /\ Returned(c)
      BY <1>1, <1>10, SuspendSvcKept
    <2>2. svc[c] = "suspend" /\ Leave
      BY <1>1, <1>10 DEF SuspendSvc, ServiceReturn, Before
    <2> QED
      BY <1>5, <2>1, <2>2
  <1>11. CASE CreateSvc
    <2>1. Kept(c) /\ (svc'[c] = "none" => Returned(c)) /\ svc[c] = "create"
      BY <1>1, <1>11, CreateSvcKept DEF CreateSvc
    <2>2. UNCHANGED svc \/ Leave
      BY <1>11, Zenon DEF CreateSvc, ServiceReturn
    <2>3. CASE Leave
      <3>1. svc'[c] = "none"
        BY <1>3, <2>3, LeaveFacts
      <3> QED
        BY <1>5, <2>1, <2>3, <3>1
    <2> QED
      BY <1>4, <2>1, <2>2, <2>3
  <1> QED
    BY <1>6, <1>7, <1>8, <1>9, <1>10, <1>11, Zenon DEF CNext

LEMMA CInvInit == CInit => CIInv
  <1> SUFFICES ASSUME CInit PROVE CIInv
    OBVIOUS
  <1>1. IInv /\ TypeOK
    BY IInvInit DEF CInit, IInv
  <1>2. /\ curtcb = INIT /\ INIT \in Tasks
        /\ status = [t \in Tasks |-> IF t = INIT THEN "RUN" ELSE "FREE"]
    <2>1. INIT \in Tasks
      BY TaskTableAssumption DEF Tasks, INIT
    <2> QED
      BY <2>1, Zenon DEF CInit, Init
  <1> DEFINE u == Tag(INIT, "user", 0)
             e == << >>
  <1>3. /\ cpu = [lo |-> Zero, hi |-> Zero, pc |-> u, mode |-> "user", usp |-> u]
        /\ stack = [t \in Tasks |-> e]
        /\ tcb = [t \in Tasks |-> NewTcb(t)]
        /\ svc = [t \in Tasks |-> "none"]
        /\ caller = [t \in Tasks |-> NoCall]
    BY DEF CInit
  <1>4. u \in Regs /\ Zero \in Regs /\ e \in Seq(Item) /\ NoCall \in CpuState
    BY <1>2, RegFacts, EmptySeq DEF NoCall, CpuState, Modes
  <1> HIDE DEF u
  <1>5. cpu \in CpuState /\ cpu.mode = "user"
    BY <1>3, <1>4 DEF CpuState, Modes
  <1>6. tcb = [t \in Tasks |-> tcb[t]] /\ \A t \in Tasks : tcb[t] = NewTcb(t)
    BY <1>3, Zenon
  <1>7. /\ stack \in [Tasks -> Seq(Item)]
        /\ \A t \in Tasks : stack[t] = e /\ svc[t] = "none"
    <2> HIDE DEF e
    <2> QED
      BY <1>3, <1>4
  <1>8. CpuTypes
    BY <1>3, <1>4, <1>5, <1>6, <1>7 DEF CpuTypes, Services
  <1>9. ASSUME NEW t \in Tasks PROVE Calling(t) /\ Parked(t) /\ Unrun(t)
    <2>1. CASE t = curtcb
      <3>1. stack[t] \in Seq(Item)
        BY <1>8 DEF CpuTypes
      <3>2. Calling(t)
        BY <1>5, <1>7, <2>1, <3>1, RunningView DEF Calling
      <3>3. status[t] = "RUN"
        BY <1>2, <2>1
      <3> QED
        BY <2>1, <3>2, <3>3 DEF Parked, Unrun
    <2>2. CASE t # curtcb
      <3>1. Virtual(t) = SwitchTo(NewTcb(t), << >>, status[t])
        BY <1>6, <1>7, <2>2 DEF Virtual
      <3>2. Calling(t)
        BY <1>7, <3>1, SwitchUnrun DEF Calling
      <3>3. NewTcb(t).ksp = 0
        BY DEF NewTcb
      <3> QED
        BY <1>6, <1>7, <3>2, <3>3 DEF Parked, Unrun
    <2> QED
      BY <2>1, <2>2
  <1> QED
    BY <1>1, <1>8, <1>9 DEF CIInv, CpuInv

LEMMA CInvStep == CIInv /\ [CNext]_cvars => CIInv'
  <1> SUFFICES ASSUME CIInv, [CNext]_cvars PROVE CIInv'
    OBVIOUS
  <1>1. CASE CNext
    <2>1. IInv'
      BY <1>1, StepsOfScheduler, IInvStep DEF CIInv
    <2>2. Sound' => CpuInv'
      BY <1>1, ContextStep DEF Kept
    <2> QED
      BY <2>1, <2>2 DEF CIInv
  <1>2. CASE UNCHANGED cvars
    <2>1. IInv'
      BY <1>2, IInvStep DEF CIInv, cvars
    <2>2. /\ curtcb' = curtcb /\ status' = status /\ Sound' = Sound /\ cpu' = cpu
          /\ stack' = stack /\ tcb' = tcb /\ svc' = svc /\ caller' = caller
      BY <1>2 DEF cvars, cpuvars, vars, Sound
    <2>3. \A t \in Tasks : Virtual(t)' = Virtual(t)
      BY <2>2 DEF Virtual
    <2>4. CpuInv => CpuInv'
      BY <2>2, <2>3 DEF CpuInv, CpuTypes, Calling, Parked, Unrun
    <2> QED
      BY <2>1, <2>2, <2>4 DEF CIInv
  <1> QED
    BY <1>1, <1>2

(* In every sound state each task sees a processor of its own: in user mode *)
(* with an empty kernel stack, or inside a service with exactly the frame   *)
(* of its call on the stack, whether it runs or not.                        *)
THEOREM ContextInvariant == CSpec => []CIInv
  BY CInvInit, CInvStep, PTL DEF CSpec

(* No kernel stack ever holds more than the frame of a service and that of  *)
(* a clock interrupt, and none holds anything below a task in user mode.    *)
THEOREM StacksBounded == CSpec => []StackBounded
  <1>1. CIInv => StackBounded
    <2> SUFFICES ASSUME CIInv, Sound, NEW t \in Tasks
                 PROVE  /\ Len(stack[t]) <= 4
                        /\ Virtual(t).mode = "user" => Virtual(t).stk = << >>
      BY DEF StackBounded
    <2>1. Calling(t) /\ Parked(t) /\ Unrun(t) /\ CpuTypes
      BY DEF CIInv, CpuInv
    <2>2. Virtual(t).mode = "user" => Virtual(t).stk = << >>
      BY <2>1 DEF Calling
    <2>3. Len(Virtual(t).stk) \in {0, 2}
      <3>1. CASE svc[t] = "none"
        BY <2>1, <3>1 DEF Calling
      <3>2. CASE svc[t] # "none"
        <4>1. Virtual(t).stk = CallFrame(caller[t]) /\ caller[t] \in CpuState
          BY <2>1, <3>2 DEF Calling, CpuTypes
        <4> QED
          BY <4>1, FrameOfCall
      <3> QED
        BY <3>1, <3>2
    <2>4. CASE t = curtcb
      <3>1. stack[t] \in Seq(Item) /\ cpu \in CpuState
        BY <2>1 DEF CpuTypes
      <3>2. Virtual(t).stk = stack[t]
        BY <2>4, <3>1, RunningView
      <3>3. Len(stack[t]) \in {0, 2}
        BY <2>3, <3>2, Zenon
      <3>4. Len(stack[t]) <= 4
        <4> DEFINE n == Len(stack[t])
        <4> HIDE DEF n
        <4>1. n \in {0, 2}
          BY <3>3 DEF n
        <4>2. n <= 4
          BY <4>1
        <4> QED
          BY <4>2 DEF n
      <3> QED
        BY <2>2, <3>4, Zenon
    <2>5. CASE t # curtcb /\ tcb[t].ksp = 0
      <3>1. stack[t] = << >>
        BY <2>1, <2>5 DEF Parked
      <3>2. Len(stack[t]) = 0
        BY <3>1
      <3> QED
        BY <2>2, <3>2
    <2>6. CASE t # curtcb /\ tcb[t].ksp # 0
      <3> DEFINE s == stack[t]
                 k == tcb[t].ksp
      <3>1. k \in Nat \ {0} /\ Len(s) = k + 1 /\ s \in Seq(Item)
        BY <2>1, <2>6 DEF Parked, CpuTypes
      <3>2. status[t] # "INIT"
        <4>1. NewTcb(t).ksp = 0
          BY DEF NewTcb
        <4> QED
          BY <2>1, <2>6, <4>1 DEF Unrun
      <3>3. Virtual(t).stk = SubSeq(s, 1, k - 1)
        BY <2>6, <3>2 DEF Virtual, SwitchTo
      <3> HIDE DEF s, k
      <3>4. \A i \in 1 .. k - 1 : s[i] \in Item
        BY <3>1, LenProperties
      <3>5. Len(SubSeq(s, 1, k - 1)) = k - 1
        BY <3>1, <3>4, SubSeqProperties
      <3>6. Len(s) <= 4
        BY <2>3, <3>1, <3>3, <3>5
      <3> QED
        BY <2>2, <3>6 DEF s
    <2> QED
      BY <2>4, <2>5, <2>6
  <1> QED
    BY <1>1, ContextInvariant, PTL

(* No step of another task, no tick of the clock and no dispatch changes a  *)
(* register, a stack pointer or the kernel stack as a task sees them.       *)
THEOREM ContextsArePreserved == CSpec => ContextPreserved
  <1>1. CIInv /\ [CNext]_cvars =>
          [ Sound' => \A t \in Tasks :
              (/\ status[t] # "FREE"
               /\ t # curtcb \/ Clock
               /\ ~SuspendedUnrun(t))
                  => Virtual(t)' = Virtual(t) ]_cvars
    <2> SUFFICES ASSUME CIInv, CNext, Sound', NEW t \in Tasks, status[t] # "FREE",
                        t # curtcb \/ Clock, ~SuspendedUnrun(t)
                 PROVE  Virtual(t)' = Virtual(t)
      OBVIOUS
    <2>1. PICK c : c = curtcb
      OBVIOUS
    <2>2. Kept(c) /\ (Clock => Virtual(c)' = Virtual(c))
      BY <2>1, ContextStep
    <2> QED
      BY <2>1, <2>2 DEF Kept
  <1> QED
    BY <1>1, ContextInvariant, PTL DEF CSpec, ContextPreserved

(* A service returns where it was called from, in user mode, with the       *)
(* registers of the call and an empty kernel stack; a yield returns EOK.    *)
THEOREM ServicesReturn == CSpec => ServiceReturns
  <1>1. CIInv /\ [CNext]_cvars =>
          [ Sound' => \A t \in Tasks :
              (svc[t] # "none" /\ svc'[t] = "none")
                  => /\ Virtual(t)'.hi = caller[t].hi
                     /\ Virtual(t)'.pc = caller[t].pc
                     /\ Virtual(t)'.usp = caller[t].usp
                     /\ Virtual(t)'.mode = "user"
                     /\ Virtual(t)'.stk = << >>
                     /\ svc[t] = "yield" => Virtual(t)'.lo = Zero ]_cvars
    <2> SUFFICES ASSUME CIInv, CNext, Sound', NEW t \in Tasks,
                        svc[t] # "none", svc'[t] = "none"
                 PROVE  /\ Virtual(t)'.hi = caller[t].hi
                        /\ Virtual(t)'.pc = caller[t].pc
                        /\ Virtual(t)'.usp = caller[t].usp
                        /\ Virtual(t)'.mode = "user"
                        /\ Virtual(t)'.stk = << >>
                        /\ svc[t] = "yield" => Virtual(t)'.lo = Zero
      OBVIOUS
    <2>1. PICK c : c = curtcb
      OBVIOUS
    <2>2. t = c /\ Returned(c) /\ (svc[t] = "yield" => Virtual(c)'.lo = Zero)
      BY <2>1, ContextStep
    <2> QED
      BY <2>2 DEF Returned
  <1> QED
    BY <1>1, ContextInvariant, PTL DEF CSpec, ServiceReturns

=============================================================================
