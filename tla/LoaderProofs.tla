---------------------------- MODULE LoaderProofs -----------------------------
(***************************************************************************)
(* What a task has loaded is one whole image, and the reader is released,  *)
(* for any number of tasks, any tapes and any sizes of the I/O tables.     *)
(*                                                                         *)
(* The argument: a task that reads has a channel on the reader, so by the  *)
(* invariants of Channels it owns the reader and nobody else moves the     *)
(* tape between its header and its last cell.  That takes the absence of   *)
(* breaches, and here it is an invariant: load closes what it opened, and  *)
(* only that.  Phase(t) says what rshell and load in task t know of its    *)
(* call, its descriptor and the reader; Content(t) what the task has       *)
(* stored.  A descriptor counts from the unlock of its open to the unlock  *)
(* of its close (chan); the store in the table follows later.  The machine *)
(* stops inside the open, the close or the read of the running task, whose *)
(* phase may then be left in the middle.                                   *)
(***************************************************************************)
EXTENDS Loader, ChannelsProofs, SequenceTheorems

Cell == [im : Nat, at : Nat]
Errors == {"EOK", "ENOSYSRES", "ENOTFOUND", "EOFFLINE", "ELOCKED", "ENOAVAIL",
           "ENOTOPEN", "EEOF", "EINVLOAD", "ENOMEM"}
Parts == {"header", "text", "data"}
ShFrame == [at : Steps, part : Parts, n : Nat, header : Cell \cup {NULL},
            short : BOOLEAN, rc : Errors, size : Nat]

(* The first m cells after the header of image i.                           *)
Piece(i, m) == [k \in 1 .. m |-> [im |-> i, at |-> k]]

PosSound ==
    /\ pos.im \in 1 .. Len(tape.images) + 1
    /\ pos.at \in 0 .. IF pos.im \in DOMAIN tape.images
                        THEN Stored(tape.images[pos.im]) ELSE 0

LTypes ==
    /\ tape \in [images : Tapes, lost : BOOLEAN]
    /\ pos \in Cell
    /\ PosSound
    /\ sh \in [Tasks -> ShFrame]
    /\ core \in [Tasks -> Seq(Cell)]
    /\ errno \in [Tasks -> Errors]

-----------------------------------------------------------------------------
(* Nobody but open and close takes MUT_CHAN; every entry in use is on the   *)
(* reader; a task has one descriptor at most, and its entry allocated the   *)
(* reader.                                                                  *)
Has(t) == chan[t][LoadFd] # NULL

Channel ==
    /\ breach = {}
    /\ \A t \in Tasks : mutex["CHAN"] = t => call[t].svc \in {"open", "close"}
    /\ \A i \in Entries : iote[i].driver \in {PT, NULL}
    /\ \A t \in Tasks, f \in Fds : f # LoadFd => chan[t][f] = NULL
    /\ \A t \in Tasks : Has(t) => iote[chan[t][LoadFd]].dealloc

Idle(c) == c.svc = "none" /\ c.at = "user"
Reader(t) == drv[PT].ownerid = t

(* Statement l, without an error or with one: an open that has the reader,  *)
(* a close that has given it back.                                          *)
Taken(l, ok) == ok /\ l \in {"set", "free", "back", "mark", "unlock"}
Given(l, ok) == l \in {"reset", "free", "clear", "unlock"} \/ (l = "back" /\ ok)

Opening(t, c) ==
    /\ c.svc = "open" /\ c.dev = PT /\ c.fd = LoadFd
    /\ ~Has(t)
    /\ c.ok <=> errno[t] = "EOK"
    /\ ~Taken(c.at, c.ok) => ~Reader(t)
    /\ c.ok /\ c.at \in {"mark", "unlock"} => iote[c.io].dealloc

Closing(t, c) ==
    /\ c.svc = "close" /\ c.fd = LoadFd
    /\ Has(t)
    /\ Given(c.at, c.ok) => ~Reader(t)

(* The reader is the task's until the end, its descriptor until the last    *)
(* cell of its space is stored.                                             *)
Reading(t) == Reader(t) /\ (Has(t) <=> Len(core[t]) < Space[t])

Released(t) == ~Has(t) /\ (t \notin Overwritten => ~Reader(t))

Phase(t) ==
    LET c == call[t]
        l == sh[t].at
    IN  /\ l \in {"load", "sleep", "failed"} => Idle(c) /\ ~Has(t) /\ ~Reader(t)
        /\ l = "opening" => \/ Opening(t, c)
                            \/ /\ Idle(c)
                               /\ errno[t] = "EOK" => Has(t)
                               /\ errno[t] # "EOK" => ~Has(t) /\ ~Reader(t)
        /\ l \in {"read", "got"} => Idle(c) /\ Reading(t)
        /\ l = "reading" => c.svc = "transfer" /\ c.at = "io" /\ Reading(t)
        /\ l = "close" => Idle(c) /\ (Has(t) <=> t \notin Overwritten)
        /\ l = "closing" => \/ Closing(t, c) /\ t \notin Overwritten
                            \/ Idle(c) /\ Released(t)
        /\ l = "run" => Idle(c) /\ Released(t)

-----------------------------------------------------------------------------
(* The cells of the part of image im that frame s reads, and those before.  *)
Asked(s, im) == IF s.part = "text" THEN im.text ELSE im.data
Base(s, im)  == IF s.part = "text" THEN 0 ELSE im.text

(* The header was read: the tape stands behind it.                          *)
HeaderThere(s) ==
    /\ s.header \in Cell
    /\ s.header.im \in DOMAIN tape.images
    /\ s.header.at \in 0 .. Stored(tape.images[s.header.im])
    /\ pos = After(tape.images, s.header)

(* The header was accepted: what is stored is the beginning of its image    *)
(* and the tape stands behind it.                                           *)
PartThere(t, s) ==
    LET im == tape.images[s.header.im]
        m  == Len(core[t])
    IN  /\ s.header \in Cell
        /\ s.header.im \in DOMAIN tape.images
        /\ im.valid
        /\ Size(im) <= Space[t]
        /\ core[t] = Piece(s.header.im, m)
        /\ pos = After(tape.images, [im |-> s.header.im, at |-> m])
        /\ m = Base(s, im) + IF s.at = "read" THEN 0 ELSE s.n
        /\ s.at # "read" => s.n <= Asked(s, im)
        /\ s.at # "read" /\ s.short => s.n < Asked(s, im)
        /\ s.at = "got" /\ ~s.short => s.n = Asked(s, im)

Whole(t) ==
    \E i \in DOMAIN tape.images :
        /\ tape.images[i].valid
        /\ core[t] = Piece(i, Stored(tape.images[i]))

Content(t) ==
    LET s == sh[t]
    IN  /\ s.at \in {"load", "opening", "sleep", "failed"} =>
              s.part = "header" /\ core[t] = << >>
        /\ s.at \notin {"close", "closing", "run"} => s.rc = "EOK" /\ s.size = 0
        /\ s.at \in {"read", "reading", "got"} =>
              /\ s.part = "header" =>
                    /\ core[t] = << >>
                    /\ s.at # "read" /\ s.n > 0 => HeaderThere(s)
                    /\ s.at = "got" /\ ~s.short => s.n > 0
              /\ s.part # "header" => PartThere(t, s)
        /\ s.at \in {"reading", "got"} /\ s.short => errno[t] # "EOK"
        /\ s.at \in {"close", "closing", "run"} /\ s.rc # "EOK" => s.size = 0
        /\ s.at \in {"close", "closing", "run"} /\ s.size > 0 => Whole(t)
        /\ Len(core[t]) <= Space[t]

Panicked == halted # "no" => sh[curtcb].at \in {"opening", "got", "closing"}

LIInv ==
    /\ IInv /\ EntryInv /\ DeviceInv
    /\ LTypes
    /\ Channel
    /\ Panicked
    /\ \A t \in Tasks : t # curtcb \/ halted = "no" => Phase(t)
    /\ \A t \in Tasks : Content(t)

-----------------------------------------------------------------------------
(* The first descriptor is the least one.                                   *)
LEMMA FirstFd == LoadFd \in Table /\ LoadFd \in Fds /\ \A g \in Table : LoadFd <= g
  <1>1. 1 \in Table /\ \A g \in Table : 1 <= g
    BY LoaderAssumption, ChannelsAssumption DEF Table
  <1>2. LoadFd \in Table /\ \A g \in Table : LoadFd <= g
    BY <1>1 DEF LoadFd
  <1> QED  BY <1>2, TableFds

LEMMA ReaderIsADriver == PT \in Drivers /\ PT # NULL /\ PT \notin Shareable
  BY LoaderAssumption, ChannelsAssumption

(* A cell stored after the first m of an image makes them the first m + 1.  *)
LEMMA PieceGrows ==
    ASSUME NEW i, NEW m \in Nat, Piece(i, m) \in Seq(Cell)
    PROVE  Append(Piece(i, m), [im |-> i, at |-> m + 1]) = Piece(i, m + 1)
  BY DEF Piece

LEMMA PieceLen ==
    ASSUME NEW i, NEW m \in Nat
    PROVE  Len(Piece(i, m)) = m
  BY DEF Piece

(* The images of the tape.                                                  *)
LEMMA ImageTypes ==
    ASSUME LTypes
    PROVE  /\ tape.images \in Tapes
           /\ tape.images \in Seq(Images)
           /\ \A i \in DOMAIN tape.images :
                /\ tape.images[i] \in Images
                /\ Stored(tape.images[i]) \in Nat
                /\ Size(tape.images[i]) \in Nat
                /\ Size(tape.images[i]) >= Stored(tape.images[i])
           /\ \A i \in DOMAIN tape.images, t \in Tasks :
                Size(tape.images[i]) <= Space[t]
                    => Stored(tape.images[i]) <= Space[t]
  <1>1. tape.images \in Tapes /\ tape.images \in Seq(Images)
    BY LoaderAssumption DEF LTypes
  <1>2. \A i \in DOMAIN tape.images : tape.images[i] \in Images
    BY <1>1
  <1>3. ASSUME NEW i \in DOMAIN tape.images
        PROVE  /\ Stored(tape.images[i]) \in Nat
               /\ Size(tape.images[i]) \in Nat
               /\ Size(tape.images[i]) >= Stored(tape.images[i])
               /\ \A t \in Tasks : Size(tape.images[i]) <= Space[t]
                                     => Stored(tape.images[i]) <= Space[t]
    <2>1. tape.images[i] \in Images
        BY <1>2
    <2>2. /\ Stored(tape.images[i]) \in Nat
          /\ Size(tape.images[i]) \in Nat
          /\ Size(tape.images[i]) >= Stored(tape.images[i])
        BY <2>1 DEF Images, Stored, Size
    <2>3. ASSUME NEW t \in Tasks, Size(tape.images[i]) <= Space[t]
          PROVE  Stored(tape.images[i]) <= Space[t]
        <3>1. Space[t] \in Nat
            BY LoaderAssumption
        <3> QED  BY <2>2, <2>3, <3>1
    <2> QED  BY <2>2, <2>3
  <1> QED  BY <1>1, <1>2, <1>3

(* A task with a channel that it is not leaving owns the reader.            *)
LEMMA HasReader ==
    ASSUME IInv, EntryInv, DeviceInv, Channel, NEW t \in Tasks, Has(t),
           call[t].svc # "close" \/ call[t].at \in {"test", "lock", "check"}
    PROVE  /\ chan[t][LoadFd] \in Entries
           /\ iote[chan[t][LoadFd]].driver = PT \/ call[t].svc = "close"
           /\ iote[chan[t][LoadFd]].driver = PT => Reader(t) /\ drv[PT].alloc
  <1> DEFINE e == chan[t][LoadFd]
  <1>1. e \in Entries /\ e # NULL
    BY FirstFd, ChanType DEF Has
  <1>2. iote[e].driver \in {PT, NULL}
    BY <1>1 DEF Channel
  <1>3. call[t].svc # "close" => iote[e].driver # NULL
    BY <1>1, FirstFd DEF EntryInv, DescriptorsOpen
  <1>4. ~Leaving(call[t], e)
    BY DEF Leaving
  <1>5. ChannelsOwned(t)
    BY DEF DeviceInv, Channel
  <1>6. iote[e].driver = PT => Owns(t, PT)
    BY <1>1, <1>4, <1>5, FirstFd, ReaderIsADriver DEF ChannelsOwned
  <1> QED  BY <1>1, <1>2, <1>3, <1>6 DEF Owns, Reader

(* No two tasks read.                                                       *)
LEMMA OneReader ==
    ASSUME LIInv, halted = "no", NEW t \in Tasks, NEW u \in Tasks,
           sh[t].at \in {"read", "reading", "got"},
           sh[u].at \in {"read", "reading", "got"}
    PROVE  t = u
  <1>1. ASSUME NEW p \in Tasks, sh[p].at \in {"read", "reading", "got"}
        PROVE  Reader(p)
    <2>1. Phase(p)
        BY DEF LIInv
    <2> QED  BY <1>1, <2>1 DEF Phase, Reading
  <1> QED  BY <1>1 DEF Reader

-----------------------------------------------------------------------------
(* A step of the running task leaves task t where it stands: its own state, *)
(* whether it has the reader, and the flag of the entry it opens.           *)
SameTask(t) ==
    /\ sh'[t] = sh[t] /\ errno'[t] = errno[t] /\ core'[t] = core[t]
    /\ call'[t] = call[t] /\ chan'[t] = chan[t]
    /\ Reader(t)' <=> Reader(t)
    /\ call[t].svc = "open" /\ call[t].ok /\ call[t].at \in {"mark", "unlock"} =>
          iote'[call[t].io].dealloc = iote[call[t].io].dealloc

LEMMA SamePhase ==
    ASSUME NEW t \in Tasks, SameTask(t), Phase(t)
    PROVE  Phase(t)'
  <1>1. Has(t)' <=> Has(t)
    BY DEF SameTask, Has
  <1>2. (t \in Overwritten)' <=> t \in Overwritten
    BY DEF SameTask, Overwritten
  <1>3. Opening(t, call[t]) => Opening(t, call[t])'
    BY <1>1 DEF SameTask, Opening, Taken
  <1>4. Closing(t, call[t]) => Closing(t, call[t])'
    BY <1>1 DEF SameTask, Closing, Given
  <1>5. Released(t) => Released(t)'
    BY <1>1, <1>2 DEF SameTask, Released
  <1>6. Idle(call[t])' <=> Idle(call[t])
    BY DEF SameTask, Idle
  <1>7. sh'[t].at = sh[t].at /\ errno'[t] = errno[t] /\ call'[t] = call[t]
    BY DEF SameTask
  <1>8. Reader(t)' <=> Reader(t)
    BY DEF SameTask
  <1>9. Reading(t) => Reading(t)'
    BY <1>1, <1>8 DEF SameTask, Reading
  <1> QED  BY <1>1, <1>2, <1>3, <1>4, <1>5, <1>6, <1>7, <1>8, <1>9 DEF Phase

LEMMA SameContent ==
    ASSUME NEW t \in Tasks, Content(t),
           sh'[t] = sh[t], core'[t] = core[t], tape' = tape,
           sh[t].at \in {"read", "reading", "got"} => pos' = pos,
           sh[t].at \in {"reading", "got"} => errno'[t] = errno[t]
    PROVE  Content(t)'
  <1>1. Whole(t) => Whole(t)'
    BY DEF Whole
  <1>2. pos' = pos => /\ HeaderThere(sh[t]) => HeaderThere(sh[t])'
                      /\ PartThere(t, sh[t]) => PartThere(t, sh[t])'
    BY DEF HeaderThere, PartThere
  <1> QED  BY <1>1, <1>2 DEF Content

(* A step of the running task preserves the invariant when it leaves the    *)
(* other tasks as they are and its own task in a phase.                     *)
LEMMA OwnStep ==
    ASSUME LIInv, halted = "no", UNCHANGED curtcb, tape' = tape,
           (IInv /\ EntryInv /\ DeviceInv)', LTypes', Channel', Panicked',
           NEW p \in Tasks, p = curtcb,
           \A t \in Tasks : t # p => SameTask(t),
           pos' = pos \/ sh[p].at = "reading",
           halted' = "no" => Phase(p)',
           Content(p)'
    PROVE  LIInv'
  <1>1. ASSUME NEW t \in Tasks, t # curtcb' \/ halted' = "no"
        PROVE  Phase(t)'
    <2>1. CASE t = p
        BY <1>1, <2>1
    <2>2. CASE t # p
        <3>1. Phase(t) /\ SameTask(t)
            BY <2>2 DEF LIInv
        <3> QED  BY <3>1, SamePhase
    <2> QED  BY <2>1, <2>2
  <1>2. ASSUME NEW t \in Tasks
        PROVE  Content(t)'
    <2>1. CASE t = p
        BY <2>1
    <2>2. CASE t # p
        <3>1. Content(t) /\ SameTask(t)
            BY <2>2 DEF LIInv
        <3>2. sh[t].at \in {"read", "reading", "got"} => pos' = pos
            BY <2>2, OneReader
        <3> QED  BY <3>1, <3>2, SameContent DEF SameTask
    <2> QED  BY <2>1, <2>2
  <1> QED  BY <1>1, <1>2 DEF LIInv

(* The clock takes the processor away.                                      *)
LEMMA LPreempt ==
    ASSUME LIInv, NEW q \in Tasks, Preempt(q), UNCHANGED loadVars
    PROVE  LIInv'
  <1>1. /\ halted = "no" /\ halted' = "no"
        /\ UNCHANGED <<masked, mutex, drv, iote, chan, call, breach>>
        /\ UNCHANGED <<tape, pos, sh, core, errno>>
    BY SameChan DEF Preempt, loadVars
  <1>2. Next
    BY DEF Next
  <1>3. (IInv /\ EntryInv /\ DeviceInv)'
    BY <1>2, IInvStep, EntryInvStep, DeviceInvStep DEF LIInv
  <1>4. LTypes' /\ Channel' /\ Panicked'
    BY <1>1 DEF LIInv, LTypes, PosSound, Channel, Panicked, Has
  <1>5. ASSUME NEW t \in Tasks PROVE Phase(t)' /\ Content(t)'
    <2>1. SameTask(t)
        BY <1>1 DEF SameTask, Reader
    <2> QED  BY <1>1, <2>1, SamePhase, SameContent DEF LIInv
  <1> QED  BY <1>3, <1>4, <1>5 DEF LIInv

-----------------------------------------------------------------------------
(* A step that leaves the kernel alone leaves its invariants alone.         *)
LEMMA VarsStill ==
    ASSUME UNCHANGED vars
    PROVE  UNCHANGED <<curtcb, masked, mutex, drv, iote, chan, call, halted, breach>>
  <1>1. UNCHANGED <<fds, store>>
    BY DEF vars
  <1> QED  BY <1>1, SameChan DEF vars

LEMMA KernelStill ==
    ASSUME LIInv, UNCHANGED vars
    PROVE  (IInv /\ EntryInv /\ DeviceInv)' /\ Channel'
  <1>1. (IInv /\ EntryInv /\ DeviceInv)'
    BY IInvStep, EntryInvStep, DeviceInvStep DEF LIInv
  <1> QED  BY <1>1, VarsStill DEF LIInv, Channel, Has

(* The running task changes its frame to s.                                 *)
LEMMA ShMoved ==
    ASSUME LIInv, NEW p \in Tasks, NEW s \in ShFrame, sh' = [sh EXCEPT ![p] = s]
    PROVE  /\ sh' \in [Tasks -> ShFrame]
           /\ sh'[p] = s
           /\ \A t \in Tasks : t # p => sh'[t] = sh[t]
  BY DEF LIInv, LTypes

(* A step of rshell or load itself, which may lose its own descriptors.     *)
LEMMA TableStep ==
    ASSUME LIInv, halted = "no", tape' = tape,
           NEW p \in Tasks, p = curtcb, NEW s \in ShFrame,
           (IInv /\ EntryInv /\ DeviceInv)', Channel',
           UNCHANGED <<curtcb, drv, iote, call, halted>>,
           \A t \in Tasks : t # p => chan'[t] = chan[t],
           sh' = [sh EXCEPT ![p] = s],
           errno' \in [Tasks -> Errors], core' \in [Tasks -> Seq(Cell)],
           \A t \in Tasks : t # p => errno'[t] = errno[t] /\ core'[t] = core[t],
           pos' \in Cell, PosSound', pos' = pos \/ sh[p].at = "reading",
           Phase(p)', Content(p)'
    PROVE  LIInv'
  <1>1. \A t \in Tasks : t # p => SameTask(t)
    BY ShMoved DEF SameTask, Reader
  <1>2. LTypes'
    BY ShMoved DEF LIInv, LTypes
  <1>3. Panicked'
    BY DEF Panicked
  <1> QED  BY <1>1, <1>2, <1>3, OwnStep

LEMMA ProgramStep ==
    ASSUME LIInv, UNCHANGED vars, tape' = tape, halted = "no",
           NEW p \in Tasks, p = curtcb, NEW s \in ShFrame,
           sh' = [sh EXCEPT ![p] = s],
           errno' \in [Tasks -> Errors], core' \in [Tasks -> Seq(Cell)],
           \A t \in Tasks : t # p => errno'[t] = errno[t] /\ core'[t] = core[t],
           pos' \in Cell, PosSound', pos' = pos \/ sh[p].at = "reading",
           Phase(p)', Content(p)'
    PROVE  LIInv'
  BY KernelStill, VarsStill, TableStep

(* A read or a close with a lost descriptor: it fails, or the machine goes  *)
(* wrong.                                                                   *)
LEMMA LostStep ==
    ASSUME LIInv, halted = "no", halted' \in {"no", "wild channel"},
           UNCHANGED <<curtcb, masked, mutex, drv, iote, fds, store, call, breach>>,
           NEW p \in Tasks, p = curtcb, Idle(call[p]),
           NEW s \in ShFrame, s.at \in {"got", "closing"},
           sh' = [sh EXCEPT ![p] = s], errno' = [errno EXCEPT ![p] = "ENOTOPEN"],
           UNCHANGED <<tape, pos, core>>,
           Phase(p)', Content(p)'
    PROVE  LIInv'
  <1>0. chan' = chan
    BY SameChan
  <1>1. IInv'
    BY HaltStep DEF LIInv, Halts, DeallocPanics
  <1>2. EntryInv'
    BY <1>0, EntriesStill DEF LIInv
  <1>3. DeviceInv'
    <2>1. SameOwner /\ halted' # "muxx_svc_close" /\ Cur.at = "user"
        BY DEF SameOwner, Cur, Idle
    <2> QED  BY <1>0, <2>1, DeviceStill DEF LIInv
  <1>4. Channel'
    BY <1>0 DEF LIInv, Channel, Has
  <1>5. /\ sh' \in [Tasks -> ShFrame] /\ sh'[p] = s
        /\ \A t \in Tasks : t # p => sh'[t] = sh[t]
    BY ShMoved
  <1>6. errno' \in [Tasks -> Errors] /\ \A t \in Tasks : t # p => errno'[t] = errno[t]
    BY DEF LIInv, LTypes, Errors
  <1>7. LTypes'
    BY <1>5, <1>6 DEF LIInv, LTypes, PosSound
  <1>8. \A t \in Tasks : t # p => SameTask(t)
    BY <1>0, <1>5, <1>6 DEF SameTask, Reader
  <1>9. Panicked'
    BY <1>5 DEF Panicked
  <1> QED  BY <1>1, <1>2, <1>3, <1>4, <1>7, <1>8, <1>9, OwnStep

LEMMA FrameType ==
    ASSUME LIInv, NEW p \in Tasks
    PROVE  sh[p] \in ShFrame
  BY DEF LIInv, LTypes

(* open returned.                                                           *)
LEMMA LOpenReturned ==
    ASSUME LIInv, OpenReturned
    PROVE  LIInv'
  <1>0. PICK p \in Tasks : p = curtcb
    BY CurSound DEF LIInv
  <1> DEFINE l == IF errno[p] = "EOK" THEN "read"
                  ELSE IF errno[p] \in Retried THEN "sleep" ELSE "failed"
             s == [sh[p] EXCEPT !.at = l]
  <1>1. /\ halted = "no" /\ call[p].at = "user" /\ sh[p].at = "opening"
        /\ sh' = [sh EXCEPT ![p] = s]
        /\ UNCHANGED <<vars, tape, pos, core, errno>>
    BY <1>0 DEF OpenReturned, ShAt, At, Sh, Cur
  <1>2. l \in {"read", "sleep", "failed"} /\ s \in ShFrame /\ s.at = l
        /\ s.part = sh[p].part /\ s.rc = sh[p].rc /\ s.size = sh[p].size
    BY <1>0, FrameType DEF ShFrame, Steps
  <1>3. Phase(p) /\ Content(p) /\ CallSound(call[p])
    BY <1>0, <1>1 DEF LIInv, IInv
  <1>4. /\ Idle(call[p])
        /\ errno[p] = "EOK" => Reading(p)
        /\ errno[p] # "EOK" => ~Has(p) /\ ~Reader(p)
    <2>1. /\ Idle(call[p])
          /\ errno[p] = "EOK" => Has(p)
          /\ errno[p] # "EOK" => ~Has(p) /\ ~Reader(p)
        BY <1>1, <1>3 DEF Phase, Opening, CallSound
    <2>2. errno[p] = "EOK" => Reader(p)
        BY <2>1, HasReader DEF LIInv, Idle
    <2>3. Len(core[p]) = 0 /\ Space[p] \in Nat \ {0}
        BY <1>1, <1>3, LoaderAssumption DEF Content
    <2> QED  BY <2>1, <2>2, <2>3 DEF Reading
  <1>5. sh'[p] = s
    BY <1>0, <1>1, <1>2, ShMoved
  <1>6. Phase(p)'
    <2>1. Idle(call[p])' /\ (Has(p)' <=> Has(p)) /\ (Reader(p)' <=> Reader(p))
        BY <1>1, <1>4, VarsStill DEF Idle, Has, Reader
    <2>2. Reading(p) => Reading(p)'
        BY <1>1, <2>1 DEF Reading
    <2> HIDE DEF s
    <2> QED  BY <1>2, <1>4, <1>5, <2>1, <2>2 DEF Phase
  <1>7. Content(p)'
    <2> HIDE DEF s, l
    <2> QED  BY <1>1, <1>2, <1>3, <1>5 DEF Content
  <1>8. LTypes
    BY DEF LIInv
  <1> HIDE DEF s, l
  <1> QED  BY <1>0, <1>1, <1>2, <1>6, <1>7, <1>8, ProgramStep DEF LTypes, PosSound

(* sleep(1) is over.                                                        *)
LEMMA LWake ==
    ASSUME LIInv, Wake
    PROVE  LIInv'
  <1>0. PICK p \in Tasks : p = curtcb
    BY CurSound DEF LIInv
  <1>1. /\ halted = "no" /\ sh[p].at = "sleep"
        /\ sh' = [sh EXCEPT ![p] = Start]
        /\ UNCHANGED <<vars, tape, pos, core, errno>>
    BY <1>0 DEF Wake, ShAt, At, Sh, Cur
  <1>2. Start \in ShFrame
    BY DEF Start, ShFrame, Steps, Parts, Errors
  <1>3. Phase(p) /\ Content(p) /\ LTypes
    BY <1>0, <1>1 DEF LIInv
  <1>5. sh'[p] = Start
    BY <1>0, <1>1, <1>2, ShMoved
  <1>6. Phase(p)'
    BY <1>1, <1>3, <1>5, VarsStill DEF Phase, Start, Has, Reader, Idle
  <1>7. Content(p)'
    BY <1>1, <1>3, <1>5 DEF Content, Start
  <1> QED  BY <1>0, <1>1, <1>2, <1>3, <1>6, <1>7, ProgramStep DEF LTypes, PosSound

(* load returns, and rshell calls the entry point.                          *)
LEMMA LLoadReturn ==
    ASSUME LIInv, LoadReturn
    PROVE  LIInv'
  <1>0. PICK p \in Tasks : p = curtcb
    BY CurSound DEF LIInv
  <1> DEFINE s == [sh[p] EXCEPT !.at = "run"]
  <1>1. /\ halted = "no" /\ call[p].at = "user" /\ sh[p].at = "closing"
        /\ sh' = [sh EXCEPT ![p] = s]
        /\ UNCHANGED <<vars, tape, pos, core, errno>>
    BY <1>0 DEF LoadReturn, ShAt, At, Sh, Cur
  <1>2. s \in ShFrame /\ s.at = "run" /\ s.rc = sh[p].rc /\ s.size = sh[p].size
    BY <1>0, FrameType DEF ShFrame, Steps
  <1>3. Phase(p) /\ Content(p) /\ CallSound(call[p]) /\ LTypes
    BY <1>0, <1>1 DEF LIInv, IInv
  <1>4. Idle(call[p]) /\ Released(p)
    BY <1>1, <1>3 DEF Phase, Closing, CallSound
  <1>5. sh'[p] = s
    BY <1>0, <1>1, <1>2, ShMoved
  <1> HIDE DEF s
  <1>6. Phase(p)'
    <2>1. p \in Overwritten' <=> p \in Overwritten
        BY <1>1, <1>2, <1>5 DEF Overwritten
    <2> QED  BY <1>1, <1>2, <1>4, <1>5, <2>1, VarsStill
             DEF Phase, Released, Has, Reader, Idle
  <1>7. Content(p)'
    BY <1>1, <1>2, <1>3, <1>5 DEF Content, Whole
  <1> QED  BY <1>0, <1>1, <1>2, <1>3, <1>6, <1>7, ProgramStep DEF LTypes, PosSound

-----------------------------------------------------------------------------
(* Nobody holds MUT_CHAN in user mode, so a call of open or close enters    *)
(* the service or panics.                                                   *)
LEMMA Entered ==
    ASSUME LIInv, NEW p \in Tasks, p = curtcb, Idle(call[p]),
           NEW s \in {"open", "close"}, NEW l \in Labels,
           NEW d \in Drivers \cup {NULL}, NEW i \in Entries \cup {NULL},
           NEW f \in Table, ChanLock(s, l, d, i, f)
    PROVE  /\ UNCHANGED <<curtcb, masked, drv, iote, chan, breach>>
           /\ \/ /\ Moved(s, l, d, i, f, TRUE)
                 /\ mutex' = [mutex EXCEPT !["CHAN"] = p]
                 /\ halted' = halted
              \/ halted' # "no" /\ UNCHANGED <<mutex, call>>
  <1>1. mutex["CHAN"] # curtcb
    BY DEF LIInv, Channel, Idle
  <1>2. s \in Services /\ f \in Table \cup {NULL}
    BY DEF Services
  <1>3. TypeOK
    BY DEF LIInv, IInv
  <1>4. Enter(s, l, d, i, f) => Moved(s, l, d, i, f, TRUE)
    BY <1>2, <1>3, EnterMoves
  <1>5. chan' = chan
    BY SameChan DEF ChanLock
  <1> QED  BY <1>1, <1>4, <1>5
           DEF ChanLock, MutexAlloc, MutexDealloc, CanAlloc, CanDealloc, ChanPanic

(* What a program's call of open or close leaves of the channels.           *)
LEMMA EnteredChannel ==
    ASSUME LIInv, NEW p \in Tasks, p = curtcb, Idle(call[p]),
           UNCHANGED <<iote, chan, breach>>,
           \/ /\ \E s \in {"open", "close"} : \E l, d, i, f : Moved(s, l, d, i, f, TRUE)
              /\ mutex' = [mutex EXCEPT !["CHAN"] = p]
           \/ UNCHANGED <<mutex, call>>
    PROVE  Channel'
  <1>1. ASSUME NEW t \in Tasks, mutex'["CHAN"] = t
        PROVE  call'[t].svc \in {"open", "close"}
    <2>1. CASE UNCHANGED <<mutex, call>>
        BY <1>1, <2>1 DEF LIInv, Channel
    <2>2. CASE mutex' = [mutex EXCEPT !["CHAN"] = p]
               /\ \E s \in {"open", "close"} : \E l, d, i, f : Moved(s, l, d, i, f, TRUE)
        <3>1. t = p
            BY <1>1, <2>2 DEF LIInv, IInv, TypeOK, Mutexes
        <3> QED  BY <2>2, <3>1 DEF Moved
    <2> QED  BY <2>1, <2>2
  <1> QED  BY <1>1 DEF LIInv, Channel, Has

LEMMA LLoadOpen ==
    ASSUME LIInv, LoadOpen
    PROVE  LIInv'
  <1>0. PICK p \in Tasks : p = curtcb
    BY CurSound DEF LIInv
  <1> DEFINE s == [sh[p] EXCEPT !.at = "opening"]
  <1>1. /\ halted = "no" /\ sh[p].at = "load"
        /\ OpenCall(PT)
        /\ sh' = [sh EXCEPT ![p] = s]
        /\ errno' = [errno EXCEPT ![p] = "EOK"]
        /\ UNCHANGED <<tape, pos, core>>
    BY <1>0 DEF LoadOpen, ShAt, At, Sh, Cur
  <1>2. s \in ShFrame /\ s.at = "opening" /\ s.part = sh[p].part
        /\ s.rc = sh[p].rc /\ s.size = sh[p].size
    BY <1>0, FrameType DEF ShFrame, Steps
  <1>3. Phase(p) /\ Content(p) /\ LTypes
    BY <1>0, <1>1 DEF LIInv
  <1>4. Idle(call[p]) /\ ~Has(p) /\ ~Reader(p)
    BY <1>1, <1>3 DEF Phase
  <1>5. /\ sh' \in [Tasks -> ShFrame] /\ sh'[p] = s
        /\ \A t \in Tasks : t # p => sh'[t] = sh[t]
    BY <1>0, <1>1, <1>2, ShMoved
  <1> HIDE DEF s
  <1>6. ChanLock("open", "find", PT, NULL, LoadFd)
    <2>1. PICK f \in FreeFds : /\ \A g \in FreeFds : f <= g
                               /\ ChanLock("open", "find", PT, NULL, f)
        BY <1>1 DEF OpenCall
    <2>2. LoadFd \in FreeFds
        <3>1. chan[p] = fds[p]
            BY <1>0, <1>1, ChanCur DEF LIInv, OpenCall, At
        <3> QED  BY <1>0, <1>4, <3>1, FirstFd DEF FreeFds, Has
    <2>3. f \in Table /\ LoadFd \in Table /\ f <= LoadFd /\ LoadFd <= f
        BY <2>1, <2>2, FirstFd DEF FreeFds
    <2>4. f = LoadFd
        BY <2>3 DEF Table
    <2> QED  BY <2>1, <2>4
  <1>7. /\ UNCHANGED <<curtcb, masked, drv, iote, chan, breach>>
        /\ \/ /\ Moved("open", "find", PT, NULL, LoadFd, TRUE)
              /\ mutex' = [mutex EXCEPT !["CHAN"] = p]
              /\ halted' = halted
           \/ halted' # "no" /\ UNCHANGED <<mutex, call>>
    BY <1>0, <1>4, <1>6, Entered, FirstFd, ReaderIsADriver DEF Labels, OpenAt
  <1>8. (IInv /\ EntryInv /\ DeviceInv)'
    <2>1. Next
        BY <1>1, ReaderIsADriver DEF Next, UserStep
    <2> QED  BY <2>1, IInvStep, EntryInvStep, DeviceInvStep DEF LIInv
  <1>9. Channel'
    BY <1>0, <1>4, <1>7, EnteredChannel
  <1>10. LTypes'
    BY <1>0, <1>1, <1>3, <1>5 DEF LTypes, PosSound, Errors
  <1>11. ASSUME NEW t \in Tasks, t # p PROVE SameTask(t)
    BY <1>0, <1>1, <1>3, <1>5, <1>7, <1>11 DEF SameTask, Reader, Moved, LTypes
  <1>12. Phase(p)' \/ halted' # "no"
    <2> SUFFICES ASSUME halted' = "no" PROVE Phase(p)'
        OBVIOUS
    <2>1. Moved("open", "find", PT, NULL, LoadFd, TRUE)
        BY <1>7
    <2>2. errno'[p] = "EOK"
        BY <1>1, <1>3 DEF LTypes
    <2>3. Opening(p, call[p])'
        BY <1>0, <1>4, <1>7, <2>1, <2>2 DEF Opening, Taken, Moved, Has, Reader
    <2> QED  BY <1>2, <1>5, <2>3 DEF Phase
  <1>13. Content(p)'
    BY <1>1, <1>2, <1>3, <1>5 DEF Content
  <1>14. Panicked'
    BY <1>0, <1>2, <1>5, <1>7 DEF Panicked
  <1> QED  BY <1>0, <1>1, <1>7, <1>8, <1>9, <1>10, <1>11, <1>12, <1>13, <1>14,
              OwnStep

(* close, or the discovery that the descriptor is gone.                     *)
LEMMA LLoadClose ==
    ASSUME LIInv, LoadClose
    PROVE  LIInv'
  <1>0. PICK p \in Tasks : p = curtcb
    BY CurSound DEF LIInv
  <1> DEFINE s == [sh[p] EXCEPT !.at = "closing"]
  <1>1. /\ halted = "no" /\ sh[p].at = "close"
        /\ sh' = [sh EXCEPT ![p] = s]
        /\ IF Has(p) THEN CloseCall(LoadFd) /\ UNCHANGED errno ELSE CloseLost
        /\ UNCHANGED <<tape, pos, core>>
        /\ chan[p] = fds[p]
    <2>1. chan[p] = fds[p]
        BY <1>0, ChanCur DEF LIInv, LoadClose, ShAt, At
    <2> QED  BY <1>0, <2>1 DEF LoadClose, ShAt, At, Sh, Cur, Has
  <1>2. s \in ShFrame /\ s.at = "closing" /\ s.rc = sh[p].rc /\ s.size = sh[p].size
    BY <1>0, FrameType DEF ShFrame, Steps
  <1>3. Phase(p) /\ Content(p) /\ LTypes
    BY <1>0, <1>1 DEF LIInv
  <1>4. Idle(call[p]) /\ (Has(p) <=> p \notin Overwritten)
    BY <1>1, <1>3 DEF Phase
  <1>5. /\ sh' \in [Tasks -> ShFrame] /\ sh'[p] = s
        /\ \A t \in Tasks : t # p => sh'[t] = sh[t]
    BY <1>0, <1>1, <1>2, ShMoved
  <1> HIDE DEF s
  <1>6. p \in Overwritten' <=> p \in Overwritten
    BY <1>1, <1>2, <1>5 DEF Overwritten
  <1>7. Content(p)'
    BY <1>1, <1>2, <1>3, <1>5 DEF Content, Whole
  <1>8. CASE ~Has(p)
    <2>1. /\ errno' = [errno EXCEPT ![p] = "ENOTOPEN"]
          /\ halted' \in {"no", "wild channel"}
          /\ UNCHANGED <<curtcb, masked, mutex, drv, iote, fds, store, call, breach>>
        BY <1>0, <1>1, <1>8 DEF CloseLost
    <2>2. chan' = chan
        BY <2>1, SameChan
    <2>3. Phase(p)'
        BY <1>2, <1>4, <1>5, <1>6, <1>8, <2>1, <2>2
        DEF Phase, Released, Has, Reader, Idle
    <2> QED  BY <1>0, <1>1, <1>2, <1>4, <1>7, <2>1, <2>3, LostStep
  <1>9. CASE Has(p)
    <2>0. CloseCall(LoadFd) /\ UNCHANGED errno
        BY <1>1, <1>9
    <2> DEFINE e == chan[p][LoadFd]
    <2>1. e \in Entries /\ ChanLock("close", "test", NULL, e, LoadFd)
        <3>1. e \in Entries
            BY <1>9, FirstFd, ChanType DEF Has, LIInv
        <3> QED  BY <1>0, <1>1, <2>0, <3>1 DEF CloseCall
    <2> HIDE DEF e
    <2>2. /\ UNCHANGED <<curtcb, masked, drv, iote, chan, breach>>
          /\ \/ /\ Moved("close", "test", NULL, e, LoadFd, TRUE)
                /\ mutex' = [mutex EXCEPT !["CHAN"] = p]
                /\ halted' = halted
             \/ halted' # "no" /\ UNCHANGED <<mutex, call>>
        BY <1>0, <1>4, <2>1, Entered, FirstFd DEF Labels, CloseAt
    <2>3. (IInv /\ EntryInv /\ DeviceInv)'
        <3>1. Next
            BY <2>0, FirstFd DEF Next, UserStep
        <3> QED  BY <3>1, IInvStep, EntryInvStep, DeviceInvStep DEF LIInv
    <2>4. Channel'
        BY <1>0, <1>4, <2>2, EnteredChannel
    <2>5. LTypes'
        BY <1>1, <1>3, <1>5, <2>0 DEF LTypes, PosSound
    <2>6. ASSUME NEW t \in Tasks, t # p PROVE SameTask(t)
        BY <1>0, <1>1, <1>5, <2>0, <2>2, <2>6 DEF SameTask, Reader, Moved
    <2>7. Phase(p)' \/ halted' # "no"
        <3> SUFFICES ASSUME halted' = "no" PROVE Phase(p)'
            OBVIOUS
        <3>1. Moved("close", "test", NULL, e, LoadFd, TRUE)
            BY <2>2
        <3>2. Closing(p, call[p])'
            BY <1>0, <1>9, <2>2, <3>1 DEF Closing, Given, Moved, Has
        <3> QED  BY <1>2, <1>4, <1>5, <1>6, <1>9, <3>2 DEF Phase
    <2>8. Panicked'
        BY <1>0, <1>2, <1>5, <2>2 DEF Panicked
    <2> QED  BY <1>0, <1>1, <1>7, <2>2, <2>3, <2>4, <2>5, <2>6, <2>7, <2>8, OwnStep
  <1> QED  BY <1>8, <1>9

-----------------------------------------------------------------------------
(* The call and the return of a read.                                       *)
LEMMA TransferStep ==
    ASSUME LIInv, halted = "no", NEW p \in Tasks, p = curtcb,
           (IInv /\ EntryInv /\ DeviceInv)',
           NEW v, NEW l, NEW d, NEW i, NEW f, Moved(v, l, d, i, f, TRUE),
           call[p].svc \notin {"open", "close"},
           UNCHANGED <<curtcb, mutex, drv, iote, chan, halted, breach>>,
           NEW s \in ShFrame, sh' = [sh EXCEPT ![p] = s],
           UNCHANGED <<tape, pos, core, errno>>,
           Phase(p)', Content(p)'
    PROVE  LIInv'
  <1>1. /\ sh' \in [Tasks -> ShFrame]
        /\ \A t \in Tasks : t # p => sh'[t] = sh[t]
    BY ShMoved
  <1>2. LTypes'
    BY <1>1 DEF LIInv, LTypes, PosSound
  <1>3. Channel'
    <2>1. \A t \in Tasks : mutex'["CHAN"] = t => call'[t].svc \in {"open", "close"}
        BY DEF LIInv, Channel, Moved
    <2> QED  BY <2>1 DEF LIInv, Channel, Has
  <1>4. \A t \in Tasks : t # p => SameTask(t)
    BY <1>1 DEF SameTask, Moved, Reader
  <1>5. Panicked'
    BY DEF Panicked
  <1> QED  BY <1>2, <1>3, <1>4, <1>5, OwnStep

(* At a read the descriptor leads to an open entry, unless it is lost.      *)
LEMMA LeadsHas ==
    ASSUME LIInv, NEW p \in Tasks, p = curtcb, Idle(call[p]), store[p].fd = NULL
    PROVE  /\ Leads(LoadFd) <=> Has(p)
           /\ chan[p] = fds[p]
  <1>1. chan[p] = fds[p]
    BY ChanCur DEF LIInv
  <1>2. Has(p) => iote[chan[p][LoadFd]].open
    BY FirstFd DEF Has, Idle, LIInv, EntryInv, DescriptorsOpen
  <1> QED  BY <1>1, <1>2 DEF Leads, Has

LEMMA LReadCall ==
    ASSUME LIInv, ReadCall
    PROVE  LIInv'
  <1>0. PICK p \in Tasks : p = curtcb
    BY CurSound DEF LIInv
  <1> DEFINE e == chan[p][LoadFd]
             d == iote[e].driver
  <1>1. /\ halted = "no" /\ sh[p].at = "read" /\ TransferCall(LoadFd)
        /\ store[p].fd = NULL
        /\ UNCHANGED <<tape, pos, core>>
    BY <1>0 DEF ReadCall, ShAt, At, Sh, Cur
  <1>2. Phase(p) /\ Content(p) /\ LTypes
    BY <1>0, <1>1 DEF LIInv
  <1>3. Idle(call[p]) /\ Reading(p)
    BY <1>1, <1>2 DEF Phase
  <1>4. (Leads(LoadFd) <=> Has(p)) /\ chan[p] = fds[p]
    BY <1>0, <1>1, <1>3, LeadsHas
  <1>5. CASE Has(p)
    <2> DEFINE s == [sh[p] EXCEPT !.at = "reading", !.n = 0, !.short = FALSE]
    <2>1. sh' = [sh EXCEPT ![p] = s] /\ UNCHANGED errno
        BY <1>0, <1>4, <1>5 DEF ReadCall
    <2>2. /\ s \in ShFrame /\ s.at = "reading" /\ s.n = 0 /\ s.short = FALSE
          /\ s.part = sh[p].part /\ s.header = sh[p].header
          /\ s.rc = sh[p].rc /\ s.size = sh[p].size
        BY <1>0, FrameType DEF ShFrame, Steps
    <2>3. sh'[p] = s
        BY <1>0, <2>1, <2>2, ShMoved
    <2> HIDE DEF s
    <2>4. Moved("transfer", "io", d, e, LoadFd, TRUE)
        <3>1. e \in Entries /\ d \in Drivers \cup {NULL}
            BY <1>5, FirstFd, ChanType DEF Has, LIInv, IInv, TypeOK, Entry
        <3>2. Enter("transfer", "io", d, e, LoadFd)
            BY <1>0, <1>1, <1>4, <1>5 DEF TransferCall
        <3> HIDE DEF e, d
        <3> QED  BY <3>1, <3>2, FirstFd, EnterMoves DEF LIInv, IInv, Services, Labels
    <2>5. (IInv /\ EntryInv /\ DeviceInv)'
        <3>1. Next
            BY <1>1, FirstFd DEF Next, UserStep
        <3> QED  BY <3>1, IInvStep, EntryInvStep, DeviceInvStep DEF LIInv
    <2>6. UNCHANGED <<curtcb, mutex, drv, iote, chan, halted, breach>>
        BY <1>1, <1>4, <1>5, SameChan DEF TransferCall
    <2>7. Phase(p)'
        <3>1. Reading(p)'
            BY <1>1, <1>3, <2>6 DEF Reading, Reader, Has
        <3> QED  BY <1>0, <2>2, <2>3, <2>4, <3>1 DEF Phase, Moved
    <2>8. Content(p)'
        <3>1. CASE sh[p].part = "header"
            BY <1>1, <1>2, <2>2, <2>3, <3>1 DEF Content
        <3>2. CASE sh[p].part # "header"
            <4>1. PartThere(p, sh[p])
                BY <1>1, <1>2, <3>2 DEF Content
            <4>2. \A im \in Images : Asked(s, im) \in Nat /\ Base(s, im) = Base(sh[p], im)
                BY <2>2 DEF Asked, Base, Images
            <4>3. tape.images[sh[p].header.im] \in Images
                BY <1>2, <4>1, ImageTypes DEF PartThere
            <4>4. PartThere(p, s)
                BY <1>1, <2>2, <4>1, <4>2, <4>3 DEF PartThere
            <4>5. PartThere(p, sh[p])'
                BY <1>1, <2>3, <4>4 DEF PartThere
            <4> QED  BY <1>1, <1>2, <2>2, <2>3, <3>2, <4>5 DEF Content
        <3> QED  BY <3>1, <3>2
    <2> HIDE DEF e, d
    <2> QED  BY <1>0, <1>1, <1>3, <2>1, <2>2, <2>4, <2>5, <2>6, <2>7, <2>8,
                TransferStep DEF Idle
  <1>6. CASE ~Has(p)
    <2> DEFINE im == tape.images[sh[p].header.im]
               m == Len(core[p])
               s == [sh[p] EXCEPT !.at = "got", !.n = 0, !.short = FALSE]
    <2>1. /\ m \in Nat /\ Space[p] \in Nat \ {0} /\ core[p] \in Seq(Cell)
          /\ m = Space[p]
        <3>1. core[p] \in Seq(Cell) /\ Space[p] \in Nat \ {0}
            BY <1>2, LoaderAssumption DEF LTypes
        <3>2. m \in Nat /\ m <= Space[p] /\ ~(m < Space[p])
            BY <1>2, <1>3, <1>6, <3>1 DEF Content, Reading
        <3> HIDE DEF m
        <3> QED  BY <3>1, <3>2
    <2>2. sh[p].part # "header"
        BY <1>1, <1>2, <2>1 DEF Content
    <2>3. PartThere(p, sh[p]) /\ im \in Images
        BY <1>1, <1>2, <2>2, ImageTypes DEF Content, PartThere
    <2>4. sh[p].part = "data" /\ im.data = 0
        <3>1. /\ Size(im) <= Space[p] /\ m = Base(sh[p], im) + 0
              /\ sh[p].part \in Parts
            BY <1>0, <1>1, <2>3, FrameType DEF PartThere, ShFrame
        <3>2. /\ im.text \in Nat /\ im.data \in Nat /\ im.bss \in Nat
              /\ Size(im) = im.text + im.data + im.bss
            BY <2>3 DEF Images, Size
        <3>3. Base(sh[p], im) = IF sh[p].part = "text" THEN 0 ELSE im.text
            BY DEF Base
        <3> HIDE DEF im, m
        <3>4. sh[p].part # "text"
            BY <2>1, <3>1, <3>3
        <3>5. sh[p].part = "data"
            BY <2>2, <3>1, <3>4 DEF Parts
        <3> QED  BY <2>1, <3>1, <3>2, <3>3, <3>5
    <2>5. (Wanted > 0) = FALSE
        <3>1. Wanted = 0
            BY <1>0, <2>4 DEF Wanted, Sh, Header
        <3> QED  BY <3>1
    <2>6. /\ sh' = [sh EXCEPT ![p] = s]
          /\ errno' = [errno EXCEPT ![p] = "ENOTOPEN"]
        <3>1. /\ sh' = [sh EXCEPT ![curtcb].at = "got", ![curtcb].n = 0,
                                  ![curtcb].short = (Wanted > 0)]
              /\ errno' = [errno EXCEPT ![p] = "ENOTOPEN"]
            BY <1>0, <1>4, <1>6, Zenon DEF ReadCall
        <3>2. sh' = [sh EXCEPT ![p].at = "got", ![p].n = 0, ![p].short = FALSE]
            BY <1>0, <2>5, <3>1, Zenon
        <3> QED  BY <3>1, <3>2
    <2>7. /\ s \in ShFrame /\ s.at = "got" /\ s.n = 0 /\ s.short = FALSE
          /\ s.part = sh[p].part /\ s.header = sh[p].header
          /\ s.rc = sh[p].rc /\ s.size = sh[p].size
        BY <1>0, FrameType DEF ShFrame, Steps
    <2>8. sh'[p] = s
        BY <1>0, <2>6, <2>7, ShMoved
    <2> HIDE DEF s
    <2>9. /\ halted' \in {"no", "wild channel"}
          /\ UNCHANGED <<curtcb, masked, mutex, drv, iote, fds, store, call, breach>>
        BY <1>1, <1>4, <1>6 DEF TransferCall
    <2>10. chan' = chan
        BY <2>9, SameChan
    <2>11. Phase(p)'
        <3>1. Reading(p)' /\ Idle(call[p])'
            BY <1>1, <1>3, <2>9, <2>10 DEF Reading, Reader, Has, Idle
        <3> QED  BY <2>7, <2>8, <3>1 DEF Phase
    <2>12. Content(p)'
        <3>1. Asked(s, im) = 0 /\ Base(s, im) = Base(sh[p], im)
            BY <2>4, <2>7 DEF Asked, Base
        <3>2. PartThere(p, s)
            BY <1>1, <2>3, <2>7, <3>1 DEF PartThere
        <3>3. PartThere(p, sh[p])'
            BY <1>1, <2>8, <3>2 DEF PartThere
        <3> QED  BY <1>1, <1>2, <2>2, <2>7, <2>8, <3>3 DEF Content
    <2> QED  BY <1>0, <1>1, <1>3, <2>6, <2>7, <2>9, <2>11, <2>12, LostStep
  <1> QED  BY <1>5, <1>6

LEMMA LReadReturn ==
    ASSUME LIInv, ReadReturn
    PROVE  LIInv'
  <1>0. PICK p \in Tasks : p = curtcb
    BY CurSound DEF LIInv
  <1> DEFINE s == [sh[p] EXCEPT !.at = "got"]
  <1>1. /\ halted = "no" /\ call[p].at = "io" /\ TransferReturn
        /\ sh[p].n = Wanted \/ sh[p].short
        /\ sh' = [sh EXCEPT ![p] = s]
        /\ UNCHANGED <<tape, pos, core, errno>>
    BY <1>0 DEF ReadReturn, At, Sh, Cur
  <1>3. /\ s \in ShFrame /\ s.at = "got" /\ s.n = sh[p].n /\ s.short = sh[p].short
        /\ s.part = sh[p].part /\ s.header = sh[p].header
        /\ s.rc = sh[p].rc /\ s.size = sh[p].size
    BY <1>0, FrameType DEF ShFrame, Steps
  <1>4. Phase(p) /\ Content(p) /\ LTypes /\ CallSound(call[p]) /\ sh[p] \in ShFrame
    BY <1>0, <1>1, FrameType DEF LIInv, IInv
  <1>5. sh[p].at = "reading" /\ call[p].svc = "transfer" /\ Reading(p)
    BY <1>1, <1>4 DEF Phase, CallSound, Idle, Opening, Closing, ShFrame, Steps
  <1>6. sh'[p] = s
    BY <1>0, <1>1, <1>3, ShMoved
  <1> HIDE DEF s
  <1>7. Moved("none", "user", NULL, NULL, NULL, TRUE)
    BY <1>1, ReturnMoves DEF TransferReturn, LIInv, IInv
  <1>8. (IInv /\ EntryInv /\ DeviceInv)'
    <2>1. Next
        BY <1>1 DEF Next, KernelStep
    <2> QED  BY <2>1, IInvStep, EntryInvStep, DeviceInvStep DEF LIInv
  <1>9. UNCHANGED <<curtcb, mutex, drv, iote, chan, halted, breach>>
    BY <1>1, SameChan DEF TransferReturn
  <1>10. Phase(p)'
    <2>1. Reading(p)'
        BY <1>1, <1>5, <1>9 DEF Reading, Reader, Has
    <2> QED  BY <1>0, <1>3, <1>6, <1>7, <2>1 DEF Phase, Moved, Idle
  <1>11. Content(p)'
    <2>1. CASE sh[p].part = "header"
        <3>1. ~s.short => s.n > 0
            BY <1>0, <1>1, <1>3, <2>1 DEF Wanted, Sh
        <3>2. s.n > 0 => HeaderThere(s)
            BY <1>3, <1>4, <1>5, <2>1 DEF Content, HeaderThere
        <3>3. s.n > 0 => HeaderThere(sh[p])'
            BY <1>1, <1>6, <3>2 DEF HeaderThere
        <3> QED  BY <1>1, <1>3, <1>4, <1>5, <1>6, <2>1, <3>1, <3>3 DEF Content
    <2>2. CASE sh[p].part # "header"
        <3>1. PartThere(p, sh[p])
            BY <1>4, <1>5, <2>2 DEF Content
        <3>2. ~s.short => s.n = Asked(s, tape.images[s.header.im])
            BY <1>0, <1>1, <1>3, <2>2 DEF Wanted, Sh, Asked, Header
        <3>3. PartThere(p, s)
            BY <1>3, <1>5, <3>1, <3>2 DEF PartThere, Asked, Base
        <3>4. PartThere(p, sh[p])'
            BY <1>1, <1>6, <3>3 DEF PartThere
        <3> QED  BY <1>1, <1>3, <1>4, <1>5, <1>6, <2>2, <3>4 DEF Content
    <2> QED  BY <2>1, <2>2
  <1> QED  BY <1>0, <1>1, <1>3, <1>5, <1>7, <1>8, <1>9, <1>10, <1>11, TransferStep

-----------------------------------------------------------------------------
(* The cell after one of the tape is on the tape or behind its end.         *)
LEMMA AfterSound ==
    ASSUME LTypes, NEW c \in Cell, c.im \in DOMAIN tape.images,
           c.at \in 0 .. Stored(tape.images[c.im]),
           NEW q, q = After(tape.images, c)
    PROVE  /\ q \in Cell
           /\ q.im \in 1 .. Len(tape.images) + 1
           /\ q.at \in 0 .. IF q.im \in DOMAIN tape.images
                             THEN Stored(tape.images[q.im]) ELSE 0
  <1> DEFINE I == tape.images
             n == Len(I)
             k == Stored(I[c.im])
  <1>1. I \in Seq(Images) /\ n \in Nat /\ DOMAIN I = 1 .. n
    BY ImageTypes
  <1>2. k \in Nat /\ \A i \in DOMAIN I : Stored(I[i]) \in Nat
    BY ImageTypes
  <1>3. c.im \in 1 .. n /\ c.at \in 0 .. k
    BY <1>1
  <1>4. CASE c.at = k
    <2>1. q = [im |-> c.im + 1, at |-> 0]
        BY <1>4 DEF After
    <2>2. q.im = c.im + 1 /\ q.at = 0
        BY <2>1
    <2> HIDE DEF I, n, k
    <2>3. q \in Cell
        BY <1>1, <1>3, <2>1 DEF Cell
    <2> QED  BY <1>1, <1>2, <1>3, <2>2, <2>3 DEF I, n
  <1>5. CASE c.at # k
    <2>1. q = [im |-> c.im, at |-> c.at + 1]
        BY <1>5 DEF After
    <2>2. q.im = c.im /\ q.at = c.at + 1
        BY <2>1
    <2>3. c.at + 1 \in 0 .. k
        BY <1>2, <1>3, <1>5
    <2>4. q \in Cell
        BY <1>1, <1>3, <2>1 DEF Cell
    <2>5. q.im \in 1 .. n + 1
        BY <1>1, <1>3, <2>2
    <2> QED  BY <2>2, <2>3, <2>4, <2>5
  <1> QED  BY <1>4, <1>5

(* ptpread gives the next cell: the header, or the next one of its image.   *)
LEMMA CellRead ==
    ASSUME LIInv, NEW p \in Tasks, p = curtcb, halted = "no",
           sh[p].at = "reading", sh[p].n < Wanted, ~sh[p].short, More,
           NEW s \in ShFrame,
           s = [sh[p] EXCEPT !.n = @ + 1,
                             !.header = IF sh[p].part = "header" THEN pos ELSE @],
           sh'[p] = s, tape' = tape,
           pos' = After(tape.images, pos),
           core' = IF sh[p].part = "header" THEN core
                   ELSE [core EXCEPT ![p] = Append(@, pos)],
           errno' = errno
    PROVE  Content(p)' /\ (sh[p].part # "header" => Len(core[p]) < Space[p])
  <1>1. Content(p) /\ LTypes /\ sh[p] \in ShFrame /\ sh[p].n \in Nat
    BY FrameType DEF LIInv, ShFrame
  <1>2. /\ s.at = "reading" /\ s.n = sh[p].n + 1 /\ s.short = sh[p].short
        /\ s.part = sh[p].part /\ s.rc = sh[p].rc /\ s.size = sh[p].size
        /\ s.header = IF sh[p].part = "header" THEN pos ELSE sh[p].header
    BY <1>1 DEF ShFrame
  <1>3. pos \in Cell /\ PosSound /\ pos.im \in DOMAIN tape.images
    BY <1>1 DEF LTypes, More
  <1>4. CASE sh[p].part = "header"
    <2>1. HeaderThere(sh[p])'
        BY <1>2, <1>3, <1>4 DEF HeaderThere, PosSound
    <2>2. core'[p] = core[p]
        BY <1>4
    <2>3. Content(p)'
        BY <1>1, <1>2, <1>4, <2>1, <2>2 DEF Content
    <2> QED  BY <1>4, <2>3
  <1>5. CASE sh[p].part # "header"
    <2> DEFINE i == sh[p].header.im
               im == tape.images[i]
               m == Len(core[p])
    <2>1. PartThere(p, sh[p]) /\ i \in DOMAIN tape.images
        BY <1>1, <1>5 DEF Content, PartThere
    <2>2. im \in Images /\ Stored(im) \in Nat /\ m \in Nat /\ core[p] \in Seq(Cell)
        BY <1>1, <2>1, ImageTypes DEF LTypes
    <2>3. sh[p].n < Asked(sh[p], im)
        BY <1>5 DEF Wanted, Sh, Asked, Header
    <2>4. m = Base(sh[p], im) + sh[p].n
        BY <2>1 DEF PartThere
    <2>5. m < Stored(im)
        <3>1. im.text \in Nat /\ im.data \in Nat /\ Stored(im) = im.text + im.data
            BY <2>2 DEF Images, Stored
        <3> HIDE DEF im, m
        <3> QED  BY <1>1, <2>2, <2>3, <2>4, <3>1 DEF Base, Asked
    <2>6. pos = [im |-> i, at |-> m + 1]
        <3>1. pos = After(tape.images, [im |-> i, at |-> m])
            BY <2>1 DEF PartThere
        <3>2. m # Stored(tape.images[i])
            <4> HIDE DEF m
            <4> QED  BY <2>2, <2>5
        <3> HIDE DEF i, m
        <3> QED  BY <3>1, <3>2 DEF After
    <2>7. core[p] = Piece(i, m)
        BY <2>1 DEF PartThere
    <2>8. core'[p] = Piece(i, m + 1)
        <3>1. core'[p] = Append(core[p], pos)
            BY <1>1, <1>5 DEF LTypes
        <3> HIDE DEF i, m
        <3>2. Append(Piece(i, m), [im |-> i, at |-> m + 1]) = Piece(i, m + 1)
            BY <2>2, <2>7, PieceGrows
        <3> QED  BY <2>6, <2>7, <3>1, <3>2
    <2>9. Len(core'[p]) = m + 1
        <3> HIDE DEF i, m
        <3>1. m + 1 \in Nat
            BY <2>2
        <3>2. Len(Piece(i, m + 1)) = m + 1
            BY <3>1, PieceLen, Zenon
        <3> QED  BY <2>8, <3>2
    <2>10. s.header = sh[p].header /\ s.part = sh[p].part
        BY <1>2, <1>5
    <2>11. Asked(s, im) = Asked(sh[p], im) /\ Base(s, im) = Base(sh[p], im)
        BY <2>10 DEF Asked, Base
    <2>12. Asked(sh[p], im) \in Nat /\ Base(sh[p], im) \in Nat
        BY <2>2 DEF Asked, Base, Images
    <2>13. s.n <= Asked(s, im) /\ m + 1 = Base(s, im) + s.n
        <3> HIDE DEF im, m
        <3> QED  BY <1>1, <1>2, <2>3, <2>4, <2>11, <2>12
    <2>14. im.valid /\ Size(im) <= Space[p] /\ s.header \in Cell
        BY <2>1, <2>10 DEF PartThere
    <2>15. PartThere(p, sh[p])'
        <3>1. tape'.images = tape.images /\ sh'[p].header.im = i /\ i \in DOMAIN tape.images
            BY <2>1, <2>10
        <3>2. pos' = After(tape.images, [im |-> i, at |-> m + 1])
            BY <2>6
        <3>3. /\ sh'[p].at = "reading" /\ sh'[p].n = s.n /\ sh'[p].header \in Cell
              /\ ~sh'[p].short
            BY <1>2, <2>14
        <3>4. /\ sh'[p].n <= Asked(sh'[p], im)
              /\ Len(core'[p]) = Base(sh'[p], im) + sh'[p].n
            BY <2>9, <2>13
        <3>5. core'[p] = Piece(i, Len(core'[p])) /\ pos' = After(tape.images,
                 [im |-> i, at |-> Len(core'[p])])
            BY <2>8, <2>9, <3>2
        <3>6. tape'.images[sh'[p].header.im] = im
            BY <3>1
        <3> HIDE DEF i, im, m
        <3> QED  BY <2>14, <3>1, <3>3, <3>4, <3>5, <3>6 DEF PartThere
    <2>16. Len(core'[p]) <= Space[p] /\ m < Space[p]
        <3>1. Stored(im) <= Space[p]
            BY <1>1, <2>1, <2>14, ImageTypes
        <3>2. Space[p] \in Nat
            BY LoaderAssumption
        <3> HIDE DEF im, m
        <3> QED  BY <2>2, <2>5, <2>9, <3>1, <3>2
    <2>17. Content(p)'
        BY <1>1, <1>2, <1>5, <2>15, <2>16 DEF Content
    <2> QED  BY <2>16, <2>17
  <1> QED  BY <1>4, <1>5

(* A cleared table of descriptors is a legal one for the kernel.            *)
LEMMA ClearedTable ==
    ASSUME LIInv, NEW p \in Tasks, p = curtcb, LoseTable,
           call[p].at \in {"user", "io"}, store[p].fd = NULL,
           UNCHANGED <<curtcb, masked, mutex, drv, iote, store, call, halted, breach>>
    PROVE  /\ (IInv /\ EntryInv /\ DeviceInv)' /\ Channel'
           /\ \A f \in Fds : chan'[p][f] = NULL
           /\ \A t \in Tasks : t # p => chan'[t] = chan[t]
  <1>a. /\ fds' \in [Tasks -> [Fds -> Entries \cup {NULL}]]
        /\ \A f \in Fds : fds'[p][f] = NULL
        /\ \A t \in Tasks : t # p => fds'[t] = fds[t]
    BY DEF LoseTable, LIInv, IInv, TypeOK
  <1>0. /\ \A f \in Fds : chan'[p][f] = NULL
        /\ \A t \in Tasks : t # p => chan'[t] = chan[t]
    BY <1>a DEF chan
  <1>b. call[p].svc \in {"none", "transfer"}
    BY DEF LIInv, IInv, CallSound
  <1>1. IInv'
    <2>1. TypeOK'
        BY <1>a DEF LIInv, IInv, TypeOK
    <2> QED  BY <2>1 DEF LIInv, IInv, LocksHeld, InChan, InDrv, Ownership, CallSound
  <1>2. EntryInv'
    <2>1. OneDescriptor'
        BY <1>0 DEF LIInv, EntryInv, OneDescriptor
    <2>2. DescriptorsOpen'
        BY <1>0 DEF LIInv, EntryInv, DescriptorsOpen
    <2>3. ASSUME NEW q \in Tasks PROVE OpenSound(call[q])' /\ CloseSound(q, call[q])'
        <3>1. OpenSound(call[q]) /\ CloseSound(q, call[q])
            BY DEF LIInv, EntryInv
        <3>2. OpenSound(call[q])'
            BY <1>0, <3>1 DEF OpenSound
        <3>3. q # p => CloseSound(q, call[q])'
            BY <1>0, <3>1 DEF CloseSound
        <3>4. q = p => CloseSound(q, call[q])'
            BY <1>b DEF CloseSound
        <3> QED  BY <3>2, <3>3, <3>4
    <2> QED  BY <2>1, <2>2, <2>3 DEF EntryInv
  <1>3. DeviceInv'
    <2>1. ASSUME NEW q \in Tasks
          PROVE  /\ StageSound(q, call[q])' /\ FlagsSound(q)'
                 /\ HeldSound(q, call[q])' /\ ChannelsOwned(q)'
        <3>1. /\ StageSound(q, call[q]) /\ FlagsSound(q)
              /\ HeldSound(q, call[q]) /\ ChannelsOwned(q)
            BY DEF LIInv, DeviceInv, Channel
        <3>2. StageSound(q, call[q])'
            BY <3>1 DEF StageSound
        <3>3. CASE q = p
            BY <1>0, <1>b, <3>2, <3>3
            DEF FlagsSound, HeldSound, ChannelsOwned
        <3>4. CASE q # p
            <4>1. chan'[q] = chan[q]
                BY <1>0, <3>4
            <4>2. \A d : OpenOn(q, d)' = OpenOn(q, d)
                BY <4>1 DEF OpenOn
            <4>3. HeldSound(q, call[q])'
                BY <3>1, <4>2 DEF HeldSound, Owns
            <4> QED  BY <3>1, <3>2, <4>1, <4>3
                     DEF FlagsSound, ChannelsOwned, Leaving, Owns
        <3> QED  BY <3>3, <3>4
    <2>2. ClosePanicSound'
        BY DEF LIInv, DeviceInv, Channel, ClosePanicSound
    <2> QED  BY <2>1, <2>2 DEF DeviceInv
  <1>4. Channel'
    BY <1>0, FirstFd DEF LIInv, Channel, Has
  <1> QED  BY <1>0, <1>1, <1>2, <1>3, <1>4

LEMMA LReadCell ==
    ASSUME LIInv, ReadCell
    PROVE  LIInv'
  <1>0. PICK p \in Tasks : p = curtcb
    BY CurSound DEF LIInv
  <1>1. /\ halted = "no" /\ call[p].at = "io" /\ sh[p].n < Wanted /\ ~sh[p].short
        /\ store[p].fd = NULL
        /\ UNCHANGED <<curtcb, masked, mutex, drv, iote, store, call, halted, breach>>
        /\ UNCHANGED tape
    BY <1>0 DEF ReadCell, At, Sh, Cur
  <1>2. Phase(p) /\ Content(p) /\ LTypes /\ CallSound(call[p]) /\ sh[p] \in ShFrame
    BY <1>0, <1>1, FrameType DEF LIInv, IInv
  <1>3. sh[p].at = "reading" /\ call[p].svc = "transfer" /\ Reading(p)
    BY <1>1, <1>2 DEF Phase, CallSound, Idle, Opening, Closing, ShFrame, Steps
  <1>4. ASSUME NEW s \in ShFrame, sh'[p] = s, s.at = "reading", Reading(p)'
        PROVE  Phase(p)'
    BY <1>1, <1>3, <1>4 DEF Phase
  <1>5. CASE More
    <2> DEFINE s == [sh[p] EXCEPT !.n = @ + 1,
                        !.header = IF sh[p].part = "header" THEN pos ELSE @]
    <2>1. /\ pos' = After(tape.images, pos)
          /\ core' = IF sh[p].part = "header" THEN core
                     ELSE [core EXCEPT ![p] = Append(@, pos)]
          /\ UNCHANGED errno
        BY <1>0, <1>5 DEF ReadCell, Sh, StoreCell
    <2>2. sh' = [sh EXCEPT ![p] = s]
        BY <1>0, <1>5 DEF ReadCell, Sh
    <2>3. s \in ShFrame /\ s.at = "reading"
        <3>1. pos \in Cell /\ sh[p].n + 1 \in Nat
            BY <1>2 DEF LTypes, ShFrame
        <3> QED  BY <1>2, <1>3, <3>1 DEF ShFrame
    <2>4. sh'[p] = s
        BY <2>2, <2>3, ShMoved
    <2>6. Content(p)' /\ (sh[p].part # "header" => Len(core[p]) < Space[p])
        <3>1. \E z \in ShFrame :
                 /\ z = [sh[p] EXCEPT !.n = @ + 1,
                           !.header = IF sh[p].part = "header" THEN pos ELSE @]
                 /\ sh'[p] = z
            BY <2>3, <2>4
        <3> QED  BY <1>0, <1>1, <1>3, <1>5, <2>1, <3>1, CellRead
    <2>7. pos \in Cell /\ pos.im \in DOMAIN tape.images /\ PosSound
        BY <1>2, <1>5 DEF LTypes, More
    <2>8. pos' \in Cell /\ PosSound'
        BY <1>1, <1>2, <2>1, <2>7, AfterSound DEF PosSound
    <2>9. core' \in [Tasks -> Seq(Cell)] /\ \A t \in Tasks : t # p => core'[t] = core[t]
        BY <1>2, <2>1, <2>7 DEF LTypes
    <2> HIDE DEF s
    <2>10. /\ (IInv /\ EntryInv /\ DeviceInv)' /\ Channel'
           /\ \A t \in Tasks : t # p => chan'[t] = chan[t]
           /\ Reading(p)'
        <3>1. CASE sh[p].part # "header" /\ Len(core[p]) + 1 = Space[p]
            <4>1. LoseTable
                BY <1>0, <1>5, <3>1 DEF ReadCell, Sh, StoreCell
            <4>2. /\ (IInv /\ EntryInv /\ DeviceInv)' /\ Channel'
                  /\ \A f \in Fds : chan'[p][f] = NULL
                  /\ \A t \in Tasks : t # p => chan'[t] = chan[t]
                BY <1>0, <1>1, <4>1, ClearedTable
            <4>3. ~Has(p)'
                BY <4>2, FirstFd DEF Has
            <4>4. ~(Len(core'[p]) < Space[p])
                <5>1. core'[p] = Append(core[p], pos) /\ core[p] \in Seq(Cell)
                    BY <1>2, <2>1, <3>1 DEF LTypes
                <5>2. Len(core'[p]) = Len(core[p]) + 1 /\ Space[p] \in Nat
                    BY <2>7, <5>1, LoaderAssumption
                <5> QED  BY <3>1, <5>2
            <4> QED  BY <1>1, <1>3, <4>2, <4>3, <4>4 DEF Reading, Reader
        <3>2. CASE sh[p].part = "header" \/ Len(core[p]) + 1 # Space[p]
            <4>1. UNCHANGED fds
                BY <1>0, <1>5, <3>2 DEF ReadCell, Sh, StoreCell
            <4>2. UNCHANGED vars /\ chan' = chan
                BY <1>1, <4>1, SameChan DEF vars
            <4>3. Len(core[p]) < Space[p] <=> Len(core'[p]) < Space[p]
                <5>1. CASE sh[p].part = "header"
                    BY <2>1, <5>1
                <5>2. CASE sh[p].part # "header"
                    <6>1. core'[p] = Append(core[p], pos) /\ core[p] \in Seq(Cell)
                        BY <1>2, <2>1, <5>2 DEF LTypes
                    <6>2. Len(core'[p]) = Len(core[p]) + 1 /\ Space[p] \in Nat
                          /\ Len(core[p]) \in Nat
                        BY <2>7, <6>1, LoaderAssumption
                    <6> QED  BY <2>6, <3>2, <5>2, <6>2
                <5> QED  BY <5>1, <5>2
            <4>4. Reading(p)'
                BY <1>1, <1>3, <4>2, <4>3 DEF Reading, Reader, Has
            <4> QED  BY <4>2, <4>4, KernelStill
        <3> QED  BY <3>1, <3>2
    <2>5. Phase(p)'
        BY <1>4, <2>3, <2>4, <2>10
    <2> QED  BY <1>0, <1>1, <1>2, <1>3, <2>1, <2>2, <2>3, <2>5, <2>6, <2>8, <2>9,
                <2>10, TableStep DEF LTypes
  <1>6. CASE ~More
    <2> DEFINE s == [sh[p] EXCEPT !.short = TRUE]
    <2>1. /\ sh' = [sh EXCEPT ![p] = s]
          /\ errno' = [errno EXCEPT ![p] = "EEOF"]
          /\ UNCHANGED <<pos, core, fds>>
        BY <1>0, <1>6 DEF ReadCell, Sh
    <2>2. /\ s \in ShFrame /\ s.at = "reading" /\ s.n = sh[p].n
          /\ s.part = sh[p].part /\ s.header = sh[p].header
          /\ s.rc = sh[p].rc /\ s.size = sh[p].size
        BY <1>2, <1>3 DEF ShFrame
    <2>3. sh'[p] = s
        BY <2>1, <2>2, ShMoved
    <2> HIDE DEF s
    <2>0. UNCHANGED vars
        BY <1>1, <2>1 DEF vars
    <2>4. Phase(p)'
        <3>1. Reading(p)'
            BY <1>3, <2>0, <2>1, VarsStill DEF Reading, Reader, Has
        <3> QED  BY <1>4, <2>2, <2>3, <3>1
    <2>5. errno' \in [Tasks -> Errors] /\ errno'[p] = "EEOF"
          /\ \A t \in Tasks : t # p => errno'[t] = errno[t]
        BY <1>2, <2>1 DEF LTypes, Errors
    <2>6. Content(p)'
        <3>1. CASE sh[p].part = "header"
            <4>1. s.n > 0 => HeaderThere(sh[p])'
                BY <1>1, <1>2, <1>3, <2>1, <2>2, <2>3, <3>1 DEF Content, HeaderThere
            <4> QED  BY <1>1, <1>2, <1>3, <2>1, <2>2, <2>3, <2>5, <3>1, <4>1 DEF Content
        <3>2. CASE sh[p].part # "header"
            <4>1. PartThere(p, sh[p])
                BY <1>2, <1>3, <3>2 DEF Content
            <4>2. s.n < Asked(s, tape.images[s.header.im])
                BY <1>0, <1>1, <2>2, <3>2 DEF Wanted, Sh, Asked, Header
            <4>3. PartThere(p, sh[p])'
                BY <1>1, <1>3, <2>1, <2>2, <2>3, <4>1, <4>2 DEF PartThere, Asked, Base
            <4> QED  BY <1>1, <1>2, <1>3, <2>1, <2>2, <2>3, <2>5, <3>2, <4>3 DEF Content
        <3> QED  BY <3>1, <3>2
    <2> QED  BY <1>0, <1>1, <1>2, <1>3, <2>0, <2>1, <2>2, <2>4, <2>5, <2>6,
                ProgramStep DEF LTypes, PosSound
  <1> QED  BY <1>5, <1>6

-----------------------------------------------------------------------------
LEMMA PieceEmpty == \A i : Piece(i, 0) = << >>
  BY DEF Piece

(* load gives up, or goes on with the next section.                         *)
LEMMA LGiveUp ==
    ASSUME LIInv, halted = "no", NEW p \in Tasks, p = curtcb, sh[p].at = "got",
           NEW rc \in Errors \ {"EOK"}, GiveUp(rc),
           sh[p].part = "header" \/ sh[p].short,
           UNCHANGED <<curtcb, masked, mutex, drv, iote, store, call, halted, breach>>,
           UNCHANGED <<tape, pos, core, errno>>
    PROVE  LIInv'
  <1> DEFINE s == [sh[p] EXCEPT !.at = "close", !.rc = rc]
  <1>1. sh' = [sh EXCEPT ![p] = s] /\ UNCHANGED vars
    BY DEF GiveUp, vars
  <1>2. s \in ShFrame /\ s.at = "close" /\ s.rc = rc /\ s.size = sh[p].size
    BY FrameType DEF ShFrame, Steps
  <1>3. Phase(p) /\ Content(p) /\ LTypes
    BY DEF LIInv
  <1>4. sh'[p] = s
    BY <1>1, <1>2, ShMoved
  <1> HIDE DEF s
  <1>5. Phase(p)'
    <2>1. p \notin Overwritten'
        BY <1>2, <1>4 DEF Overwritten
    <2>2. Idle(call[p]) /\ Reading(p)
        BY <1>3 DEF Phase
    <2>3. Len(core[p]) < Space[p]
        <3>1. Space[p] \in Nat \ {0}
            BY LoaderAssumption
        <3>2. CASE sh[p].part = "header"
            BY <1>3, <3>1, <3>2 DEF Content
        <3>3. CASE sh[p].part # "header"
            <4> DEFINE im == tape.images[sh[p].header.im]
                       m == Len(core[p])
            <4>1. PartThere(p, sh[p])
                BY <1>3, <3>3 DEF Content
            <4>2. im \in Images /\ sh[p].n \in Nat /\ sh[p].part \in Parts
                BY <1>3, <4>1, ImageTypes, FrameType DEF PartThere, ShFrame
            <4>3. /\ im.text \in Nat /\ im.data \in Nat /\ im.bss \in Nat
                  /\ Size(im) = im.text + im.data + im.bss
                BY <4>2 DEF Images, Size
            <4>4. /\ m = Base(sh[p], im) + sh[p].n /\ sh[p].n < Asked(sh[p], im)
                  /\ Size(im) <= Space[p]
                BY <3>3, <4>1 DEF PartThere
            <4> HIDE DEF im, m
            <4>5. m < Space[p]
                BY <3>1, <3>3, <4>2, <4>3, <4>4 DEF Base, Asked, Parts
            <4> QED  BY <4>5 DEF m
        <3> QED  BY <3>2, <3>3
    <2> QED  BY <1>1, <1>2, <1>4, <2>1, <2>2, <2>3, VarsStill
             DEF Phase, Has, Idle, Reading
  <1>6. Content(p)'
    BY <1>2, <1>3, <1>4 DEF Content
  <1> QED  BY <1>1, <1>2, <1>3, <1>5, <1>6, ProgramStep DEF LTypes, PosSound

LEMMA LSection ==
    ASSUME LIInv, halted = "no", NEW p \in Tasks, p = curtcb, sh[p].at = "got",
           ~sh[p].short,
           NEW part \in {"text", "data"}, Section(part),
           part = "text" => /\ sh[p].part = "header" /\ sh[p].header.at = 0
                            /\ Header.valid /\ Size(Header) <= Space[p],
           part = "data" => sh[p].part = "text",
           UNCHANGED <<curtcb, masked, mutex, drv, iote, store, call, halted, breach>>,
           UNCHANGED <<tape, pos, core, errno>>
    PROVE  LIInv'
  <1> DEFINE s == [sh[p] EXCEPT !.at = "read", !.part = part]
             i == sh[p].header.im
             im == tape.images[i]
             m == Len(core[p])
  <1>1. sh' = [sh EXCEPT ![p] = s] /\ UNCHANGED vars
    BY DEF Section, vars
  <1>2. /\ s \in ShFrame /\ s.at = "read" /\ s.part = part /\ s.size = sh[p].size
        /\ s.rc = sh[p].rc /\ s.header = sh[p].header
    BY FrameType DEF ShFrame, Steps, Parts
  <1>3. Phase(p) /\ Content(p) /\ LTypes
    BY DEF LIInv
  <1>4. sh'[p] = s
    BY <1>1, <1>2, ShMoved
  <1> HIDE DEF s
  <1>5. Phase(p)'
    <2>1. Idle(call[p]) /\ Reading(p)
        BY <1>3 DEF Phase
    <2>2. Idle(call[p])' /\ Reading(p)'
        BY <1>1, <2>1, VarsStill DEF Idle, Reading, Reader, Has
    <2> QED  BY <1>2, <1>4, <2>2 DEF Phase
  <1>6. /\ sh[p].header \in Cell /\ i \in DOMAIN tape.images
        /\ im.valid /\ Size(im) <= Space[p]
        /\ core[p] = Piece(i, m)
        /\ pos = After(tape.images, [im |-> i, at |-> m])
        /\ m = Base(s, im)
    <2>1. CASE part = "text"
        <3>1. HeaderThere(sh[p]) /\ core[p] = << >>
            BY <1>3, <2>1 DEF Content
        <3>2. sh[p].header = [im |-> i, at |-> 0]
            BY <2>1, <3>1 DEF HeaderThere, Cell
        <3>3. m = 0 /\ core[p] = Piece(i, 0)
            BY <3>1, PieceEmpty
        <3>4. pos = After(tape.images, [im |-> i, at |-> 0])
            BY <3>1, <3>2 DEF HeaderThere
        <3>5. im.valid /\ Size(im) <= Space[p]
            BY <2>1 DEF Header, Sh
        <3>6. Base(s, im) = 0
            BY <1>2, <2>1 DEF Base
        <3>7. sh[p].header \in Cell /\ i \in DOMAIN tape.images
            BY <3>1 DEF HeaderThere
        <3> HIDE DEF i, im, m
        <3> QED  BY <3>3, <3>4, <3>5, <3>6, <3>7
    <2>2. CASE part = "data"
        <3>1. PartThere(p, sh[p])
            BY <1>3, <2>2 DEF Content
        <3>2. sh[p].n = Asked(sh[p], im) /\ m = Base(sh[p], im) + sh[p].n
            BY <3>1 DEF PartThere
        <3>3. Base(s, im) = im.text /\ Base(sh[p], im) = 0 /\ Asked(sh[p], im) = im.text
            BY <1>2, <2>2 DEF Base, Asked
        <3>4. im \in Images
            BY <1>3, <3>1, ImageTypes DEF PartThere
        <3>5. im.text \in Nat
            BY <3>4 DEF Images
        <3>6. m = Base(s, im)
            <4> HIDE DEF im, m
            <4> QED  BY <3>2, <3>3, <3>5
        <3> QED  BY <3>1, <3>6 DEF PartThere
    <2> QED  BY <2>1, <2>2
  <1>7. PartThere(p, sh[p])'
    <2>1. /\ tape'.images = tape.images /\ sh'[p].header = sh[p].header
          /\ sh'[p].at = "read" /\ core'[p] = core[p] /\ pos' = pos
          /\ Base(sh'[p], im) = Base(s, im)
        BY <1>2, <1>4
    <2>2. im \in Images
        BY <1>3, <1>6, ImageTypes
    <2>3. Base(s, im) + 0 = Base(s, im)
        BY <2>2 DEF Base, Images
    <2> QED  BY <1>6, <2>1, <2>3 DEF PartThere
  <1>8. Content(p)'
    BY <1>2, <1>3, <1>4, <1>7 DEF Content
  <1> HIDE DEF i, im, m
  <1> QED  BY <1>1, <1>2, <1>3, <1>5, <1>8, ProgramStep DEF LTypes, PosSound

(* The last read was complete: the image is whole, and its bss may have     *)
(* cleared the descriptors.                                                 *)
LEMMA LImageRead ==
    ASSUME LIInv, halted = "no", NEW p \in Tasks, p = curtcb, sh[p].at = "got",
           ~sh[p].short, sh[p].part = "data", ImageRead, store[p].fd = NULL,
           UNCHANGED <<curtcb, masked, mutex, drv, iote, store, call, halted, breach>>,
           UNCHANGED <<tape, pos, core, errno>>
    PROVE  LIInv'
  <1> DEFINE i == sh[p].header.im
             im == tape.images[i]
             m == Len(core[p])
             s == [sh[p] EXCEPT !.at = "close", !.size = Size(im)]
  <1>1. /\ sh' = [sh EXCEPT ![p] = s]
        /\ IF im.bss > 0 /\ Size(im) = Space[p] THEN LoseTable ELSE UNCHANGED fds
    BY DEF ImageRead, Header, Sh
  <1>2. Phase(p) /\ Content(p) /\ LTypes
    BY DEF LIInv
  <1>3. PartThere(p, sh[p]) /\ sh[p].rc = "EOK"
    BY <1>2 DEF Content
  <1>4. /\ i \in DOMAIN tape.images /\ im.valid /\ Size(im) <= Space[p]
        /\ core[p] = Piece(i, m)
        /\ m = Base(sh[p], im) + sh[p].n /\ sh[p].n = Asked(sh[p], im)
    BY <1>3 DEF PartThere
  <1>5. /\ im \in Images /\ Size(im) \in Nat /\ Stored(im) \in Nat
        /\ Stored(im) <= Space[p] /\ Space[p] \in Nat
    BY <1>2, <1>4, ImageTypes, LoaderAssumption
  <1>6. m = Stored(im)
    <2>1. Base(sh[p], im) = im.text /\ Asked(sh[p], im) = im.data
        BY DEF Base, Asked
    <2>2. Stored(im) = im.text + im.data
        BY DEF Stored
    <2> HIDE DEF im, m
    <2> QED  BY <1>4, <2>1, <2>2
  <1>7. Whole(p)'
    <2>1. core'[p] = Piece(i, Stored(im)) /\ tape' = tape
        BY <1>4, <1>6
    <2> QED  BY <1>4, <2>1 DEF Whole
  <1>8. ~(im.bss > 0) /\ Size(im) = Space[p] => m = Space[p]
    <2>1. /\ im.text \in Nat /\ im.data \in Nat /\ im.bss \in Nat
          /\ Size(im) = im.text + im.data + im.bss /\ Stored(im) = im.text + im.data
        BY <1>5 DEF Images, Size, Stored
    <2> HIDE DEF im, m
    <2> QED  BY <1>5, <1>6, <2>1
  <1>9. s \in ShFrame /\ s.at = "close" /\ s.rc = "EOK" /\ s.size = Size(im)
    <2>1. sh[p] \in ShFrame /\ Size(im) \in Nat
        BY <1>5, FrameType
    <2> HIDE DEF im
    <2> QED  BY <1>3, <2>1 DEF ShFrame, Steps
  <1>10. /\ sh' \in [Tasks -> ShFrame] /\ sh'[p] = s
         /\ \A t \in Tasks : t # p => sh'[t] = sh[t]
    <2> HIDE DEF s
    <2> QED  BY <1>1, <1>9, ShMoved
  <1>a. Size(im) >= Stored(im)
    BY <1>2, <1>4, ImageTypes
  <1> HIDE DEF s, im, i, m
  <1>11. Content(p)'
    <2>1. Len(core'[p]) <= Space[p]
        BY <1>2 DEF Content
    <2> QED  BY <1>7, <1>9, <1>10, <2>1 DEF Content
  <1>12. p \in Overwritten' <=> Size(im) = Space[p]
    BY <1>9, <1>10 DEF Overwritten
  <1>13. Idle(call[p]) /\ (Has(p) <=> m < Space[p])
    BY <1>2 DEF Phase, Reading, m
  <1>14. /\ (IInv /\ EntryInv /\ DeviceInv)' /\ Channel'
         /\ Has(p)' <=> Size(im) # Space[p]
         /\ \A t \in Tasks : t # p => chan'[t] = chan[t]
    <2>1. CASE im.bss > 0 /\ Size(im) = Space[p]
        <3>1. LoseTable
            BY <1>1, <2>1
        <3>2. /\ (IInv /\ EntryInv /\ DeviceInv)' /\ Channel'
              /\ \A f \in Fds : chan'[p][f] = NULL
              /\ \A t \in Tasks : t # p => chan'[t] = chan[t]
            BY <1>13, <3>1, ClearedTable DEF Idle
        <3> QED  BY <2>1, <3>2, FirstFd DEF Has
    <2>2. CASE ~(im.bss > 0 /\ Size(im) = Space[p])
        <3>1. UNCHANGED vars /\ chan' = chan
            BY <1>1, <2>2, SameChan DEF vars
        <3>2. Has(p)' <=> Has(p)
            BY <3>1 DEF Has
        <3>3. m < Space[p] <=> Size(im) # Space[p]
            BY <1>4, <1>5, <1>6, <1>8, <1>a, <2>2
        <3> QED  BY <1>13, <3>1, <3>2, <3>3, KernelStill
    <2> QED  BY <2>1, <2>2
  <1>15. Phase(p)'
    BY <1>9, <1>10, <1>12, <1>13, <1>14 DEF Phase, Idle
  <1>16. LTypes /\ pos' = pos /\ core' = core /\ errno' = errno
    BY <1>2
  <1> QED  BY <1>1, <1>9, <1>11, <1>14, <1>15, <1>16, TableStep DEF LTypes, PosSound

LEMMA LLoadSection ==
    ASSUME LIInv, LoadSection
    PROVE  LIInv'
  <1>0. PICK p \in Tasks : p = curtcb
    BY CurSound DEF LIInv
  <1>1. /\ halted = "no" /\ sh[p].at = "got"
        /\ store[p].fd = NULL
        /\ UNCHANGED <<curtcb, masked, mutex, drv, iote, store, call, halted, breach>>
        /\ UNCHANGED <<tape, pos, core, errno>>
    BY <1>0 DEF LoadSection, ShAt, At, Sh, Cur
  <1>2. Content(p) /\ LTypes /\ sh[p].part \in Parts
    BY <1>0, FrameType DEF LIInv, ShFrame
  <1>3. CASE sh[p].short
    <2>1. GiveUp(errno[p])
        BY <1>0, <1>3 DEF LoadSection, Sh
    <2>2. errno[p] \in Errors \ {"EOK"}
        BY <1>1, <1>2, <1>3 DEF Content, LTypes
    <2> QED  BY <1>0, <1>1, <1>3, <2>1, <2>2, LGiveUp
  <1>4. CASE ~sh[p].short /\ sh[p].part = "header"
    <2>1. HeaderRead
        BY <1>0, <1>4 DEF LoadSection, Sh
    <2>2. CASE ~(sh[p].header.at = 0 /\ Header.valid)
        <3>1. GiveUp("EINVLOAD")
            BY <1>0, <2>1, <2>2 DEF HeaderRead, Sh
        <3> QED  BY <1>0, <1>1, <1>4, <3>1, LGiveUp DEF Errors
    <2>3. CASE sh[p].header.at = 0 /\ Header.valid /\ Size(Header) > Space[p]
        <3>1. GiveUp("ENOMEM")
            BY <1>0, <2>1, <2>3 DEF HeaderRead, Sh
        <3> QED  BY <1>0, <1>1, <1>4, <3>1, LGiveUp DEF Errors
    <2>4. CASE sh[p].header.at = 0 /\ Header.valid /\ ~(Size(Header) > Space[p])
        <3>1. Section("text")
            BY <1>0, <2>1, <2>4 DEF HeaderRead, Sh
        <3>2. HeaderThere(sh[p])
            BY <1>1, <1>2, <1>4 DEF Content
        <3>3. Size(Header) \in Nat /\ Space[p] \in Nat
            BY <1>0, <1>2, <3>2, ImageTypes, LoaderAssumption
            DEF HeaderThere, Header, Sh
        <3>4. Size(Header) <= Space[p]
            BY <2>4, <3>3
        <3> QED  BY <1>0, <1>1, <1>4, <2>4, <3>1, <3>4, LSection
    <2> QED  BY <2>2, <2>3, <2>4
  <1>5. CASE ~sh[p].short /\ sh[p].part = "text"
    <2>1. Section("data")
        BY <1>0, <1>5 DEF LoadSection, Sh
    <2> QED  BY <1>0, <1>1, <1>5, <2>1, LSection
  <1>6. CASE ~sh[p].short /\ sh[p].part = "data"
    <2>1. ImageRead
        BY <1>0, <1>6 DEF LoadSection, Sh
    <2> QED  BY <1>0, <1>1, <1>6, <2>1, LImageRead
  <1> QED  BY <1>2, <1>3, <1>4, <1>5, <1>6 DEF Parts

-----------------------------------------------------------------------------
(* The kernel works for a task that opens or closes.                        *)
LEMMA KernelCaller ==
    ASSUME LIInv, LoaderKernel, NEW p \in Tasks, p = curtcb
    PROVE  /\ halted = "no" /\ call[p] = Cur /\ KernelStep
           /\ \/ sh[p].at = "opening" /\ Opening(p, call[p])
              \/ sh[p].at = "closing" /\ Closing(p, call[p]) /\ p \notin Overwritten
           /\ Content(p) /\ LTypes
           /\ \A t \in Tasks : t # p => call[t].svc \notin {"open", "close"}
           /\ UNCHANGED <<tape, pos, sh, core>>
  <1>1. halted = "no" /\ call[p].at \notin {"user", "io"}
    BY DEF LoaderKernel, KernelStep, AllocLock, AllocCheck, SetOwner, SetAlloc,
           AllocFree, AllocReturn, OpenFind, OpenLocate, OpenActive, OpenAvail,
           OpenOwner, OpenMark, CloseTest, CloseClear, ChanUnlock, TransferReturn,
           At, Cur
  <1>2. Phase(p) /\ Content(p) /\ LTypes /\ sh[p] \in ShFrame
    BY <1>1, FrameType DEF LIInv
  <1>3. \/ sh[p].at = "opening" /\ Opening(p, call[p])
        \/ sh[p].at = "closing" /\ Closing(p, call[p]) /\ p \notin Overwritten
    BY <1>1, <1>2 DEF Phase, Idle, ShFrame, Steps
  <1>4. Cur.svc \in {"open", "close"}
    BY <1>3 DEF Opening, Closing, Cur
  <1> QED  BY <1>1, <1>2, <1>3, <1>4, AloneInChan DEF LoaderKernel, LIInv, Cur

(* A failure leaves an error for the program.                               *)
LEMMA KernelErrno ==
    ASSUME LIInv, LoaderKernel, NEW p \in Tasks, p = curtcb
    PROVE  /\ errno' \in [Tasks -> Errors]
           /\ \A t \in Tasks : t # p => errno'[t] = errno[t]
           /\ IF call[p].ok /\ ~call'[p].ok THEN errno'[p] # "EOK"
              ELSE errno'[p] = errno[p]
  <1>1. errno \in [Tasks -> Errors]
    BY DEF LIInv, LTypes
  <1>2. errno' = IF call[p].ok /\ ~call'[p].ok
                 THEN [errno EXCEPT ![p] = ErrorAt(Cur.at)] ELSE errno
    BY DEF LoaderKernel, Cur
  <1>3. ErrorAt(Cur.at) \in Errors \ {"EOK"}
    BY DEF ErrorAt, Errors
  <1> QED  BY <1>1, <1>2, <1>3

LEMMA KernelOwnStep ==
    ASSUME LIInv, LoaderKernel, NEW p \in Tasks, p = curtcb, UNCHANGED curtcb,
           \A t \in Tasks : t # p => /\ call'[t] = call[t] /\ chan'[t] = chan[t]
                                     /\ Reader(t)' <=> Reader(t),
           Channel', halted' = "no" => Phase(p)'
    PROVE  LIInv'
  <1>1. (IInv /\ EntryInv /\ DeviceInv)'
    <2>1. Next
        BY DEF LoaderKernel, Next
    <2> QED  BY <2>1, IInvStep, EntryInvStep, DeviceInvStep DEF LIInv
  <1>2. LTypes'
    BY KernelCaller, KernelErrno DEF LTypes, PosSound
  <1>3. ASSUME NEW t \in Tasks, t # p PROVE SameTask(t)
    BY <1>3, KernelCaller, KernelErrno DEF SameTask
  <1>4. Content(p)'
    <2>1. sh'[p] = sh[p] /\ core'[p] = core[p] /\ tape' = tape /\ Content(p)
        BY KernelCaller
    <2>2. sh[p].at \in {"opening", "closing"}
        BY KernelCaller
    <2> QED  BY <2>1, <2>2, SameContent
  <1>5. Panicked'
    BY KernelCaller DEF Panicked
  <1>6. tape' = tape /\ pos' = pos /\ halted = "no"
    BY KernelCaller
  <1> QED  BY <1>1, <1>2, <1>3, <1>4, <1>5, <1>6, OwnStep

(* A step of open or close that stays inside the service.                   *)
LEMMA KernelMove ==
    ASSUME LIInv, LoaderKernel, NEW p \in Tasks, p = curtcb,
           UNCHANGED <<curtcb, chan>>, breach' = {},
           mutex'["CHAN"] = mutex["CHAN"],
           NEW l, NEW d, NEW i, NEW o, Moved(Cur.svc, l, d, i, Cur.fd, o),
           \A j \in Entries : iote'[j].driver \in {PT, NULL},
           \A t \in Tasks : Has(t) => iote'[chan[t][LoadFd]].dealloc,
           \A t \in Tasks : t # p => (Reader(t)' <=> Reader(t)),
           o => Cur.ok,
           Cur.svc = "open" =>
              /\ d = PT
              /\ ~Taken(l, o) => ~Reader(p)'
              /\ o /\ l \in {"mark", "unlock"} => iote'[i].dealloc,
           Cur.svc = "close" => (Given(l, o) => ~Reader(p)')
    PROVE  LIInv'
  <1>1. /\ \/ sh[p].at = "opening" /\ Opening(p, call[p])
           \/ sh[p].at = "closing" /\ Closing(p, call[p]) /\ p \notin Overwritten
        /\ sh' = sh
    BY KernelCaller
  <1>2. /\ call'[p].svc = call[p].svc /\ call'[p].at = l /\ call'[p].dev = d
        /\ call'[p].io = i /\ call'[p].fd = call[p].fd /\ call'[p].ok = o
        /\ \A t \in Tasks : t # p => call'[t] = call[t]
    BY DEF Moved, Cur
  <1>3. Channel'
    <2>1. \A t \in Tasks : mutex'["CHAN"] = t => call'[t].svc \in {"open", "close"}
        BY <1>2 DEF LIInv, Channel
    <2> QED  BY <2>1 DEF LIInv, Channel, Has
  <1>4. Has(p)' <=> Has(p)
    BY DEF Has
  <1>5. ASSUME sh[p].at = "opening", Opening(p, call[p])
        PROVE  Phase(p)'
    <2>1. call[p].ok <=> errno[p] = "EOK"
        BY <1>5 DEF Opening
    <2>2. IF call[p].ok /\ ~call'[p].ok THEN errno'[p] # "EOK"
          ELSE errno'[p] = errno[p]
        BY KernelErrno
    <2>3. (call'[p].ok <=> errno'[p] = "EOK")
        BY <1>2, <2>1, <2>2 DEF Cur
    <2>4. Opening(p, call[p])'
        BY <1>2, <1>4, <1>5, <2>3 DEF Opening, Cur
    <2> QED  BY <1>1, <1>5, <2>4 DEF Phase
  <1>6. ASSUME sh[p].at = "closing", Closing(p, call[p]), p \notin Overwritten
        PROVE  Phase(p)'
    <2>1. Closing(p, call[p])'
        BY <1>2, <1>4, <1>6 DEF Closing, Cur
    <2>2. p \notin Overwritten'
        BY <1>1, <1>6 DEF Overwritten
    <2> QED  BY <1>1, <1>6, <2>1, <2>2 DEF Phase
  <1> QED  BY <1>1, <1>2, <1>3, <1>5, <1>6, KernelOwnStep

-----------------------------------------------------------------------------
(* KernelMove for a step that changes no entry and no owner.                *)
LEMMA KernelQuiet ==
    ASSUME LIInv, LoaderKernel, NEW p \in Tasks, p = curtcb,
           UNCHANGED <<curtcb, chan, iote>>, breach' = {},
           mutex'["CHAN"] = mutex["CHAN"],
           drv'[PT].ownerid = drv[PT].ownerid,
           NEW l, NEW d, NEW i, NEW o, Moved(Cur.svc, l, d, i, Cur.fd, o),
           o => Cur.ok,
           Cur.svc = "open" =>
              /\ d = PT
              /\ Taken(Cur.at, Cur.ok) => Taken(l, o)
              /\ ~(o /\ l = "mark")
              /\ o /\ l = "unlock" => iote[i].dealloc,
           Cur.svc = "close" => (Given(l, o) => Given(Cur.at, Cur.ok))
    PROVE  LIInv'
  <1>1. \A t \in Tasks : Reader(t)' <=> Reader(t)
    BY DEF Reader
  <1>2. /\ \A j \in Entries : iote'[j].driver \in {PT, NULL}
        /\ \A t \in Tasks : Has(t) => iote'[chan[t][LoadFd]].dealloc
    BY DEF LIInv, Channel
  <1>3. /\ Cur.svc = "open" /\ ~Taken(l, o) => ~Reader(p)'
        /\ Cur.svc = "close" /\ Given(l, o) => ~Reader(p)'
    BY <1>1, KernelCaller DEF Opening, Closing
  <1>4. Cur.svc = "open" /\ o /\ l \in {"mark", "unlock"} => iote'[i].dealloc
    OBVIOUS
  <1> HIDE DEF Cur
  <1> QED  BY <1>1, <1>2, <1>3, <1>4, KernelMove

(* The device of a frame inside alloc is the reader.                        *)
LEMMA CurReader ==
    ASSUME LIInv, LoaderKernel, NEW p \in Tasks, p = curtcb
    PROVE  /\ Cur.svc \in {"open", "close"} /\ Cur.fd = LoadFd
           /\ Cur.at \in AllocAt => Cur.dev = PT
           /\ Cur.svc = "open" => Cur.dev = PT
           /\ TypeOK
  <1>1. Cur.svc \in {"open", "close"} /\ Cur.fd = LoadFd
        /\ (Cur.svc = "open" => Cur.dev = PT) /\ Cur = call[p]
    BY KernelCaller DEF Opening, Closing
  <1>2. Cur.svc = "close" /\ Cur.at \in AllocAt => Cur.dev = PT
    <2> SUFFICES ASSUME Cur.svc = "close", Cur.at \in AllocAt PROVE Cur.dev = PT
        OBVIOUS
    <2>1. /\ Cur.dev = iote[Cur.io].driver /\ iote[Cur.io].driver # NULL
          /\ Cur.io \in Entries
        BY CurEntries, CurSound DEF LIInv, CloseSound, CallSound, AllocAt
    <2> QED  BY <2>1 DEF LIInv, Channel
  <1> QED  BY <1>1, <1>2 DEF LIInv, IInv

LEMMA LAllocLock ==
    ASSUME LIInv, LoaderKernel, AllocLock
    PROVE  LIInv'
  <1>0. PICK p \in Tasks : p = curtcb
    BY CurSound DEF LIInv
  <1>1. /\ Cur.at = "lock" /\ Cur.dev = PT /\ TypeOK
        /\ UNCHANGED <<curtcb, drv, iote, chan, breach>>
    BY <1>0, CurReader, SameChan DEF AllocLock, At, AllocAt
  <1>2. breach' = {} /\ mutex'["CHAN"] = mutex["CHAN"]
    BY <1>1 DEF AllocLock, MutexAlloc, LIInv, Channel, TypeOK, Mutexes
  <1>3. \/ Moved(Cur.svc, "check", Cur.dev, Cur.io, Cur.fd, Cur.ok)
        \/ Moved(Cur.svc, "back", Cur.dev, Cur.io, Cur.fd, FALSE)
    BY <1>1, GotoMoves, FailMoves DEF AllocLock, Labels, AllocAt
  <1>4. /\ ~Taken("lock", Cur.ok) /\ ~Given("check", Cur.ok) /\ ~Given("back", FALSE)
    BY DEF Taken, Given
  <1>5. CASE Moved(Cur.svc, "check", Cur.dev, Cur.io, Cur.fd, Cur.ok)
    <2> HIDE DEF Cur
    <2> QED  BY <1>0, <1>1, <1>2, <1>4, <1>5, KernelQuiet
  <1>6. CASE Moved(Cur.svc, "back", Cur.dev, Cur.io, Cur.fd, FALSE)
    <2> HIDE DEF Cur
    <2> QED  BY <1>0, <1>1, <1>2, <1>4, <1>6, KernelQuiet
  <1> QED  BY <1>3, <1>5, <1>6

(* A closing task owns the reader until it gives it back, and has no other  *)
(* channel on it.                                                           *)
LEMMA ClosingReader ==
    ASSUME LIInv, LoaderKernel, NEW p \in Tasks, p = curtcb,
           Cur.svc = "close", Cur.at \in {"test", "lock", "check"}
    PROVE  /\ Reader(p) /\ drv[PT].alloc
           /\ OpenOn(p, PT) = {}
           /\ Cur.io = chan[p][LoadFd] /\ Cur.io \in Entries
           /\ iote[Cur.io].open /\ iote[Cur.io].dealloc /\ iote[Cur.io].driver = PT
  <1>1. Has(p) /\ Cur = call[p] /\ Cur.fd = LoadFd
    BY KernelCaller DEF Opening, Closing
  <1>2. /\ chan[p][LoadFd] = Cur.io /\ Cur.io \in Entries
        /\ iote[Cur.io].open /\ iote[Cur.io].driver # NULL
    BY <1>1, CurEntries, CurSound DEF LIInv, CloseSound, CallSound
  <1>3. iote[Cur.io].driver = PT /\ iote[Cur.io].dealloc
    BY <1>1, <1>2 DEF LIInv, Channel
  <1>4. Reader(p) /\ drv[PT].alloc
    BY <1>1, <1>2, <1>3, HasReader DEF LIInv
  <1>5. ASSUME NEW x \in Entries, NEW f \in Fds, chan[p][f] = x PROVE x = Cur.io
    <2>1. f = LoadFd
        BY <1>5, ChannelsAssumption DEF LIInv, Channel
    <2> QED  BY <1>2, <1>5, <2>1
  <1>6. OpenOn(p, PT) = {}
    BY <1>1, <1>5 DEF OpenOn
  <1> QED  BY <1>2, <1>3, <1>4, <1>6

LEMMA LAllocCheck ==
    ASSUME LIInv, LoaderKernel, AllocCheck
    PROVE  LIInv'
  <1>0. PICK p \in Tasks : p = curtcb
    BY CurSound DEF LIInv
  <1>1. /\ Cur.at = "check" /\ Cur.dev = PT /\ TypeOK /\ Cur.svc \in {"open", "close"}
        /\ UNCHANGED <<curtcb, mutex, drv, iote, chan>>
    BY <1>0, CurReader, SameChan DEF AllocCheck, At, AllocAt
  <1>2. breach = {}
    BY DEF LIInv, Channel
  <1>3. CASE Cur.svc = "open"
    <2>1. breach' = {} /\ (Fail("free") \/ Goto("own"))
        BY <1>1, <1>2, <1>3 DEF AllocCheck
    <2>2. \/ Moved(Cur.svc, "own", Cur.dev, Cur.io, Cur.fd, Cur.ok)
          \/ Moved(Cur.svc, "free", Cur.dev, Cur.io, Cur.fd, FALSE)
        BY <1>1, <2>1, GotoMoves, FailMoves DEF Labels, AllocAt
    <2>3. ~Taken("check", Cur.ok)
        BY DEF Taken
    <2>4. CASE Moved(Cur.svc, "own", Cur.dev, Cur.io, Cur.fd, Cur.ok)
        <3> HIDE DEF Cur
        <3> QED  BY <1>0, <1>1, <1>3, <2>1, <2>3, <2>4, KernelQuiet
    <2>5. CASE Moved(Cur.svc, "free", Cur.dev, Cur.io, Cur.fd, FALSE)
        <3> HIDE DEF Cur
        <3> QED  BY <1>0, <1>1, <1>3, <2>1, <2>3, <2>5, KernelQuiet
    <2> QED  BY <2>2, <2>4, <2>5
  <1>4. CASE Cur.svc = "close"
    <2>1. drv[PT].alloc /\ drv[PT].ownerid = curtcb /\ OpenOn(curtcb, PT) = {}
        BY <1>0, <1>1, <1>4, ClosingReader DEF Reader
    <2>2. Goto("disown") /\ breach' = {}
        BY <1>1, <1>2, <1>4, <2>1 DEF AllocCheck, DeallocBreach
    <2>3. Moved(Cur.svc, "disown", Cur.dev, Cur.io, Cur.fd, Cur.ok)
        BY <1>1, <2>2, GotoMoves DEF Labels, AllocAt
    <2>4. ~Given("disown", Cur.ok)
        BY DEF Given
    <2> HIDE DEF Cur
    <2> QED  BY <1>0, <1>1, <1>4, <2>2, <2>3, <2>4, KernelQuiet
  <1> QED  BY <1>1, <1>3, <1>4

LEMMA LSetOwner ==
    ASSUME LIInv, LoaderKernel, SetOwner
    PROVE  LIInv'
  <1>0. PICK p \in Tasks : p = curtcb
    BY CurSound DEF LIInv
  <1>1. /\ Cur.at \in {"own", "disown"} /\ Cur.dev = PT /\ TypeOK
        /\ Cur.svc \in {"open", "close"}
        /\ UNCHANGED <<curtcb, mutex, iote, chan, breach>>
    BY <1>0, CurReader, SameChan DEF SetOwner, At, AllocAt
  <1>2. /\ breach' = {} /\ breach = {} /\ PT \in Drivers
        /\ \A j \in Entries : iote'[j].driver \in {PT, NULL}
        /\ \A t \in Tasks : Has(t) => iote'[chan[t][LoadFd]].dealloc
    BY <1>1, ReaderIsADriver DEF LIInv, Channel
  <1>3. StageSound(p, Cur) /\ HeldSound(p, Cur)
    BY <1>0, <1>2 DEF LIInv, DeviceInv, Cur
  <1>4. CASE Cur.at = "own"
    <2>1. drv' = [drv EXCEPT ![PT].ownerid = p] /\ Goto("set")
        BY <1>0, <1>1, <1>4 DEF SetOwner, At
    <2>2. drv'[PT].ownerid = p
        BY <1>1, <1>2, <2>1 DEF TypeOK, Driver
    <2>3. drv[PT].ownerid = NULL /\ Cur.ok /\ Cur.svc = "open"
        BY <1>1, <1>3, <1>4 DEF StageSound
    <2>4. \A t \in Tasks : t # p => (Reader(t)' <=> Reader(t))
        BY <2>2, <2>3, ChannelsAssumption DEF Reader
    <2>5. Moved(Cur.svc, "set", Cur.dev, Cur.io, Cur.fd, Cur.ok)
        BY <1>1, <2>1, GotoMoves DEF Labels, AllocAt
    <2>6. Taken("set", Cur.ok)
        BY <2>3 DEF Taken
    <2> HIDE DEF Cur
    <2> QED  BY <1>0, <1>1, <1>2, <2>3, <2>4, <2>5, <2>6, KernelMove
  <1>5. CASE Cur.at = "disown"
    <2>1. drv' = [drv EXCEPT ![PT].ownerid = NULL] /\ Goto("reset")
        BY <1>0, <1>1, <1>5 DEF SetOwner, At
    <2>2. drv'[PT].ownerid = NULL
        BY <1>1, <1>2, <2>1 DEF TypeOK, Driver
    <2>3. drv[PT].ownerid = p /\ Cur.svc = "close"
        BY <1>1, <1>3, <1>5 DEF StageSound, HeldSound
    <2>4. ~Reader(p)' /\ \A t \in Tasks : t # p => (Reader(t)' <=> Reader(t))
        BY <2>2, <2>3, ChannelsAssumption DEF Reader
    <2>5. Moved(Cur.svc, "reset", Cur.dev, Cur.io, Cur.fd, Cur.ok)
        BY <1>1, <2>1, GotoMoves DEF Labels, AllocAt
    <2> HIDE DEF Cur
    <2> QED  BY <1>0, <1>1, <1>2, <2>3, <2>4, <2>5, KernelMove
  <1> QED  BY <1>1, <1>4, <1>5

LEMMA LSetAlloc ==
    ASSUME LIInv, LoaderKernel, SetAlloc
    PROVE  LIInv'
  <1>0. PICK p \in Tasks : p = curtcb
    BY CurSound DEF LIInv
  <1>1. /\ Cur.at \in {"set", "reset"} /\ Cur.dev = PT /\ TypeOK /\ Goto("free")
        /\ UNCHANGED <<curtcb, mutex, iote, chan, breach>>
    BY <1>0, CurReader, SameChan DEF SetAlloc, At, AllocAt
  <1>2. breach' = {}
    BY <1>1 DEF LIInv, Channel
  <1>3. drv'[PT].ownerid = drv[PT].ownerid
    BY <1>1, ReaderIsADriver DEF SetAlloc, At, TypeOK, Driver
  <1>4. Moved(Cur.svc, "free", Cur.dev, Cur.io, Cur.fd, Cur.ok)
    BY <1>1, GotoMoves DEF Labels, AllocAt
  <1>5. /\ Taken(Cur.at, Cur.ok) => Taken("free", Cur.ok)
        /\ Cur.svc = "close" => Given(Cur.at, Cur.ok)
    <2>1. StageSound(p, Cur)
        BY <1>0 DEF LIInv, DeviceInv, Cur
    <2> QED  BY <1>1, <2>1 DEF Taken, Given, StageSound
  <1> HIDE DEF Cur
  <1> QED  BY <1>0, <1>1, <1>2, <1>3, <1>4, <1>5, KernelQuiet

LEMMA LAllocFree ==
    ASSUME LIInv, LoaderKernel, AllocFree
    PROVE  LIInv'
  <1>0. PICK p \in Tasks : p = curtcb
    BY CurSound DEF LIInv
  <1>1. /\ Cur.at = "free" /\ Cur.dev = PT /\ TypeOK /\ Goto("back")
        /\ UNCHANGED <<curtcb, drv, iote, chan, breach>>
    BY <1>0, CurReader, SameChan DEF AllocFree, At, AllocAt
  <1>2. breach' = {} /\ mutex'["CHAN"] = mutex["CHAN"]
    BY <1>1 DEF LIInv, Channel, AllocFree, MutexDealloc, TypeOK, Mutexes
  <1>3. Moved(Cur.svc, "back", Cur.dev, Cur.io, Cur.fd, Cur.ok)
    BY <1>1, GotoMoves DEF Labels, AllocAt
  <1>4. /\ Taken("free", Cur.ok) => Taken("back", Cur.ok)
        /\ Given("free", Cur.ok)
    BY DEF Taken, Given
  <1> HIDE DEF Cur
  <1> QED  BY <1>0, <1>1, <1>2, <1>3, <1>4, KernelQuiet

(* A step of open that changes the entry being opened: it is nobody's       *)
(* channel.                                                                 *)
LEMMA LOpening ==
    ASSUME LIInv, LoaderKernel, NEW p \in Tasks, p = curtcb,
           UNCHANGED <<curtcb, mutex, drv, chan, breach>>,
           Cur.svc = "open", Cur.ok, Cur.at # "find",
           \A e \in Entries : e # Cur.io => iote'[e] = iote[e],
           iote'[Cur.io].driver = PT,
           NEW l \in Labels, Goto(l),
           Taken(Cur.at, TRUE) => Taken(l, TRUE),
           l \in {"mark", "unlock"} => iote'[Cur.io].dealloc
    PROVE  LIInv'
  <1>1. /\ Cur.dev = PT /\ TypeOK /\ Cur = call[p] /\ Opening(p, Cur)
        /\ Cur.io \in Entries
    <2>1. CallSound(Cur)
        BY CurSound DEF LIInv
    <2> QED  BY <2>1, CurReader, KernelCaller DEF Closing, CallSound
  <1>2. Cur.io # NULL /\ \A t \in Tasks, g \in Fds : chan[t][g] # Cur.io
    BY <1>1, CurEntries, ChannelsAssumption DEF LIInv, OpenSound
  <1>3. breach' = {} /\ \A j \in Entries : iote'[j].driver \in {PT, NULL}
    BY DEF LIInv, Channel
  <1>4. ASSUME NEW t \in Tasks, Has(t) PROVE iote'[chan[t][LoadFd]].dealloc
    <2>1. chan[t][LoadFd] \in Entries /\ chan[t][LoadFd] # Cur.io
        BY <1>2, <1>4, FirstFd, ChanType DEF Has, LIInv
    <2>2. iote[chan[t][LoadFd]].dealloc
        BY <1>4 DEF LIInv, Channel
    <2> QED  BY <2>1, <2>2
  <1>5. \A t \in Tasks : Reader(t)' <=> Reader(t)
    BY DEF Reader
  <1>6. ~Taken(l, Cur.ok) => ~Reader(p)'
    BY <1>1, <1>5 DEF Opening
  <1>7. Moved(Cur.svc, l, Cur.dev, Cur.io, Cur.fd, Cur.ok)
    BY <1>1, GotoMoves
  <1> HIDE DEF Cur
  <1> QED  BY <1>1, <1>3, <1>4, <1>5, <1>6, <1>7, KernelMove

LEMMA LAllocReturn ==
    ASSUME LIInv, LoaderKernel, AllocReturn
    PROVE  LIInv'
  <1>0. PICK p \in Tasks : p = curtcb
    BY CurSound DEF LIInv
  <1>1. /\ Cur.at = "back" /\ Cur.dev = PT /\ TypeOK /\ Cur.svc \in {"open", "close"}
        /\ UNCHANGED <<curtcb, mutex, drv, chan, breach>> /\ CallSound(Cur)
        /\ breach' = {}
    BY <1>0, CurReader, CurSound, SameChan DEF AllocReturn, At, AllocAt, LIInv, Channel
  <1>2. CASE Cur.svc = "open" /\ Cur.ok
    <2>1. iote' = [iote EXCEPT ![Cur.io].dealloc = TRUE] /\ Goto("mark")
        BY <1>2 DEF AllocReturn
    <2>2. Cur.io \in Entries /\ iote[Cur.io].driver = PT
        BY <1>1, <1>2, CurEntries DEF CallSound, OpenSound, LIInv
    <2>3. /\ \A e \in Entries : e # Cur.io => iote'[e] = iote[e]
          /\ iote'[Cur.io].driver = PT /\ iote'[Cur.io].dealloc
        BY <1>1, <2>1, <2>2 DEF TypeOK, Entry
    <2>4. Taken("mark", TRUE) /\ "mark" \in Labels
        BY DEF Taken, Labels, OpenAt
    <2> HIDE DEF Cur
    <2> QED  BY <1>0, <1>1, <1>2, <2>1, <2>3, <2>4, LOpening
  <1>3. CASE Cur.svc = "open" /\ ~Cur.ok
    <2>1. Goto("unlock") /\ UNCHANGED iote
        BY <1>3 DEF AllocReturn
    <2>2. Moved(Cur.svc, "unlock", Cur.dev, Cur.io, Cur.fd, Cur.ok)
        BY <1>1, <2>1, GotoMoves DEF Labels
    <2>3. ~Taken(Cur.at, Cur.ok)
        BY <1>3 DEF Taken
    <2> HIDE DEF Cur
    <2> QED  BY <1>0, <1>1, <1>3, <2>1, <2>2, <2>3, KernelQuiet
  <1>4. CASE Cur.svc = "close" /\ Cur.ok
    <2>1. Goto("clear") /\ UNCHANGED iote
        BY <1>4 DEF AllocReturn
    <2>2. Moved(Cur.svc, "clear", Cur.dev, Cur.io, Cur.fd, Cur.ok)
        BY <1>1, <2>1, GotoMoves DEF Labels, CloseAt
    <2>3. Given(Cur.at, Cur.ok)
        BY <1>1, <1>4 DEF Given
    <2> HIDE DEF Cur
    <2> QED  BY <1>0, <1>1, <1>4, <2>1, <2>2, <2>3, KernelQuiet
  <1>5. CASE Cur.svc = "close" /\ ~Cur.ok
    <2>1. halted' # "no" /\ UNCHANGED <<call, iote>>
        BY <1>5 DEF AllocReturn
    <2>2. Channel'
        BY <1>1, <2>1 DEF LIInv, Channel, Has
    <2>3. \A t \in Tasks : Reader(t)' <=> Reader(t)
        BY <1>1 DEF Reader
    <2> HIDE DEF Cur
    <2> QED  BY <1>0, <1>1, <2>1, <2>2, <2>3, KernelOwnStep
  <1> QED  BY <1>1, <1>2, <1>3, <1>4, <1>5

LEMMA LOpenFind ==
    ASSUME LIInv, LoaderKernel, OpenFind
    PROVE  LIInv'
  <1>0. PICK p \in Tasks : p = curtcb
    BY CurSound DEF LIInv
  <1>1. /\ Cur.at = "find" /\ Cur.dev = PT /\ TypeOK /\ Cur.svc = "open"
        /\ UNCHANGED <<curtcb, mutex, drv, iote, chan>> /\ breach' = {}
    BY <1>0, CurReader, CurSound, SameChan
    DEF OpenFind, At, CallSound, OpenAt, LIInv, Channel
  <1>2. ~Taken("find", Cur.ok)
    BY DEF Taken
  <1>3. CASE Fail("unlock")
    <2>1. Moved(Cur.svc, "unlock", Cur.dev, Cur.io, Cur.fd, FALSE)
        BY <1>1, <1>3, FailMoves DEF Labels
    <2> HIDE DEF Cur
    <2> QED  BY <1>0, <1>1, <1>2, <2>1, KernelQuiet
  <1>4. CASE ~Fail("unlock")
    <2>1. PICK i \in Entries :
            call' = [call EXCEPT ![curtcb].at = "locate", ![curtcb].io = i]
        BY <1>4 DEF OpenFind
    <2>2. [call[curtcb] EXCEPT !.at = "locate", !.io = i] \in Call
        BY CurSound DEF Call, Cur, OpenAt, LIInv
    <2>3. Moved(Cur.svc, "locate", Cur.dev, i, Cur.fd, Cur.ok)
        BY <1>1, <2>1, <2>2 DEF Moved, TypeOK, Cur, Call
    <2> HIDE DEF Cur
    <2> QED  BY <1>0, <1>1, <1>2, <2>3, KernelQuiet
  <1> QED  BY <1>3, <1>4

(* A step of open that fails before it has the reader.                      *)
LEMMA LOpenFails ==
    ASSUME LIInv, LoaderKernel, NEW p \in Tasks, p = curtcb,
           UNCHANGED <<curtcb, mutex, drv, iote, chan, breach>>,
           Cur.svc = "open", ~Taken(Cur.at, Cur.ok), Fail("unlock")
    PROVE  LIInv'
  <1>1. breach' = {} /\ TypeOK /\ Cur.dev = PT
    BY CurReader DEF LIInv, Channel
  <1>2. Moved(Cur.svc, "unlock", Cur.dev, Cur.io, Cur.fd, FALSE)
    BY <1>1, FailMoves DEF Labels
  <1> HIDE DEF Cur
  <1> QED  BY <1>1, <1>2, KernelQuiet

LEMMA LOpenEntry ==
    ASSUME LIInv, LoaderKernel, OpenLocate \/ OpenActive \/ OpenMark
    PROVE  LIInv'
  <1>0. PICK p \in Tasks : p = curtcb
    BY CurSound DEF LIInv
  <1>1. /\ Cur.at \in {"locate", "active", "mark"} /\ Cur.svc = "open" /\ Cur.ok
        /\ Cur.dev = PT /\ TypeOK /\ Cur.io \in Entries
        /\ Cur.at # "locate" => iote[Cur.io].driver = PT
        /\ Cur.at = "mark" => iote[Cur.io].dealloc
        /\ UNCHANGED <<curtcb, mutex, drv, chan, breach>>
    <2>1. /\ Cur.at \in {"locate", "active", "mark"}
          /\ UNCHANGED <<curtcb, mutex, drv, chan, breach>>
        BY SameChan DEF OpenLocate, OpenActive, OpenMark, At
    <2>2. CallSound(Cur) /\ OpenSound(Cur)
        BY CurSound, CurEntries DEF LIInv
    <2>3. Cur.svc = "open" /\ Cur.ok /\ Cur.io \in Entries
        BY <2>1, <2>2 DEF CallSound, OpenAt
    <2>4. Opening(p, Cur) /\ Cur.dev = PT /\ TypeOK
        BY <1>0, <2>3, KernelCaller, CurReader DEF Closing
    <2> QED  BY <2>1, <2>2, <2>3, <2>4 DEF OpenSound, Opening
  <1>2. CASE OpenLocate
    <2>0. Cur.at = "locate" /\ ~Taken("locate", Cur.ok) /\ "active" \in Labels
        BY <1>2 DEF OpenLocate, At, Taken, Labels, OpenAt
    <2>1. CASE drv[Cur.dev].free
        <3>1. Fail("unlock") /\ UNCHANGED iote
            BY <1>2, <2>1 DEF OpenLocate
        <3> HIDE DEF Cur
        <3> QED  BY <1>0, <1>1, <2>0, <3>1, LOpenFails
    <2>2. CASE ~drv[Cur.dev].free
        <3>1. iote' = [iote EXCEPT ![Cur.io].driver = Cur.dev] /\ Goto("active")
            BY <1>2, <2>2 DEF OpenLocate
        <3>2. /\ \A e \in Entries : e # Cur.io => iote'[e] = iote[e]
              /\ iote'[Cur.io].driver = PT
            BY <1>1, <3>1 DEF TypeOK, Entry
        <3>3. ~Taken(Cur.at, TRUE)
            BY <2>0 DEF Taken
        <3> HIDE DEF Cur
        <3> QED  BY <1>0, <1>1, <2>0, <3>1, <3>2, <3>3, LOpening
    <2> QED  BY <2>1, <2>2
  <1>3. CASE OpenActive
    <2>0. Cur.at = "active" /\ ~Taken("active", Cur.ok) /\ "avail" \in Labels
        BY <1>3 DEF OpenActive, At, Taken, Labels, OpenAt
    <2>1. CASE ~drv[Cur.dev].active
        <3>1. Fail("unlock") /\ UNCHANGED iote
            BY <1>3, <2>1 DEF OpenActive
        <3> HIDE DEF Cur
        <3> QED  BY <1>0, <1>1, <2>0, <3>1, LOpenFails
    <2>2. CASE drv[Cur.dev].active
        <3>1. /\ iote' = [iote EXCEPT ![Cur.io].open = FALSE,
                                      ![Cur.io].dealloc = FALSE]
              /\ Goto("avail")
            BY <1>1, <1>3, <2>2, ReaderIsADriver DEF OpenActive
        <3>2. /\ \A e \in Entries : e # Cur.io => iote'[e] = iote[e]
              /\ iote'[Cur.io].driver = PT
            BY <1>1, <2>0, <3>1 DEF TypeOK, Entry
        <3>3. ~Taken(Cur.at, TRUE)
            BY <2>0 DEF Taken
        <3> HIDE DEF Cur
        <3> QED  BY <1>0, <1>1, <2>0, <3>1, <3>2, <3>3, LOpening
    <2> QED  BY <2>1, <2>2
  <1>4. CASE OpenMark
    <2>1. /\ Cur.at = "mark" /\ Goto("unlock")
          /\ iote' = [iote EXCEPT ![Cur.io].open = TRUE]
        BY <1>4 DEF OpenMark, At
    <2>2. /\ \A e \in Entries : e # Cur.io => iote'[e] = iote[e]
          /\ iote'[Cur.io].driver = PT /\ iote'[Cur.io].dealloc
        BY <1>1, <2>1 DEF TypeOK, Entry
    <2>3. Taken("unlock", TRUE) /\ "unlock" \in Labels
        BY DEF Taken, Labels
    <2> HIDE DEF Cur
    <2> QED  BY <1>0, <1>1, <2>1, <2>2, <2>3, LOpening
  <1> QED  BY <1>2, <1>3, <1>4

(* load never owns the reader before it opens it.                           *)
LEMMA LOpenTests ==
    ASSUME LIInv, LoaderKernel, OpenAvail \/ OpenOwner
    PROVE  LIInv'
  <1>0. PICK p \in Tasks : p = curtcb
    BY CurSound DEF LIInv
  <1>1. /\ Cur.at \in {"avail", "owner"} /\ Cur.svc = "open"
        /\ Cur.dev = PT /\ TypeOK
        /\ UNCHANGED <<curtcb, mutex, drv, iote, chan, breach>> /\ breach' = {}
    BY <1>0, CurSound, CurReader, SameChan
    DEF OpenAvail, OpenOwner, At, CallSound, OpenAt, LIInv, Channel
  <1>2. ~Taken(Cur.at, Cur.ok)
    BY <1>1 DEF Taken
  <1>3. CASE OpenAvail
    <2>1. Goto("owner") \/ Goto("lock")
        BY <1>3 DEF OpenAvail
    <2>2. \/ Moved(Cur.svc, "owner", Cur.dev, Cur.io, Cur.fd, Cur.ok)
          \/ Moved(Cur.svc, "lock", Cur.dev, Cur.io, Cur.fd, Cur.ok)
        BY <1>1, <2>1, GotoMoves DEF Labels, OpenAt, AllocAt
    <2> HIDE DEF Cur
    <2>3. CASE Moved(Cur.svc, "owner", Cur.dev, Cur.io, Cur.fd, Cur.ok)
        BY <1>0, <1>1, <1>2, <2>3, KernelQuiet
    <2>4. CASE Moved(Cur.svc, "lock", Cur.dev, Cur.io, Cur.fd, Cur.ok)
        BY <1>0, <1>1, <1>2, <2>4, KernelQuiet
    <2> QED  BY <2>2, <2>3, <2>4
  <1>4. CASE OpenOwner
    <2>1. ~Reader(p)
        BY <1>0, <1>1, <1>2, KernelCaller DEF Opening, Closing
    <2>2. Fail("unlock")
        BY <1>0, <1>1, <1>4, <2>1 DEF OpenOwner, Reader
    <2> HIDE DEF Cur
    <2> QED  BY <1>0, <1>1, <1>2, <2>2, LOpenFails
  <1> QED  BY <1>3, <1>4

LEMMA LCloseTest ==
    ASSUME LIInv, LoaderKernel, CloseTest
    PROVE  LIInv'
  <1>0. PICK p \in Tasks : p = curtcb
    BY CurSound DEF LIInv
  <1>1. /\ Cur.at = "test" /\ Cur.svc = "close" /\ TypeOK
        /\ UNCHANGED <<curtcb, mutex, drv, iote, chan>> /\ breach' = {}
    BY <1>0, CurSound, CurReader, SameChan
    DEF CloseTest, At, CallSound, CloseAt, LIInv, Channel
  <1>2. /\ iote[Cur.io].open /\ iote[Cur.io].dealloc /\ iote[Cur.io].driver = PT
    BY <1>0, <1>1, ClosingReader
  <1>3. call' = [call EXCEPT ![curtcb].at = "lock", ![curtcb].dev = PT]
    BY <1>2 DEF CloseTest
  <1>4. [call[curtcb] EXCEPT !.at = "lock", !.dev = PT] \in Call
    BY CurSound, ReaderIsADriver DEF Call, Cur, AllocAt, LIInv
  <1>5. Moved(Cur.svc, "lock", PT, Cur.io, Cur.fd, Cur.ok)
    BY <1>1, <1>3, <1>4 DEF Moved, TypeOK, Cur, Call
  <1>6. ~Given("lock", Cur.ok)
    BY DEF Given
  <1> HIDE DEF Cur
  <1> QED  BY <1>0, <1>1, <1>5, <1>6, KernelQuiet

LEMMA LCloseClear ==
    ASSUME LIInv, LoaderKernel, CloseClear
    PROVE  LIInv'
  <1>0. PICK p \in Tasks : p = curtcb
    BY CurSound DEF LIInv
  <1>1. /\ Cur.at = "clear" /\ Cur.svc = "close" /\ TypeOK /\ Goto("unlock")
        /\ UNCHANGED <<curtcb, mutex, drv, chan>> /\ breach' = {}
        /\ Cur.io \in Entries
    BY <1>0, CurSound, CurReader, SameChan
    DEF CloseClear, At, CallSound, CloseAt, LIInv, Channel
  <1>2. \A j \in Entries : /\ iote'[j].driver \in {iote[j].driver, NULL}
                           /\ iote'[j].dealloc = iote[j].dealloc
    BY <1>1 DEF CloseClear, TypeOK, Entry
  <1>3. \A j \in Entries : iote'[j].driver \in {PT, NULL}
    BY <1>2 DEF LIInv, Channel
  <1>4. ASSUME NEW t \in Tasks, Has(t) PROVE iote'[chan[t][LoadFd]].dealloc
    <2>1. chan[t][LoadFd] \in Entries
        BY <1>4, FirstFd, ChanType DEF Has, LIInv
    <2>2. iote[chan[t][LoadFd]].dealloc
        BY <1>4 DEF LIInv, Channel
    <2> QED  BY <1>2, <2>1, <2>2
  <1>5. \A t \in Tasks : Reader(t)' <=> Reader(t)
    BY <1>1 DEF Reader
  <1>6. ~Reader(p)'
    <2>1. Given("clear", Cur.ok)
        BY DEF Given
    <2>2. Closing(p, Cur)
        BY <1>0, <1>1, KernelCaller DEF Opening
    <2> QED  BY <1>1, <1>5, <2>1, <2>2 DEF Closing
  <1>7. Moved(Cur.svc, "unlock", Cur.dev, Cur.io, Cur.fd, Cur.ok)
    BY <1>1, GotoMoves DEF Labels
  <1> HIDE DEF Cur
  <1> QED  BY <1>0, <1>1, <1>3, <1>4, <1>5, <1>6, <1>7, KernelMove

(* The unlock of open gives the task its channel, that of close takes it.   *)
LEMMA LChanUnlock ==
    ASSUME LIInv, LoaderKernel, ChanUnlock
    PROVE  LIInv'
  <1>0. PICK p \in Tasks : p = curtcb
    BY CurSound DEF LIInv
  <1>1. /\ Cur.at = "unlock" /\ Cur.svc \in {"open", "close"} /\ TypeOK
        /\ Cur.fd = LoadFd /\ LoadFd \in Fds /\ CallSound(Cur)
        /\ UNCHANGED <<curtcb, drv, iote, breach>> /\ Cur = call[p]
    BY <1>0, CurSound, CurReader, KernelCaller, FirstFd
    DEF ChanUnlock, At, LIInv
  <1>2. mutex["CHAN"] = curtcb
    BY <1>0, <1>1 DEF LIInv, IInv, LocksHeld, InChan
  <1>3. Return /\ MutexDealloc("CHAN")
    BY <1>2 DEF ChanUnlock, CanDealloc
  <1>4. mutex'["CHAN"] = NULL
    BY <1>1, <1>3 DEF MutexDealloc, TypeOK, Mutexes
  <1>5. Moved("none", "user", NULL, NULL, NULL, TRUE)
    BY <1>1, <1>3, ReturnMoves
  <1>6. Cur.svc = "close" => Cur.ok
    BY <1>1, CurEntries DEF CloseSound, LIInv
  <1>7. Cur.svc = "open" /\ Cur.ok => Cur.io \in Entries /\ Cur.io # NULL
    BY <1>1, ChannelsAssumption DEF CallSound
  <1> DEFINE e == IF Cur.svc = "open" THEN Cur.io ELSE NULL
  <1>8. chan' = IF Cur.ok THEN [chan EXCEPT ![p][LoadFd] = e] ELSE chan
    <2>1. CanDealloc("CHAN") /\ IInv
        BY <1>2 DEF CanDealloc, LIInv
    <2> QED  BY <1>0, <1>1, <2>1, UnlockChan
  <1>9. /\ \A t \in Tasks : t # p => chan'[t] = chan[t]
        /\ \A f \in Fds : f # LoadFd => chan'[p][f] = chan[p][f]
        /\ chan'[p][LoadFd] = IF Cur.ok THEN e ELSE chan[p][LoadFd]
    <2>1. chan \in [Tasks -> [Fds -> Entries \cup {NULL}]] /\ LoadFd \in Fds
        BY <1>1, ChanType DEF LIInv
    <2> HIDE DEF e, Cur, LoadFd
    <2> QED  BY <1>8, <2>1
  <1>10. \/ Cur.svc = "open" /\ Opening(p, Cur) /\ sh[p].at = "opening"
         \/ /\ Cur.svc = "close" /\ Closing(p, Cur) /\ sh[p].at = "closing"
            /\ p \notin Overwritten
    BY <1>0, <1>1, KernelCaller DEF Opening, Closing
  <1>11. Reader(p)' <=> Reader(p)
    BY <1>1 DEF Reader
  <1>12. Channel'
    <2>1. \A t \in Tasks : mutex'["CHAN"] # t
        BY <1>4, ChannelsAssumption
    <2>2. ASSUME NEW t \in Tasks, NEW f \in Fds, f # LoadFd PROVE chan'[t][f] = NULL
        BY <1>9, <2>2 DEF LIInv, Channel
    <2>3. ASSUME NEW t \in Tasks, Has(t)' PROVE iote[chan'[t][LoadFd]].dealloc
        <3>1. CASE chan'[t][LoadFd] = chan[t][LoadFd]
            BY <2>3, <3>1 DEF LIInv, Channel, Has
        <3>2. CASE t = p /\ Cur.ok /\ chan'[p][LoadFd] = e
            <4>1. Cur.svc = "open" /\ chan'[p][LoadFd] = Cur.io
                BY <1>1, <2>3, <3>2 DEF Has
            <4>2. iote[Cur.io].dealloc
                BY <1>1, <1>10, <3>2, <4>1 DEF Opening
            <4> QED  BY <3>2, <4>1, <4>2
        <3> QED  BY <1>9, <3>1, <3>2
    <2>4. breach' = {} /\ \A i \in Entries : iote'[i].driver \in {PT, NULL}
        BY <1>1 DEF LIInv, Channel
    <2>5. \A t \in Tasks : Has(t)' => iote'[chan'[t][LoadFd]].dealloc
        BY <1>1, <2>3
    <2> QED  BY <2>1, <2>2, <2>4, <2>5 DEF Channel
  <1>13. Idle(call[p])' /\ errno'[p] = errno[p] /\ sh' = sh
    <2>1. call'[p].svc = "none" /\ call'[p].at = "user" /\ call'[p].ok
        BY <1>0, <1>5 DEF Moved
    <2>2. errno'[p] = errno[p]
        BY <1>0, <2>1, KernelErrno
    <2> QED  BY <1>0, <2>1, <2>2, KernelCaller DEF Idle
  <1>14. CASE Cur.svc = "open"
    <2>1. Opening(p, Cur) /\ sh[p].at = "opening"
        BY <1>10, <1>14
    <2>2. CASE Cur.ok
        <3>1. Has(p)' /\ errno[p] = "EOK"
            BY <1>7, <1>9, <1>14, <2>1, <2>2 DEF Has, Opening
        <3>2. Phase(p)'
            BY <1>13, <2>1, <3>1 DEF Phase
        <3> HIDE DEF Cur
        <3> QED  BY <1>0, <1>1, <1>5, <1>9, <1>12, <3>2, KernelOwnStep
                 DEF Moved, Reader
    <2>3. CASE ~Cur.ok
        <3>1. ~Has(p)' /\ ~Reader(p) /\ errno[p] # "EOK"
            BY <1>9, <2>1, <2>3 DEF Has, Opening, Taken
        <3>2. Phase(p)'
            BY <1>11, <1>13, <2>1, <3>1 DEF Phase
        <3> HIDE DEF Cur
        <3> QED  BY <1>0, <1>1, <1>5, <1>9, <1>12, <3>2, KernelOwnStep
                 DEF Moved, Reader
    <2> QED  BY <2>2, <2>3
  <1>15. CASE Cur.svc = "close"
    <2>1. Closing(p, Cur) /\ sh[p].at = "closing"
        BY <1>10, <1>15
    <2>2. ~Has(p)'
        BY <1>6, <1>9, <1>15 DEF Has
    <2>3. ~Reader(p)'
        BY <1>1, <1>11, <2>1 DEF Closing, Given
    <2>4. Released(p)'
        BY <2>2, <2>3 DEF Released
    <2>5. Phase(p)'
        BY <1>13, <2>1, <2>4 DEF Phase
    <2> HIDE DEF Cur
    <2> QED  BY <1>0, <1>1, <1>5, <1>9, <1>12, <2>5, KernelOwnStep
             DEF Moved, Reader
  <1> QED  BY <1>1, <1>14, <1>15

-----------------------------------------------------------------------------
LEMMA LoaderKernelStep ==
    ASSUME LIInv, LoaderKernel
    PROVE  LIInv'
  <1>1. KernelStep /\ ~TransferReturn
    BY DEF LoaderKernel, TransferReturn
  <1> QED
    BY <1>1, LAllocLock, LAllocCheck, LSetOwner, LSetAlloc, LAllocFree,
       LAllocReturn, LOpenFind, LOpenEntry, LOpenTests, LCloseTest, LCloseClear,
       LChanUnlock
    DEF KernelStep

(* The store that open or close has left changes no channel.                *)
LEMMA LLoadStore ==
    ASSUME LIInv, LoadStore
    PROVE  LIInv'
  <1>1. /\ StoreFd /\ halted = "no" /\ halted' = "no"
        /\ UNCHANGED <<curtcb, masked, mutex, drv, iote, call, breach>>
        /\ UNCHANGED <<tape, pos, sh, core, errno>>
    BY DEF LoadStore, StoreFd, loadVars
  <1>2. chan' = chan
    BY <1>1, StoreKeepsChan DEF LIInv
  <1>3. (IInv /\ EntryInv /\ DeviceInv)'
    <2>1. Next
        BY <1>1 DEF Next, UserStep
    <2> QED  BY <2>1, IInvStep, EntryInvStep, DeviceInvStep DEF LIInv
  <1>4. LTypes' /\ Channel' /\ Panicked'
    BY <1>1, <1>2 DEF LIInv, LTypes, PosSound, Channel, Panicked, Has
  <1>5. ASSUME NEW t \in Tasks PROVE Phase(t)' /\ Content(t)'
    <2>1. SameTask(t)
        BY <1>1, <1>2 DEF SameTask, Reader
    <2> QED  BY <1>1, <2>1, SamePhase, SameContent DEF LIInv
  <1> QED  BY <1>3, <1>4, <1>5 DEF LIInv

LEMMA LIInvStep ==
    ASSUME LIInv, [LNext]_lvars
    PROVE  LIInv'
  <1>1. ASSUME NEW t \in Tasks, Preempt(t) /\ UNCHANGED loadVars PROVE LIInv'
    BY <1>1, LPreempt
  <1>2. CASE LoaderKernel
    BY <1>2, LoaderKernelStep
  <1>3. CASE LoaderStep
    BY <1>3, LLoadOpen, LLoadStore, LOpenReturned, LWake, LReadCall, LReadCell, LReadReturn,
       LLoadSection, LLoadClose, LLoadReturn
    DEF LoaderStep
  <1>4. CASE UNCHANGED lvars
    <2>1. UNCHANGED <<curtcb, masked, mutex, drv, iote, chan, call, halted, breach>>
          /\ UNCHANGED <<tape, pos, sh, core, errno>> /\ UNCHANGED vars
        BY <1>4, VarsStill DEF lvars, loadVars
    <2>2. (IInv /\ EntryInv /\ DeviceInv)'
        BY <2>1, IInvStep, EntryInvStep, DeviceInvStep DEF LIInv
    <2>3. LTypes' /\ Channel' /\ Panicked'
        BY <2>1 DEF LIInv, LTypes, PosSound, Channel, Has, Panicked
    <2>4. ASSUME NEW t \in Tasks, (t # curtcb \/ halted = "no")' PROVE Phase(t)'
        <3>1. Phase(t) /\ SameTask(t)
            BY <2>1, <2>4 DEF LIInv, SameTask, Reader
        <3> QED  BY <3>1, SamePhase
    <2>5. ASSUME NEW t \in Tasks PROVE Content(t)'
        <3>1. Content(t)
            BY DEF LIInv
        <3> QED  BY <2>1, <3>1, SameContent
    <2> QED  BY <2>2, <2>3, <2>4, <2>5 DEF LIInv
  <1> QED  BY <1>1, <1>2, <1>3, <1>4 DEF LNext

LEMMA LIInvInit ==
    ASSUME LInit
    PROVE  LIInv
  <1> USE ChannelsAssumption, ReaderIsADriver, FirstFd
  <1>1. IInv
    BY DEF LInit, IInv, TypeOK, Driver, Entry, Call, UserMode, CallSound,
           LocksHeld, InChan, InDrv, Ownership, OpenAt, CloseAt, AllocAt,
           Services, Halts, DeallocPanics, Store, Nothing
  <1>a. \A t \in Tasks, f \in Fds : chan[t][f] = NULL
    BY DEF LInit, chan, Nothing
  <1>2. EntryInv
    BY <1>a DEF LInit, EntryInv, OneDescriptor, DescriptorsOpen, OpenSound,
           CloseSound, UserMode
  <1>3. DeviceInv
    BY <1>a DEF LInit, DeviceInv, StageSound, FlagsSound, HeldSound, ChannelsOwned,
           ClosePanicSound, UserMode, AllocAt
  <1>4. LTypes
    <2>1. pos = [im |-> 1, at |-> 0] /\ tape.images \in Seq(Images)
        BY LoaderAssumption DEF LInit
    <2>2. ASSUME NEW i \in DOMAIN tape.images PROVE Stored(tape.images[i]) \in Nat
        <3>1. tape.images[i] \in Images
            BY <2>1
        <3> QED  BY <3>1 DEF Stored, Images
    <2>3. PosSound /\ pos \in Cell
        BY <2>1, <2>2 DEF PosSound, Cell
    <2>4. Start \in ShFrame
        BY DEF Start, ShFrame, Steps, Parts, Errors
    <2>5. << >> \in Seq(Cell)
        OBVIOUS
    <2> QED  BY <2>3, <2>4, <2>5 DEF LInit, LTypes, Errors
  <1>5. Channel /\ Panicked
    <2>1. \A t \in Tasks : ~Has(t) /\ \A f \in Fds : chan[t][f] = NULL
        BY <1>a DEF Has
    <2>2. mutex["CHAN"] = NULL /\ breach = {} /\ halted = "no"
        BY DEF LInit, Mutexes
    <2>3. \A i \in Entries : iote[i].driver = NULL
        BY DEF LInit
    <2> QED  BY <2>1, <2>2, <2>3 DEF Channel, Panicked
  <1>6. ASSUME NEW t \in Tasks PROVE Phase(t) /\ Content(t)
    <2>1. /\ sh[t] = Start /\ call[t] = UserMode /\ ~Has(t) /\ ~Reader(t)
          /\ core[t] = << >>
        BY <1>a DEF LInit, Has, Reader
    <2>2. Phase(t)
        BY <2>1 DEF Phase, Start, UserMode, Idle
    <2>3. Len(core[t]) = 0 /\ 0 <= Space[t]
        BY <2>1, LoaderAssumption
    <2>4. Content(t)
        BY <2>1, <2>3 DEF Content, Start
    <2> QED  BY <2>2, <2>4
  <1> QED  BY <1>1, <1>2, <1>3, <1>4, <1>5, <1>6 DEF LIInv

(* Loading never breaks the rules that breach records, and every task of    *)
(* rshell is in a phase that agrees with its call, with its descriptor,     *)
(* with the owner of the reader and with what it has stored.                *)
THEOREM LoaderInvariant == LSpec => []LIInv
  <1> QED  BY LIInvInit, LIInvStep, PTL DEF LSpec

(* The reader stays within its tape, and the text and data that load        *)
(* stores from TASK_BASE on never pass the end of the space of the task,    *)
(* for any images: the comparison of the size with the space is enough for  *)
(* that, though not to keep them off the TUCB in the last cell.             *)
THEOREM LoaderTypes == LSpec => []LoaderTypeOK
  <1>1. LIInv => LoaderTypeOK
    <2> SUFFICES ASSUME LIInv PROVE LoaderTypeOK
        OBVIOUS
    <2>1. TypeOK /\ PosSound
        BY DEF LIInv, IInv, LTypes
    <2>2. ASSUME NEW t \in Tasks
          PROVE  /\ sh[t].at \in Steps /\ sh[t].part \in Parts
                 /\ Len(core[t]) <= Space[t]
        BY FrameType DEF LIInv, ShFrame, Content
    <2> QED  BY <2>1, <2>2 DEF LoaderTypeOK, PosSound, Parts
  <1> QED  BY <1>1, LoaderInvariant, PTL

(* What load reports as loaded is the text and data of one image, whole and *)
(* in order, whatever the other tasks and the clock do meanwhile.  (The     *)
(* cell of the TUCB, where errno is, is left out.)                          *)
THEOREM LoadsWholeImages == LSpec => []LoadedWhole
  <1>1. LIInv => LoadedWhole
    <2> SUFFICES ASSUME LIInv, NEW t \in Tasks, sh[t].at = "run", sh[t].size > 0
                 PROVE  \E i \in DOMAIN tape.images :
                           /\ tape.images[i].valid
                           /\ Len(core[t]) = Stored(tape.images[i])
                           /\ \A k \in 1 .. Len(core[t]) :
                                 k # Space[t] => core[t][k] = [im |-> i, at |-> k]
        BY DEF LoadedWhole
    <2>1. Whole(t)
        BY DEF LIInv, Content
    <2>2. PICK i \in DOMAIN tape.images :
             tape.images[i].valid /\ core[t] = Piece(i, Stored(tape.images[i]))
        BY <2>1 DEF Whole
    <2>3. Stored(tape.images[i]) \in Nat
        BY ImageTypes DEF LIInv
    <2>4. Len(core[t]) = Stored(tape.images[i])
        BY <2>2, <2>3, PieceLen, Zenon
    <2>5. \A k \in 1 .. Len(core[t]) : core[t][k] = [im |-> i, at |-> k]
        BY <2>2, <2>4 DEF Piece
    <2> QED  BY <2>2, <2>4, <2>5
  <1> QED  BY <1>1, LoaderInvariant, PTL

(* Every load of rshell, the first and the retries, finds the name of the   *)
(* device at TASK_BASE: nothing was stored over it.                         *)
THEOREM NameStaysIntact == LSpec => []NameIntact
  <1>1. LIInv => NameIntact
    BY DEF LIInv, NameIntact, Content
  <1> QED  BY <1>1, LoaderInvariant, PTL

(* A store of open or close is pending only in a task that waits for it.    *)
PendingSound ==
    \A t \in Tasks : store[t].fd # NULL => sh[t].at \in {"opening", "closing"}

LEMMA PendingStep ==
    ASSUME LIInv, PendingSound, [LNext]_lvars
    PROVE  PendingSound'
  <1>0. /\ curtcb \in Tasks /\ store \in [Tasks -> Store] /\ LTypes
    BY DEF LIInv, IInv, TypeOK
  <1>1. CASE store' = store /\ sh' = sh
    BY <1>1 DEF PendingSound
  <1>2. CASE /\ store' = store /\ store[curtcb].fd = NULL
             /\ \A t \in Tasks : t # curtcb => sh'[t] = sh[t]
    BY <1>2 DEF PendingSound
  <1>3. CASE StoreFd /\ sh' = sh
    <2>1. \A t \in Tasks : store'[t] = store[t] \/ store'[t].fd = NULL
        BY <1>0, <1>3 DEF StoreFd, Nothing
    <2> QED  BY <1>3, <2>1 DEF PendingSound
  <1>4. CASE LoaderKernel
    <2>1. sh' = sh /\ sh[curtcb].at \in {"opening", "closing"}
        BY <1>0, <1>4, KernelCaller
    <2>2. \A t \in Tasks : t # curtcb => store'[t] = store[t]
        BY <1>0, <1>4
        DEF LoaderKernel, KernelStep, AllocLock, AllocCheck, SetOwner, SetAlloc,
            AllocFree, AllocReturn, OpenFind, OpenLocate, OpenActive, OpenAvail,
            OpenOwner, OpenMark, CloseTest, CloseClear, ChanUnlock, TransferReturn
    <2> QED  BY <2>1, <2>2 DEF PendingSound
  <1>5. CASE LoaderStep
    <2>1. CASE LoadStore
        BY <1>3, <2>1 DEF LoadStore, loadVars
    <2>2. CASE ~LoadStore
        <3>1. store' = store /\ store[curtcb].fd = NULL
            BY <1>5, <2>2
            DEF LoaderStep, LoadOpen, OpenReturned, Wake, ReadCall, ReadCell,
                ReadReturn, LoadSection, LoadClose, LoadReturn, CloseLost, vars,
                ShAt, At, OpenCall, CloseCall, ChanLock, TransferCall,
                TransferReturn
        <3>2. \A t \in Tasks : t # curtcb => sh'[t] = sh[t]
            BY <1>0, <1>5, <2>2
            DEF LTypes, LoaderStep, LoadOpen, OpenReturned, Wake, ReadCall, ReadCell,
                ReadReturn, LoadSection, LoadClose, LoadReturn, GiveUp, Section,
                HeaderRead, ImageRead
        <3> QED  BY <1>2, <3>1, <3>2
    <2> QED  BY <2>1, <2>2
  <1>6. CASE \E t \in Tasks : Preempt(t) /\ UNCHANGED loadVars
    BY <1>1, <1>6 DEF Preempt, loadVars
  <1>7. CASE UNCHANGED lvars
    BY <1>1, <1>7 DEF lvars, vars, loadVars
  <1> QED  BY <1>4, <1>5, <1>6, <1>7 DEF LNext

THEOREM PendingStores == LSpec => []PendingSound
  <1>1. LInit => PendingSound
    BY DEF LInit, PendingSound, Nothing
  <1>2. LIInv /\ PendingSound /\ [LNext]_lvars => PendingSound'
    BY PendingStep
  <1> QED  BY <1>1, <1>2, LoaderInvariant, PTL DEF LSpec

(* A task that has left load, with an image or with an error, has given the *)
(* reader and its descriptor back, unless the image covered its TUCB.       *)
THEOREM ReaderReleased == LSpec => []TapeReleased
  <1>1. LIInv /\ PendingSound => TapeReleased
    <2> SUFFICES ASSUME LIInv, PendingSound,
                        NEW t \in Tasks \ Overwritten, sh[t].at = "run"
                 PROVE  drv[PT].ownerid # t /\ \A f \in Fds : fds[t][f] = NULL
        BY DEF TapeReleased
    <2>1. t # curtcb \/ halted = "no"
        BY DEF LIInv, Panicked
    <2>2. Phase(t)
        BY <2>1 DEF LIInv
    <2>3. ~Has(t) /\ ~Reader(t)
        BY <2>2 DEF Phase, Released
    <2>4. \A f \in Fds : f # LoadFd => chan[t][f] = NULL
        BY DEF LIInv, Channel
    <2>5. chan[t] = fds[t]
        BY DEF PendingSound, chan
    <2> QED  BY <2>3, <2>4, <2>5 DEF Has, Reader
  <1> QED  BY <1>1, LoaderInvariant, PendingStores, PTL

=============================================================================
