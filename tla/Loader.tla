------------------------------- MODULE Loader -------------------------------
(***************************************************************************)
(* Loading programs: the tasks that sys/startup.c creates all run          *)
(* shell/rshell.c, which calls load (lib/sys/lib_load.c) until the device  *)
(* is free, reads an a.out image from it and calls the entry point.  All   *)
(* of them load from the same reader, and the tape is one image after      *)
(* another (sys/Makefile, tasks.tap).                                      *)
(*                                                                         *)
(* The module composes with Channels: open, close and the mutexes are its  *)
(* actions, here with programs that do nothing but load, and with the      *)
(* transfer loop of muxx_svc_read cell by cell.  sys/init.s has registered *)
(* and started the driver before the first of these tasks exists.          *)
(*                                                                         *)
(* A cell stands for a header or for a piece of text or data; task space   *)
(* is counted in cells.  Its last cell holds the TUCB, with the table of   *)
(* descriptors, and an image of exactly the size of the space covers it;   *)
(* the name of the device stands at TASK_BASE, where the text is loaded,   *)
(* until the first cell is stored.                                         *)
(***************************************************************************)
EXTENDS Channels, Sequences

CONSTANTS
    PT,           \* the reader
    Space,        \* private space of each task: 1, 2 or 3 pages by its type
    Tapes         \* the tapes: sequences of images

(* The sum is taken in a WORD; the images are those whose sum fits one.     *)
Size(im) == im.text + im.data + im.bss
Images == [valid : BOOLEAN, text : Nat, data : Nat, bss : Nat]

ASSUME LoaderAssumption ==
    /\ PT \in Drivers \ Shareable
    /\ Space \in [Tasks -> Nat \ {0}]
    /\ Tapes \subseteq Seq(Images)
    /\ IOT_TENTRIES > 0

VARIABLES
    tape,     \* the images on the tape, and whether its last cell is lost
    pos,      \* the next cell: cell at of image im
    sh,       \* rshell and load in every task
    core,     \* the cells load has stored in every task from TASK_BASE on
    errno     \* TUCB.t_errno of every task

loadVars == <<tape, pos, sh, core, errno>>
lvars == <<vars, loadVars>>

(* Image im is cell 0, its header, and its text and data from cell 1 on.    *)
(* The cell after a cell of the tape, and the last one.                     *)
Stored(im) == im.text + im.data
After(tp, c) == IF c.at = Stored(tp[c.im]) THEN [im |-> c.im + 1, at |-> 0]
                ELSE [im |-> c.im, at |-> c.at + 1]
LastCell(tp) == [im |-> Len(tp), at |-> Stored(tp[Len(tp)])]

(* The frame of rshell and load: where it stands, the section it reads, the *)
(* cells of it read, the header, whether the last read fell short, and rc.  *)
Steps == {"load", "opening", "sleep", "read", "reading", "got", "close",
          "closing", "run", "failed"}
Start == [at |-> "load", part |-> "header", n |-> 0, header |-> NULL,
          short |-> FALSE, rc |-> "EOK", size |-> 0]

(* The state in which sys/init.s creates the first task: Init of Channels   *)
(* after its DRVREG and DRVSTART.  The tape may have lost its last cell.    *)
LInit ==
    /\ curtcb \in Tasks
    /\ masked = FALSE
    /\ mutex = [m \in Mutexes |-> NULL]
    /\ drv = [d \in Drivers |-> [free |-> FALSE, active |-> TRUE,
                                 alloc |-> FALSE, ownerid |-> NULL]]
    /\ iote = [i \in Entries |-> [driver |-> NULL, open |-> FALSE,
                                  dealloc |-> FALSE]]
    /\ fds = [t \in Tasks |-> [f \in Fds |-> NULL]]
    /\ store = [t \in Tasks |-> Nothing]
    /\ call = [t \in Tasks |-> UserMode]
    /\ halted = "no"
    /\ breach = {}
    /\ tape \in [images : Tapes, lost : BOOLEAN]
    /\ pos = [im |-> 1, at |-> 0]
    /\ sh = [t \in Tasks |-> Start]
    /\ core = [t \in Tasks |-> <<>>]
    /\ errno = [t \in Tasks |-> "EOK"]

Sh == sh[curtcb]
ShAt(l) == At("user") /\ Sh.at = l
Header == tape.images[Sh.header.im]

(* There is a cell to read.                                                 *)
More == /\ pos.im \in DOMAIN tape.images
        /\ ~(tape.lost /\ pos = LastCell(tape.images))

(* Storing in the last cell of its space loses the running task its table   *)
(* of descriptors: null stands for words that are zero or whatever the      *)
(* image has there, and are not the addresses of its entries.               *)
LoseTable == fds' = [fds EXCEPT ![curtcb] = [f \in Fds |-> NULL]]

-----------------------------------------------------------------------------
(* rshell calls load, which opens the device.                               *)
LoadOpen ==
    /\ ShAt("load")
    /\ OpenCall(PT)
    /\ sh' = [sh EXCEPT ![curtcb].at = "opening"]
    /\ errno' = [errno EXCEPT ![curtcb] = "EOK"]
    /\ UNCHANGED <<tape, pos, core>>

(* The error each statement of muxx_svc_open and muxx_svc_alloc leaves.     *)
ErrorAt(l) ==
    CASE l = "find"   -> "ENOSYSRES"
      [] l = "locate" -> "ENOTFOUND"
      [] l = "active" -> "EOFFLINE"
      [] l = "lock"   -> "ELOCKED"
      [] l \in {"check", "owner"} -> "ENOAVAIL"
      [] OTHER        -> "ENOTOPEN"

(* The kernel executes open and close.                                      *)
LoaderKernel ==
    /\ ~At("io")
    /\ KernelStep
    /\ errno' = IF Cur.ok /\ ~call'[curtcb].ok
                THEN [errno EXCEPT ![curtcb] = ErrorAt(Cur.at)]
                ELSE errno
    /\ UNCHANGED <<tape, pos, sh, core>>

(* open and close store the descriptor.                                     *)
LoadStore == StoreFd /\ UNCHANGED loadVars

Retried == {"ENOAVAIL", "ENOSYSRES"}

(* open returned.  Only its errors reach rshell as negative numbers, and    *)
(* two of them make it sleep and load again.                                *)
OpenReturned ==
    /\ ShAt("opening")
    /\ sh' = [sh EXCEPT ![curtcb].at =
                 IF errno[curtcb] = "EOK" THEN "read"
                 ELSE IF errno[curtcb] \in Retried THEN "sleep"
                 ELSE "failed"]
    /\ UNCHANGED <<vars, tape, pos, core, errno>>

(* sleep(1) is over.                                                        *)
Wake ==
    /\ ShAt("sleep")
    /\ sh' = [sh EXCEPT ![curtcb] = Start]
    /\ UNCHANGED <<vars, tape, pos, core, errno>>

-----------------------------------------------------------------------------
(* The descriptor load was given: it opens no other.                        *)
LoadFd == CHOOSE f \in Table : \A g \in Table : f <= g

Wanted ==
    CASE Sh.part = "header" -> 1
      [] Sh.part = "text"   -> Header.text
      [] OTHER              -> Header.data

(* read enters the kernel with the descriptor.  When the text filled the    *)
(* space the descriptor of the read of the data is lost: it is ENOTOPEN, or *)
(* the machine goes wrong.                                                  *)
ReadCall ==
    /\ ShAt("read")
    /\ TransferCall(LoadFd)
    /\ IF Leads(LoadFd)
       THEN /\ sh' = [sh EXCEPT ![curtcb].at = "reading", ![curtcb].n = 0,
                                ![curtcb].short = FALSE]
            /\ UNCHANGED errno
       ELSE /\ sh' = [sh EXCEPT ![curtcb].at = "got", ![curtcb].n = 0,
                                ![curtcb].short = (Wanted > 0)]
            /\ errno' = [errno EXCEPT ![curtcb] = "ENOTOPEN"]
    /\ UNCHANGED <<tape, pos, core>>

(* A cell is stored, from TASK_BASE on, as far as the TUCB.                 *)
StoreCell ==
    /\ core' = [core EXCEPT ![curtcb] = Append(@, pos)]
    /\ IF Len(core[curtcb]) + 1 = Space[curtcb] THEN LoseTable
       ELSE UNCHANGED fds

(* Mutant of ReadCell: at the end of the tape it tries again.               *)
ReadCell_Again ==
    /\ At("io")
    /\ Sh.n < Wanted
    /\ More
    /\ pos' = After(tape.images, pos)
    /\ sh' = [sh EXCEPT ![curtcb].n = @ + 1,
                 ![curtcb].header = IF Sh.part = "header" THEN pos ELSE @]
    /\ IF Sh.part = "header" THEN UNCHANGED <<core, fds>> ELSE StoreCell
    /\ UNCHANGED <<curtcb, masked, mutex, drv, iote, store, call, halted, breach>>
    /\ UNCHANGED <<tape, errno>>

(* The loop of muxx_svc_read: one call of ptpread, which waits for a cell   *)
(* or finds the end of the tape.                                            *)
ReadCell ==
    /\ At("io")
    /\ Sh.n < Wanted
    /\ ~Sh.short
    /\ IF More
       THEN /\ pos' = After(tape.images, pos)
            /\ sh' = [sh EXCEPT ![curtcb].n = @ + 1,
                         ![curtcb].header = IF Sh.part = "header" THEN pos ELSE @]
            /\ IF Sh.part = "header" THEN UNCHANGED <<core, fds>> ELSE StoreCell
            /\ UNCHANGED errno
       ELSE /\ sh' = [sh EXCEPT ![curtcb].short = TRUE]
            /\ errno' = [errno EXCEPT ![curtcb] = "EEOF"]
            /\ UNCHANGED <<pos, core, fds>>
    /\ UNCHANGED <<curtcb, masked, mutex, drv, iote, store, call, halted, breach>>
    /\ UNCHANGED tape

ReadReturn ==
    /\ At("io")
    /\ Sh.n = Wanted \/ Sh.short
    /\ TransferReturn
    /\ sh' = [sh EXCEPT ![curtcb].at = "got"]
    /\ UNCHANGED <<tape, pos, core, errno>>

-----------------------------------------------------------------------------
(* load after a read.  That it also stores ENOMEM in errno does not matter: *)
(* errno is set anew before it is read.                                     *)
GiveUp(rc) ==
    /\ sh' = [sh EXCEPT ![curtcb].at = "close", ![curtcb].rc = rc]
    /\ UNCHANGED <<fds>>

Section(p) ==
    /\ sh' = [sh EXCEPT ![curtcb].at = "read", ![curtcb].part = p]
    /\ UNCHANGED <<fds>>

(* Mutant of HeaderRead: the size is not compared with the space.           *)
HeaderRead_AnySize ==
    IF Sh.header.at = 0 /\ Header.valid THEN Section("text")
    ELSE GiveUp("EINVLOAD")

(* The magic number and the size.                                           *)
HeaderRead ==
    IF ~(Sh.header.at = 0 /\ Header.valid) THEN GiveUp("EINVLOAD")
    ELSE IF Size(Header) > Space[curtcb] THEN GiveUp("ENOMEM")
    ELSE Section("text")

(* The memset of the bss clears the descriptors when it reaches the TUCB.   *)
ImageRead ==
    /\ sh' = [sh EXCEPT ![curtcb].at = "close",
                        ![curtcb].size = Size(Header)]
    /\ IF Header.bss > 0 /\ Size(Header) = Space[curtcb] THEN LoseTable
       ELSE UNCHANGED fds

(* Mutant of LoadSection: a short read of the data is not noticed.          *)
LoadSection_NoTest ==
    /\ ShAt("got")
    /\ IF Sh.short /\ Sh.part # "data" THEN GiveUp(errno[curtcb])
       ELSE CASE Sh.part = "header" -> HeaderRead
              [] Sh.part = "text"   -> Section("data")
              [] OTHER              -> ImageRead
    /\ UNCHANGED <<curtcb, masked, mutex, drv, iote, store, call, halted, breach>>
    /\ UNCHANGED <<tape, pos, core, errno>>

LoadSection ==
    /\ ShAt("got")
    /\ IF Sh.short THEN GiveUp(errno[curtcb])
       ELSE CASE Sh.part = "header" -> HeaderRead
              [] Sh.part = "text"   -> Section("data")
              [] OTHER              -> ImageRead
    /\ UNCHANGED <<curtcb, masked, mutex, drv, iote, store, call, halted, breach>>
    /\ UNCHANGED <<tape, pos, core, errno>>

(* close of a lost descriptor: a null one is ENOTOPEN, and with any other   *)
(* word the machine goes wrong.  The bss leaves zeroes, text and data leave *)
(* what the image has there.                                                *)
CloseLost ==
    /\ errno' = [errno EXCEPT ![curtcb] = "ENOTOPEN"]
    /\ halted' \in IF Len(core[curtcb]) = Space[curtcb] THEN {"no", "wild channel"}
                   ELSE {"no"}
    /\ UNCHANGED <<curtcb, masked, mutex, drv, iote, fds, store, call, breach>>

(* Mutant of LoadClose: after an error the channel is not closed.           *)
LoadClose_OnlyOk ==
    /\ ShAt("close")
    /\ IF fds[curtcb][LoadFd] # NULL /\ Sh.rc = "EOK"
       THEN CloseCall(LoadFd) /\ UNCHANGED errno
       ELSE CloseLost
    /\ sh' = [sh EXCEPT ![curtcb].at = "closing"]
    /\ UNCHANGED <<tape, pos, core>>

(* close(fd), whatever happened.                                            *)
LoadClose ==
    /\ ShAt("close")
    /\ IF fds[curtcb][LoadFd] # NULL
       THEN CloseCall(LoadFd) /\ UNCHANGED errno
       ELSE CloseLost
    /\ sh' = [sh EXCEPT ![curtcb].at = "closing"]
    /\ UNCHANGED <<tape, pos, core>>

(* Mutant of LoadReturn: rshell loads again after any error.                *)
LoadReturn_Again ==
    /\ ShAt("closing")
    /\ sh' = [sh EXCEPT ![curtcb].at = IF Sh.rc = "EOK" THEN "run" ELSE "sleep"]
    /\ UNCHANGED <<vars, tape, pos, core, errno>>

(* load returns the size of the image, or 0 after an error; rshell calls    *)
(* the entry point in both cases.                                           *)
LoadReturn ==
    /\ ShAt("closing")
    /\ sh' = [sh EXCEPT ![curtcb].at = "run"]
    /\ UNCHANGED <<vars, tape, pos, core, errno>>

-----------------------------------------------------------------------------
LoaderStep ==
    \/ LoadOpen \/ LoadStore \/ OpenReturned \/ Wake
    \/ ReadCall \/ ReadCell \/ ReadReturn
    \/ LoadSection \/ LoadClose \/ LoadReturn

LNext ==
    \/ \E t \in Tasks : Preempt(t) /\ UNCHANGED loadVars
    \/ LoaderKernel
    \/ LoaderStep

(* The scheduler gives every task the processor again and again, for at     *)
(* least a statement (see Scheduler, NoStarvation).                         *)
LSpec ==
    /\ LInit
    /\ [][LNext]_lvars
    /\ \A t \in Tasks :
          /\ SF_lvars(Preempt(t) /\ UNCHANGED loadVars)
          /\ SF_lvars(curtcb = t /\ (LoaderKernel \/ LoaderStep))

-----------------------------------------------------------------------------
(* Type invariant: that of Channels, a reader within its tape, and no text  *)
(* or data stored past the end of the space of the task, whatever sizes the *)
(* header gives.  (They may reach the TUCB, which is its last cell.)        *)
LoaderTypeOK ==
    /\ TypeOK
    /\ pos.im \in 1 .. Len(tape.images) + 1
    /\ pos.at \in 0 .. IF pos.im \in DOMAIN tape.images
                        THEN Stored(tape.images[pos.im]) ELSE 0
    /\ \A t \in Tasks :
          /\ sh[t].at \in Steps
          /\ sh[t].part \in {"header", "text", "data"}
          /\ Len(core[t]) <= Space[t]

(* The table of descriptors was lost under the feet of load.                *)
Overwritten == {t \in Tasks : sh[t].at \in {"close", "closing", "run"}
                              /\ sh[t].rc = "EOK"
                              /\ sh[t].size = Space[t]}

(* What a task has loaded when load returns a size: all of the text and     *)
(* data of one image, in order and nothing else, although every task reads  *)
(* from the one tape and the clock interrupts every read.  The last cell of *)
(* the space is left out: errno is in it, and every read stores errno.      *)
LoadedWhole ==
    \A t \in Tasks : sh[t].at = "run" /\ sh[t].size > 0 =>
        \E i \in DOMAIN tape.images :
            /\ tape.images[i].valid
            /\ Len(core[t]) = Stored(tape.images[i])
            /\ \A k \in 1 .. Len(core[t]) :
                  k # Space[t] => core[t][k] = [im |-> i, at |-> k]

(* The name of the device is still at TASK_BASE whenever it is opened, by   *)
(* the first load and by every retry.                                       *)
NameIntact == \A t \in Tasks : sh[t].at \in {"load", "opening"} => core[t] = <<>>

(* After load, well or badly ended, the task has neither the device nor a   *)
(* descriptor, unless the image covered the TUCB.                           *)
TapeReleased ==
    \A t \in Tasks \ Overwritten : sh[t].at = "run" =>
        /\ drv[PT].ownerid # t
        /\ \A f \in Fds : fds[t][f] = NULL

(* Every task that wants to load ends its load, unless the machine stops or *)
(* an image covered the TUCB of its task.  A retry may take an I/O entry    *)
(* for ever, but the entry of the task that has the device always comes     *)
(* back, so the last one is never lost and loading goes on.                 *)
LoadEnds ==
    \A t \in Tasks :
        (sh[t].at = "load") ~> \/ sh[t].at \in {"run", "failed"}
                               \/ halted # "no"
                               \/ Overwritten # {}

=============================================================================
