---------------------------- MODULE MCTaskCreate -----------------------------
(***************************************************************************)
(* Task types for the model-checking runs of TaskCreate.                   *)
(***************************************************************************)
EXTENDS TaskCreate

Small(k) == [kind |-> k, size |-> "SMALL", stack |-> "SMALLS"]

(* Every kind and size, one undefined kind, one unsupported stack size.     *)
MCAllTypes ==
    [kind : {"SYS", "USR", "DRV"}, size : {"SMALL", "MED", "BIG"}, stack : {"SMALLS"}]
        \cup {Small("OTHER"), [Small("USR") EXCEPT !.stack = "MEDS"]}
MCUserTypes == {Small("USR")}
MCBigTypes == {[Small("USR") EXCEPT !.size = "BIG"]}
=============================================================================
