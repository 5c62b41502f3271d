------------------------------ MODULE MCLoader ------------------------------
(***************************************************************************)
(* Tapes for the loader: every sequence of two images out of one that      *)
(* fits, one whose bss reaches the TUCB, one whose data and one whose text *)
(* reach it, one that is too large and one that is not an image.           *)
(***************************************************************************)
EXTENDS Loader

Image(v, t, d, b) == [valid |-> v, text |-> t, data |-> d, bss |-> b]

Fits    == Image(TRUE, 1, 1, 0)
Covers  == Image(TRUE, 1, 1, 1)
DataEnds == Image(TRUE, 1, 2, 0)
TextEnds == Image(TRUE, 3, 0, 0)
TooBig  == Image(TRUE, 2, 2, 0)
Garbage == Image(FALSE, 1, 0, 0)

MCTapes == [1 .. 2 -> {Fits, Covers, DataEnds, TextEnds, TooBig, Garbage}]
MCSpace == [t \in Tasks |-> 3]

=============================================================================
