------------------------------ MODULE MCBTree ------------------------------
(* Small instances of the B+tree. *)
EXTENDS BTreeProps

MCKeys == 0 .. 3
=============================================================================
