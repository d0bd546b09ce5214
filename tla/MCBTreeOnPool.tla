---------------------------- MODULE MCBTreeOnPool --------------------------
(* The pool of 10 frames that BTree::new makes, and the node sizes that    *)
(* btree_find and btree_split_stops_at_grandparent set.                    *)
EXTENDS BTreeOnPool

MCKey == 0 .. 64
=============================================================================
