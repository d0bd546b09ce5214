------------------------------ MODULE KeyStore -----------------------------
(***************************************************************************)
(* What a B+tree index promises to its client: a collection of records     *)
(* under keys, in which a key may have several records.  A record given to *)
(* an insert enters the collection once, between the call of the insert    *)
(* and its return, and nothing else changes the collection; a lookup       *)
(* answers with a record of the key, and with None only if it has none.    *)
(*                                                                         *)
(* This module models no code of its own: BTree.tla implements it.         *)
(***************************************************************************)
EXTENDS Naturals

CONSTANTS
  Key,      (* the keys                                                    *)
  Rid,      (* the record ids                                              *)
  None      (* the answer that there is no record                         *)

VARIABLES
  records,  (* how often each record is stored                             *)
  pending,  (* the record that is being inserted, or None                  *)
  answer    (* the answer to the last lookup                               *)

vars == <<records, pending, answer>>

Init ==
  /\ records = [e \in Key \X Rid |-> 0]
  /\ pending = None
  /\ answer = None

Call(e) ==
  /\ pending = None
  /\ pending' = [record |-> e, stored |-> FALSE]
  /\ UNCHANGED <<records, answer>>

\* The record is stored; the call returns at once or later.
Store ==
  /\ pending # None /\ ~pending.stored
  /\ records' = [records EXCEPT ![pending.record] = @ + 1]
  /\ pending' \in {None, [pending EXCEPT !.stored = TRUE]}
  /\ UNCHANGED answer

Return ==
  /\ pending # None /\ pending.stored
  /\ pending' = None
  /\ UNCHANGED <<records, answer>>

Find(k) ==
  /\ pending = None
  /\ LET found == {r \in Rid : records[<<k, r>>] > 0}
     IN  answer' \in IF found = {} THEN {None} ELSE {k} \X found
  /\ UNCHANGED <<records, pending>>

Next ==
  \/ \E e \in Key \X Rid : Call(e)
  \/ Store
  \/ Return
  \/ \E k \in Key : Find(k)

Spec == Init /\ [][Next]_vars
=============================================================================
