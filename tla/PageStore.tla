----------------------------- MODULE PageStore -----------------------------
(***************************************************************************)
(* What every layer of the storage engine promises to the layer above it:  *)
(* a dictionary from page ids to page contents.  A write is visible to     *)
(* every later read of the same page, until the page is written again or   *)
(* deleted, and touches no other page.                                     *)
(*                                                                         *)
(* This module models no code of its own.  The disk manager implements it  *)
(* with slots of a file (DiskManager.tla) and the buffer pool builds on    *)
(* the same dictionary with its variable disk (BufferPool.tla).            *)
(***************************************************************************)
CONSTANTS
  PageId,   (* the page identifiers in use                                 *)
  Data,     (* the contents a page of PAGE_SIZE bytes can have             *)
  Absent    (* the content of a page that is not stored                    *)

VARIABLES
  store,    (* the content of every page                                   *)
  reply     (* the answer to the last call                                 *)

vars == <<store, reply>>

Init ==
  /\ store = [p \in PageId |-> Absent]
  /\ reply = [op |-> "none"]

Write(p, d) ==
  /\ store' = [store EXCEPT ![p] = d]
  /\ reply' = [op |-> "write", page |-> p]

\* A write that fails has spoilt the page it was for, and no other.
WriteFails(p, d) ==
  /\ store[p] # Absent
  /\ store' = [store EXCEPT ![p] = d]
  /\ reply' = [op |-> "error", page |-> p]

\* The content of a page that was never written is not specified: there is
\* no such read.
Read(p) ==
  /\ store[p] # Absent
  /\ reply' = [op |-> "read", page |-> p, data |-> store[p]]
  /\ UNCHANGED store

\* A read that fails has changed nothing.
ReadFails(p) ==
  /\ store[p] # Absent
  /\ reply' = [op |-> "error", page |-> p]
  /\ UNCHANGED store

Delete(p) ==
  /\ store' = [store EXCEPT ![p] = Absent]
  /\ reply' = [op |-> "delete", page |-> p]

Next ==
  \E p \in PageId :
    \/ \E d \in Data : Write(p, d) \/ WriteFails(p, d)
    \/ Read(p) \/ ReadFails(p)
    \/ Delete(p)

Spec == Init /\ [][Next]_vars
=============================================================================
