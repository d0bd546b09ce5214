----------------------------- MODULE CallStore -----------------------------
(***************************************************************************)
(* The page dictionary of PageStore for clients on several threads: a call *)
(* takes effect at one moment between its start and its return, with the   *)
(* answer it returns, and no call of another client can tell more of it.   *)
(* A write or a read may fail; a write that fails has spoilt the page, and *)
(* no other.                                                               *)
(*                                                                         *)
(* This module models no code of its own: DiskScheduler.tla implements it. *)
(***************************************************************************)
CONSTANTS PageId, Data, Absent, Client, Request, Idle

VARIABLES
  store,    (* the content of every page                                   *)
  calls     (* the call of every client, with its answer or without        *)

vars == <<store, calls>>

Init ==
  /\ store = [p \in PageId |-> Absent]
  /\ calls = [c \in Client |-> Idle]

Call(c, req) ==
  /\ calls[c] = Idle
  /\ calls' = [calls EXCEPT ![c] = [request |-> req, answers |-> {}]]
  /\ UNCHANGED store

Answer(c, a) == calls' = [calls EXCEPT ![c].answers = {a}]

Effect(c) ==
  /\ calls[c] # Idle /\ calls[c].answers = {}
  /\ LET req == calls[c].request
     IN  \/ /\ req.type = "read"
            /\ \/ Answer(c, store[req.page])
               \/ Answer(c, "None")
            /\ UNCHANGED store
         \/ /\ req.type = "write"
            /\ \/ /\ store' = [store EXCEPT ![req.page] = req.data]
                  /\ Answer(c, req.data)
               \/ \E d \in Data :
                    /\ store' = [store EXCEPT ![req.page] = d]
                    /\ Answer(c, "None")
         \/ /\ req.type = "delete"
            /\ store' = [store EXCEPT ![req.page] = Absent]
            /\ Answer(c, req.data)

Return(c) ==
  /\ calls[c] # Idle /\ calls[c].answers # {}
  /\ calls' = [calls EXCEPT ![c] = Idle]
  /\ UNCHANGED store

Next ==
  \E c \in Client :
    \/ \E req \in Request : Call(c, req)
    \/ Effect(c)
    \/ Return(c)

Spec == Init /\ [][Next]_vars
=============================================================================
