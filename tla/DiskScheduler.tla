--------------------------- MODULE DiskScheduler ---------------------------
(***************************************************************************)
(* src/src/disk_scheduler.rs: the queue of disk requests, the worker       *)
(* thread that runs them and the shutdown in drop.                         *)
(*                                                                         *)
(* The clients are the threads that hold an Arc of the scheduler: Pool,    *)
(* which is whoever has the pool's latch, and the threads that have guards *)
(* and only flush.  Each of them schedules a request and waits on the      *)
(* receiver for its answer at once, as every caller in buffer_pool.rs and  *)
(* guard.rs does.  The disk manager below is the page dictionary that      *)
(* DiskManager.tla implements; a write that fails has spoilt the page it   *)
(* was for.  What a failing write of a page without a slot does to the     *)
(* disk manager is in DiskManager.tla.                                     *)
(*                                                                         *)
(* The worker has no other way out of its loop than the message None:      *)
(* requests with less than a page of data, which would make it panic, are  *)
(* not made, and no one else locks the disk manager.                       *)
(***************************************************************************)
EXTENDS Naturals, Sequences, FiniteSets

CONSTANTS
  PageId, Data, Absent,
  Zero,              (* the page of zeros that reads and deletes send      *)
  Client, Pool

ASSUME SchedulerAssumption ==
  /\ Zero \in Data /\ Absent \notin Data
  /\ IsFiniteSet(Client) /\ Pool \in Client

VARIABLES
  store,     (* the content of every page of the disk manager              *)
  queue,     (* the channel request_tx .. request_rx                       *)
  worker,    (* the worker thread                                          *)
  client,    (* every client, with the channel of its promise              *)
  owners     (* the clients that hold an Arc of the scheduler              *)

vars == <<store, queue, worker, client, owners>>

Request ==
  [type : {"write"}, page : PageId, data : Data]
    \cup [type : {"read", "delete"}, page : PageId, data : {Zero}]

Poison == [type |-> "None"]           (* the message None                  *)
Idle == [pc |-> "idle"]

Init ==
  /\ store = [p \in PageId |-> Absent]
  /\ queue = <<>>
  /\ worker = [pc |-> "recv"]
  /\ client = [c \in Client |-> Idle]
  /\ owners = Client

-----------------------------------------------------------------------------
(* Clients.  promise is what has been sent on the request's own channel.   *)

(* Mutation of MayRequest: reads and deletes are made without the latch.   *)
MayRequestUnlatched(c, req) == req.type = "read" => store[req.page] # Absent

(* Reads and deletes are made with the pool's latch held, and reads only   *)
(* of pages that new_page has made and that have not been deleted.         *)
MayRequest(c, req) ==
  /\ req.type # "write" => c = Pool
  /\ req.type = "read" => store[req.page] # Absent

schedule(c, req) ==
  /\ c \in owners /\ client[c] = Idle
  /\ MayRequest(c, req)
  /\ queue' = Append(queue, [from |-> c, request |-> req])
  /\ client' = [client EXCEPT ![c] = [pc |-> "waiting", request |-> req, promise |-> <<>>]]
  /\ UNCHANGED <<store, worker, owners>>

\* rx.recv()
recv_reply(c) ==
  /\ client[c].pc = "waiting" /\ client[c].promise # <<>>
  /\ client' = [client EXCEPT ![c] = Idle]
  /\ UNCHANGED <<store, queue, worker, owners>>

(* Mutations of Farewell: none is sent, or by everyone who drops its Arc.  *)
FarewellUnsent(c) == queue
FarewellByAll(c) == Append(queue, Poison)

Farewell(c) == IF owners = {c} THEN Append(queue, Poison) ELSE queue

(* The Arc is dropped; with the last one, drop sends None and joins.       *)
drop(c) ==
  /\ c \in owners /\ client[c] = Idle
  /\ owners' = owners \ {c}
  /\ queue' = Farewell(c)
  /\ client' = [client EXCEPT ![c] = [pc |-> IF owners = {c} THEN "join" ELSE "gone"]]
  /\ UNCHANGED <<store, worker>>

join(c) ==
  /\ client[c].pc = "join" /\ worker.pc = "stopped"
  /\ client' = [client EXCEPT ![c] = [pc |-> "joined"]]
  /\ UNCHANGED <<store, queue, worker, owners>>

-----------------------------------------------------------------------------
(* The worker: one pass of the loop is recv, the call of the disk manager  *)
(* with its mutex held, and the answer on the request's channel.           *)

recv ==
  /\ worker.pc = "recv" /\ queue # <<>>
  /\ queue' = Tail(queue)
  /\ worker' = IF Head(queue) = Poison
               THEN [pc |-> "stopped"]
               ELSE [pc |-> "run", from |-> Head(queue).from, request |-> Head(queue).request]
  /\ UNCHANGED <<store, client, owners>>

(* Mutation of Answered: an error is not sent to anybody. *)
AnsweredIfOk(a) ==
  worker' = IF a = "None" THEN [pc |-> "recv"]
            ELSE [pc |-> "send", from |-> worker.from, answer |-> a]

(* Mutation of ReadAnswer: the buffer as it came. *)
ReadAnswerUnread == worker.request.data

ReadAnswer == store[worker.request.page]

Answered(a) == worker' = [pc |-> "send", from |-> worker.from, answer |-> a]

run_read ==
  /\ worker.pc = "run" /\ worker.request.type = "read"
  /\ Answered(ReadAnswer) \/ Answered("None")
  /\ UNCHANGED <<store, queue, client, owners>>

run_write ==
  /\ worker.pc = "run" /\ worker.request.type = "write"
  /\ \/ /\ store' = [store EXCEPT ![worker.request.page] = worker.request.data]
        /\ Answered(worker.request.data)
     \/ /\ store[worker.request.page] # Absent
        /\ \E d \in Data : store' = [store EXCEPT ![worker.request.page] = d]
        /\ Answered("None")
  /\ UNCHANGED <<queue, client, owners>>

run_delete ==
  /\ worker.pc = "run" /\ worker.request.type = "delete"
  /\ store' = [store EXCEPT ![worker.request.page] = Absent]
  /\ Answered(worker.request.data)
  /\ UNCHANGED <<queue, client, owners>>

send ==
  /\ worker.pc = "send"
  /\ client' = [client EXCEPT ![worker.from].promise = <<worker.answer>>]
  /\ worker' = [pc |-> "recv"]
  /\ UNCHANGED <<store, queue, owners>>

Worker == recv \/ run_read \/ run_write \/ run_delete \/ send

-----------------------------------------------------------------------------
Clients ==
  \E c \in Client :
    \/ \E req \in Request : schedule(c, req)
    \/ recv_reply(c)
    \/ drop(c)
    \/ join(c)

(* Nothing is left to do once the last Arc has been dropped. *)
Next == Worker \/ Clients

Spec == Init /\ [][Next]_vars

(* The worker thread runs, and a client that waits takes what has come.    *)
(* Nobody has to make another request, or to drop its Arc.                 *)
FairSpec ==
  /\ Spec
  /\ WF_vars(Worker)
  /\ \A c \in Client : WF_vars(recv_reply(c)) /\ WF_vars(join(c))
=============================================================================
