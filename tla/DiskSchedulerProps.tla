------------------------- MODULE DiskSchedulerProps ------------------------
(* Properties of the disk scheduler: every request has one answer, nobody  *)
(* is left behind by the shutdown, and the clients share a page store.     *)
EXTENDS DiskScheduler

Answers == Data \cup {"None"}
Messages == [from : Client, request : Request] \cup {Poison}

TypeOK ==
  /\ store \in [PageId -> Data \cup {Absent}]
  /\ queue \in Seq(Messages)
  /\ worker \in [pc : {"recv", "stopped"}]
       \cup [pc : {"run"}, from : Client, request : Request]
       \cup [pc : {"send"}, from : Client, answer : Answers]
  /\ client \in [Client -> [pc : {"idle", "gone", "join", "joined"}]
       \cup [pc : {"waiting"}, request : Request,
             promise : {<<>>} \cup {<<a>> : a \in Answers}]]
  /\ owners \subseteq Client

-----------------------------------------------------------------------------
QueuedFrom(c) == {i \in DOMAIN queue : queue[i] # Poison /\ queue[i].from = c}
Serving(c) == worker.pc \in {"run", "send"} /\ worker.from = c

(* A request is queued once, or is the one the worker runs, or has been    *)
(* answered, and is in no two of these places; a client that does not wait *)
(* has none.  So no promise is sent to twice, and the worker never runs a  *)
(* request again or sends to a channel nobody reads.                       *)
OneAnswerEach ==
  \A c \in Client :
    IF client[c].pc = "waiting"
    THEN /\ Serving(c) => QueuedFrom(c) = {} /\ client[c].promise = <<>>
         /\ ~Serving(c) /\ client[c].promise = <<>> =>
              \E i \in DOMAIN queue : QueuedFrom(c) = {i} /\ queue[i].request = client[c].request
         /\ client[c].promise # <<>> => QueuedFrom(c) = {}
         /\ Serving(c) /\ worker.pc = "run" => worker.request = client[c].request
    ELSE QueuedFrom(c) = {} /\ ~Serving(c)

(* Once the message None is queued it is the last one and all requests     *)
(* have been answered: schedule's send(..).unwrap() finds the worker alive *)
(* and no thread waits for an answer that drop has cut off.                *)
ShutsDownLast ==
  worker.pc = "stopped" \/ (\E i \in DOMAIN queue : queue[i] = Poison) =>
    /\ owners = {}
    /\ \A i \in DOMAIN queue : queue[i] = Poison /\ i = 1
    /\ \A c \in Client : client[c].pc # "waiting"

(* Every request is answered, whatever other threads request meanwhile.    *)
RequestsAnswered == \A c \in Client : client[c].pc = "waiting" ~> client[c].pc = "idle"

(* README.md: "Dropping the scheduler stops the worker and joins it."      *)
DropReturns == \A c \in Client : client[c].pc = "join" ~> client[c].pc = "joined"

-----------------------------------------------------------------------------
(* For its clients the scheduler is a page store each of their requests    *)
(* takes effect on at once, with the answer they receive: the worker may   *)
(* have run a request whose answer is still on its way.                    *)
Effective(c) ==
  IF Serving(c) /\ worker.pc = "send" THEN {worker.answer}
  ELSE {client[c].promise[i] : i \in DOMAIN client[c].promise}

Calls == INSTANCE CallStore WITH
  calls <- [c \in Client |-> IF client[c].pc = "waiting"
                             THEN [request |-> client[c].request, answers |-> Effective(c)]
                             ELSE Idle]

CallStoreSpec == Calls!Spec
=============================================================================
