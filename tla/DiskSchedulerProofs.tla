------------------------ MODULE DiskSchedulerProofs ------------------------
(***************************************************************************)
(* Proofs about the disk scheduler of DiskScheduler.tla, for any pages,    *)
(* contents and clients: every request has one answer, the shutdown cuts   *)
(* nobody off, and the clients share a page store.                         *)
(***************************************************************************)
EXTENDS DiskSchedulerProps, SequenceTheorems, TLAPS

-----------------------------------------------------------------------------
(* The channel: sending and receiving. *)

LEMMA Sent ==
  ASSUME NEW S, NEW s \in Seq(S), NEW e \in S
  PROVE  /\ Append(s, e) \in Seq(S)
         /\ Len(s) \in Nat
         /\ DOMAIN s = 1 .. Len(s)
         /\ DOMAIN Append(s, e) = 1 .. Len(s) + 1
         /\ \A i \in 1 .. Len(s) : Append(s, e)[i] = s[i] /\ s[i] \in S
         /\ Append(s, e)[Len(s) + 1] = e
BY AppendProperties, LenProperties, ElementOfSeq

LEMMA Received ==
  ASSUME NEW S, NEW s \in Seq(S), s # <<>>
  PROVE  /\ Tail(s) \in Seq(S)
         /\ Len(s) \in Nat /\ Len(s) > 0
         /\ DOMAIN s = 1 .. Len(s)
         /\ DOMAIN Tail(s) = 1 .. Len(s) - 1
         /\ \A i \in 1 .. Len(s) - 1 : Tail(s)[i] = s[i + 1]
         /\ \A i \in 1 .. Len(s) : s[i] \in S
         /\ Head(s) = s[1]
BY EmptySeq, HeadTailProperties, LenProperties, ElementOfSeq

(* A request is not the message None. *)
LEMMA NotPoison ==
  ASSUME NEW m \in Messages
  PROVE  m # Poison <=> m \in [from : Client, request : Request]
<1>1. ASSUME NEW a, NEW b PROVE [from |-> a, request |-> b] # [type |-> "None"]
  <2>1. "from" \in DOMAIN [from |-> a, request |-> b]
    OBVIOUS
  <2>2. "from" \notin DOMAIN [type |-> "None"]
    OBVIOUS
  <2> QED BY <2>1, <2>2
<1> QED BY <1>1 DEF Messages, Poison

-----------------------------------------------------------------------------
(***************************************************************************)
(* The inductive invariant.  Latched is what the latch of the pool gives:  *)
(* only its holder reads and deletes, one request at a time, so that a     *)
(* page that is to be read is still there when the worker comes to it.     *)
(***************************************************************************)
Latched ==
  \A c \in Client : client[c].pc = "waiting" =>
    /\ c \in owners
    /\ client[c].request.type # "write" => c = Pool
    /\ client[c].request.type = "read" => store[client[c].request.page] # Absent

IInv == TypeOK /\ OneAnswerEach /\ Latched /\ ShutsDownLast

LEMMA InitIInv == Init => IInv
<1> SUFFICES ASSUME Init PROVE IInv
  OBVIOUS
<1>1. queue = <<>> /\ DOMAIN queue = {} /\ queue \in Seq(Messages)
  BY EmptySeq DEF Init
<1>2. \A c \in Client : client[c].pc = "idle"
  BY DEF Init, Idle
<1>3. TypeOK
  BY <1>1 DEF Init, TypeOK, Idle
<1>4. OneAnswerEach
  BY <1>1, <1>2 DEF Init, OneAnswerEach, QueuedFrom, Serving
<1>5. Latched /\ ShutsDownLast
  BY <1>1, <1>2 DEF Init, Latched, ShutsDownLast
<1> QED BY <1>3, <1>4, <1>5 DEF IInv

(* What the invariant says of a client that waits, and of one that does    *)
(* not.                                                                    *)
LEMMA NotWaiting ==
  ASSUME IInv, NEW c \in Client, client[c].pc # "waiting"
  PROVE  QueuedFrom(c) = {} /\ ~Serving(c)
BY DEF IInv, OneAnswerEach

LEMMA ServedWaits ==
  ASSUME IInv, worker.pc \in {"run", "send"}
  PROVE  /\ worker.from \in Client
         /\ client[worker.from].pc = "waiting"
         /\ client[worker.from].promise = <<>>
         /\ QueuedFrom(worker.from) = {}
         /\ worker.pc = "run" => worker.request = client[worker.from].request
<1>1. worker.from \in Client
  BY DEF IInv, TypeOK
<1>2. Serving(worker.from)
  BY DEF Serving
<1> QED BY <1>1, <1>2 DEF IInv, OneAnswerEach

-----------------------------------------------------------------------------
(* The clients. *)

LEMMA Schedule ==
  ASSUME IInv, NEW c \in Client, NEW req \in Request, schedule(c, req)
  PROVE  IInv'
<1> DEFINE m == [from |-> c, request |-> req]
           w == [pc |-> "waiting", request |-> req, promise |-> <<>>]
<1>1. /\ c \in owners /\ client[c] = Idle /\ MayRequest(c, req)
      /\ queue' = Append(queue, m)
      /\ client' = [client EXCEPT ![c] = w]
      /\ UNCHANGED <<store, worker, owners>>
  BY DEF schedule
<1>2. client[c].pc # "waiting" /\ QueuedFrom(c) = {} /\ ~Serving(c)
  BY <1>1, NotWaiting DEF Idle
<1>3. /\ queue' \in Seq(Messages) /\ Len(queue) \in Nat
      /\ DOMAIN queue = 1 .. Len(queue) /\ DOMAIN queue' = 1 .. Len(queue) + 1
      /\ \A i \in 1 .. Len(queue) : queue'[i] = queue[i]
      /\ queue'[Len(queue) + 1] = m
  BY <1>1, Sent DEF IInv, TypeOK, Messages
<1>4. /\ client' \in [Client -> [pc : {"idle", "gone", "join", "joined"}]
           \cup [pc : {"waiting"}, request : Request,
                 promise : {<<>>} \cup {<<a>> : a \in Answers}]]
      /\ client'[c] = w
      /\ \A d \in Client \ {c} : client'[d] = client[d]
  BY <1>1 DEF IInv, TypeOK
<1>5. m # Poison
  BY NotPoison DEF Messages
<1>6. QueuedFrom(c)' = {Len(queue) + 1}
  BY <1>2, <1>3, <1>5 DEF QueuedFrom
<1>7. \A d \in Client \ {c} : QueuedFrom(d)' = QueuedFrom(d)
  BY <1>3, <1>5 DEF QueuedFrom
<1>8. \A d \in Client : Serving(d)' = Serving(d)
  BY <1>1 DEF Serving
<1>9. TypeOK'
  BY <1>1, <1>3, <1>4 DEF IInv, TypeOK
<1>10. OneAnswerEach'
  <2> SUFFICES ASSUME NEW d \in Client
               PROVE  (IF client[d].pc = "waiting"
                       THEN /\ Serving(d) => QueuedFrom(d) = {} /\ client[d].promise = <<>>
                            /\ ~Serving(d) /\ client[d].promise = <<>> =>
                                 \E i \in DOMAIN queue :
                                   QueuedFrom(d) = {i} /\ queue[i].request = client[d].request
                            /\ client[d].promise # <<>> => QueuedFrom(d) = {}
                            /\ Serving(d) /\ worker.pc = "run" =>
                                 worker.request = client[d].request
                       ELSE QueuedFrom(d) = {} /\ ~Serving(d))'
    BY DEF OneAnswerEach
  <2>1. CASE d = c
    BY <1>2, <1>3, <1>4, <1>6, <1>8, <2>1
  <2>2. CASE d # c
    <3>1. \A i \in DOMAIN queue : i \in DOMAIN queue' /\ queue'[i] = queue[i]
      BY <1>3
    <3> QED BY <1>1, <1>4, <1>7, <1>8, <2>2, <3>1 DEF IInv, OneAnswerEach
  <2> QED BY <2>1, <2>2
<1>11. Latched'
  BY <1>1, <1>4 DEF IInv, Latched, MayRequest
<1>12. ShutsDownLast'
  <2>1. worker.pc # "stopped" /\ \A i \in DOMAIN queue : queue[i] # Poison
    BY <1>1 DEF IInv, ShutsDownLast
  <2>2. \A i \in DOMAIN queue' : queue'[i] # Poison
    BY <1>3, <1>5, <2>1
  <2> QED BY <1>1, <2>1, <2>2 DEF ShutsDownLast
<1> QED BY <1>9, <1>10, <1>11, <1>12 DEF IInv

(* A client moves from one pc to another and nothing else changes, but     *)
(* that it may let go of its Arc.                                          *)
LEMMA ReplyReceived ==
  ASSUME IInv, NEW c \in Client, recv_reply(c) \/ join(c)
  PROVE  IInv'
<1>1. /\ UNCHANGED <<store, queue, worker, owners>>
      /\ client' = [client EXCEPT ![c] = Idle] \/ client' = [client EXCEPT ![c] = [pc |-> "joined"]]
      /\ client[c].pc = "waiting" => client[c].promise # <<>>
  BY DEF recv_reply, join
<1>2. /\ client' \in [Client -> [pc : {"idle", "gone", "join", "joined"}]
           \cup [pc : {"waiting"}, request : Request,
                 promise : {<<>>} \cup {<<a>> : a \in Answers}]]
      /\ client'[c].pc # "waiting"
      /\ \A d \in Client \ {c} : client'[d] = client[d]
  BY <1>1 DEF IInv, TypeOK, Idle
<1>3. QueuedFrom(c) = {} /\ ~Serving(c)
  BY <1>1 DEF IInv, OneAnswerEach
<1>4. \A d \in Client : QueuedFrom(d)' = QueuedFrom(d) /\ Serving(d)' = Serving(d)
  BY <1>1 DEF QueuedFrom, Serving
<1>5. TypeOK'
  BY <1>1, <1>2 DEF IInv, TypeOK
<1>6. OneAnswerEach'
  BY <1>1, <1>2, <1>3, <1>4 DEF IInv, OneAnswerEach
<1>7. Latched' /\ ShutsDownLast'
  BY <1>1, <1>2 DEF IInv, Latched, ShutsDownLast
<1> QED BY <1>5, <1>6, <1>7 DEF IInv

(* The last one to drop its Arc finds the channel empty: nobody waits.     *)
LEMMA NobodyQueued ==
  ASSUME IInv, NEW c \in Client, owners = {c}, client[c] = Idle
  PROVE  /\ queue = <<>> /\ worker.pc # "stopped"
         /\ \A d \in Client : client[d].pc # "waiting"
<1>1. \A d \in Client : client[d].pc # "waiting"
  BY DEF IInv, Latched, Idle
<1>2. worker.pc # "stopped" /\ \A i \in DOMAIN queue : queue[i] # Poison
  BY DEF IInv, ShutsDownLast
<1>3. ASSUME NEW i \in DOMAIN queue PROVE FALSE
  <2>1. queue[i] \in Messages /\ queue[i] # Poison
    BY <1>2, ElementOfSeq, LenProperties DEF IInv, TypeOK
  <2>2. queue[i].from \in Client
    BY <2>1, NotPoison
  <2>3. i \in QueuedFrom(queue[i].from)
    BY <2>1 DEF QueuedFrom
  <2> QED BY <1>1, <2>2, <2>3, NotWaiting
<1>4. queue = <<>>
  <2>1. queue \in Seq(Messages) /\ Len(queue) \in Nat /\ DOMAIN queue = 1 .. Len(queue)
    BY LenProperties DEF IInv, TypeOK
  <2>2. Len(queue) > 0 => 1 \in DOMAIN queue
    BY <2>1
  <2>3. Len(queue) = 0
    BY <1>3, <2>1, <2>2
  <2> QED BY <2>1, <2>3, EmptySeq
<1> QED BY <1>1, <1>2, <1>4

LEMMA ArcDropped ==
  ASSUME IInv, NEW c \in Client, drop(c)
  PROVE  IInv'
<1>1. /\ c \in owners /\ client[c] = Idle
      /\ owners' = owners \ {c} /\ queue' = Farewell(c)
      /\ client' = [client EXCEPT ![c] = [pc |-> IF owners = {c} THEN "join" ELSE "gone"]]
      /\ UNCHANGED <<store, worker>>
  BY DEF drop
<1>2. /\ client' \in [Client -> [pc : {"idle", "gone", "join", "joined"}]
           \cup [pc : {"waiting"}, request : Request,
                 promise : {<<>>} \cup {<<a>> : a \in Answers}]]
      /\ client'[c].pc # "waiting"
      /\ \A d \in Client \ {c} : client'[d] = client[d]
  BY <1>1 DEF IInv, TypeOK
<1>3. client[c].pc # "waiting" /\ QueuedFrom(c) = {} /\ ~Serving(c)
  BY <1>1, NotWaiting DEF Idle
<1>4. Latched'
  BY <1>1, <1>2 DEF IInv, Latched
<1>5. \A d \in Client : Serving(d)' = Serving(d)
  BY <1>1 DEF Serving
<1>6. CASE owners # {c}
  <2>1. queue' = queue /\ \A d \in Client : QueuedFrom(d)' = QueuedFrom(d)
    BY <1>1, <1>6 DEF Farewell, QueuedFrom
  <2>2. TypeOK'
    BY <1>1, <1>2, <2>1 DEF IInv, TypeOK
  <2>3. OneAnswerEach'
    BY <1>1, <1>2, <1>3, <1>5, <2>1 DEF IInv, OneAnswerEach
  <2>4. ShutsDownLast'
    BY <1>1, <1>2, <2>1 DEF IInv, ShutsDownLast
  <2> QED BY <1>4, <2>2, <2>3, <2>4 DEF IInv
<1>7. CASE owners = {c}
  <2>1. queue = <<>> /\ \A d \in Client : client[d].pc # "waiting"
    BY <1>1, <1>7, NobodyQueued
  <2>2. queue' = Append(queue, Poison)
    BY <1>1, <1>7 DEF Farewell
  <2>3. queue' \in Seq(Messages) /\ DOMAIN queue' = {1} /\ queue'[1] = Poison
    BY <2>1, <2>2, EmptySeq, Sent DEF Messages
  <2>4. \A d \in Client : QueuedFrom(d)' = {} /\ client'[d].pc # "waiting"
    BY <1>2, <2>1, <2>3 DEF QueuedFrom
  <2>5. \A d \in Client : ~Serving(d)
    BY <2>1, NotWaiting
  <2>6. TypeOK'
    BY <1>1, <1>2, <2>3 DEF IInv, TypeOK
  <2>7. OneAnswerEach'
    BY <1>5, <2>4, <2>5 DEF OneAnswerEach
  <2>8. ShutsDownLast'
    BY <1>1, <1>7, <2>3, <2>4 DEF ShutsDownLast
  <2> QED BY <1>4, <2>6, <2>7, <2>8 DEF IInv
<1> QED BY <1>6, <1>7

-----------------------------------------------------------------------------
(* The worker. *)

LEMMA Receive ==
  ASSUME IInv, recv
  PROVE  IInv'
<1> DEFINE m == queue[1]
<1>1. /\ worker.pc = "recv" /\ queue # <<>>
      /\ queue' = Tail(queue)
      /\ worker' = IF Head(queue) = Poison THEN [pc |-> "stopped"]
                   ELSE [pc |-> "run", from |-> Head(queue).from,
                         request |-> Head(queue).request]
      /\ UNCHANGED <<store, client, owners>>
  BY DEF recv
<1>2. /\ queue' \in Seq(Messages) /\ Len(queue) \in Nat /\ Len(queue) > 0
      /\ DOMAIN queue = 1 .. Len(queue) /\ DOMAIN queue' = 1 .. Len(queue) - 1
      /\ \A i \in 1 .. Len(queue) - 1 : queue'[i] = queue[i + 1]
      /\ \A i \in 1 .. Len(queue) : queue[i] \in Messages
      /\ Head(queue) = m
  BY <1>1, Received DEF IInv, TypeOK
<1>3. 1 \in DOMAIN queue /\ m \in Messages
  BY <1>2
<1>4. \A c \in Client : ~Serving(c)
  BY <1>1 DEF Serving
<1>5. ASSUME NEW c \in Client, NEW i \in QueuedFrom(c)'
      PROVE  i + 1 \in QueuedFrom(c) /\ i # 0
  BY <1>2, <1>5 DEF QueuedFrom
<1>6. ASSUME NEW c \in Client, NEW j \in QueuedFrom(c), j # 1
      PROVE  j - 1 \in QueuedFrom(c)' /\ queue'[j - 1] = queue[j]
  <2>1. j \in 1 .. Len(queue) /\ j - 1 \in 1 .. Len(queue) - 1
    BY <1>2, <1>6 DEF QueuedFrom
  <2>2. queue'[j - 1] = queue[j]
    BY <1>2, <2>1
  <2> QED BY <1>2, <2>1, <2>2 DEF QueuedFrom
<1>7. Latched'
  BY <1>1 DEF IInv, Latched
<1>8. CASE m = Poison
  <2>1. /\ owners = {} /\ \A c \in Client : client[c].pc # "waiting"
        /\ \A i \in DOMAIN queue : queue[i] = Poison /\ i = 1
    BY <1>3, <1>8 DEF IInv, ShutsDownLast
  <2>2. worker' = [pc |-> "stopped"]
    BY <1>1, <1>2, <1>8
  <2>3. \A c \in Client : QueuedFrom(c)' = {} /\ ~Serving(c)'
    <3>1. \A c \in Client : QueuedFrom(c) = {}
      BY <2>1, NotWaiting
    <3> QED BY <1>5, <2>2, <3>1 DEF Serving
  <2>4. TypeOK'
    BY <1>1, <1>2, <2>2 DEF IInv, TypeOK
  <2>5. OneAnswerEach'
    BY <1>1, <2>1, <2>3 DEF OneAnswerEach
  <2>6. DOMAIN queue' = {}
    <3>1. \A i \in 1 .. Len(queue) : i = 1
      BY <1>2, <2>1
    <3>2. Len(queue) = 1
      BY <1>2, <3>1
    <3> QED BY <1>2, <3>2
  <2>7. ShutsDownLast'
    BY <1>1, <2>1, <2>6 DEF ShutsDownLast
  <2> QED BY <1>7, <2>4, <2>5, <2>7 DEF IInv
<1>9. CASE m # Poison
  <2>0. m \in [from : Client, request : Request]
    BY <1>3, <1>9, NotPoison
  <2> PICK d \in Client : d = m.from
    BY <2>0
  <2>1. 1 \in QueuedFrom(d)
    BY <1>3, <1>9 DEF QueuedFrom
  <2>2. worker' = [pc |-> "run", from |-> d, request |-> m.request]
    BY <1>1, <1>2, <1>9
  <2>3. /\ client[d].pc = "waiting" /\ client[d].promise = <<>>
        /\ QueuedFrom(d) = {1} /\ m.request = client[d].request
    <3>1. client[d].pc = "waiting"
      BY <2>1, NotWaiting
    <3>2. client[d].promise = <<>>
      BY <2>1, <3>1 DEF IInv, OneAnswerEach
    <3>3. \E i \in DOMAIN queue :
            QueuedFrom(d) = {i} /\ queue[i].request = client[d].request
      BY <1>4, <2>1, <3>1, <3>2 DEF IInv, OneAnswerEach
    <3> QED BY <2>1, <3>1, <3>2, <3>3
  <2>4. QueuedFrom(d)' = {}
    <3>1. \A i \in QueuedFrom(d)' : i + 1 = 1 /\ i # 0 /\ i \in Nat
      BY <1>2, <1>5, <2>3 DEF QueuedFrom
    <3> QED BY <3>1
  <2>5. \A c \in Client : Serving(c)' <=> c = d
    BY <2>2 DEF Serving
  <2>6. TypeOK'
    BY <1>1, <1>2, <2>0, <2>2 DEF IInv, TypeOK
  <2>7. ASSUME NEW c \in Client, c # d, QueuedFrom(c) = {}
        PROVE  QueuedFrom(c)' = {}
    BY <1>5, <2>7
  <2>8. ASSUME NEW c \in Client, c # d, client[c].pc = "waiting", client[c].promise = <<>>
        PROVE  \E i \in DOMAIN queue' :
                 QueuedFrom(c)' = {i} /\ queue'[i].request = client[c].request
    <3>1. PICK j \in DOMAIN queue :
            QueuedFrom(c) = {j} /\ queue[j].request = client[c].request
      BY <1>4, <2>8 DEF IInv, OneAnswerEach
    <3>2. queue[j].from = c /\ j # 1
      BY <2>8, <3>1 DEF QueuedFrom
    <3>3. j - 1 \in QueuedFrom(c)' /\ queue'[j - 1] = queue[j]
      BY <1>6, <3>1, <3>2
    <3>4. \A i \in QueuedFrom(c)' : i = j - 1
      <4>1. \A i \in QueuedFrom(c)' : i \in Nat /\ i + 1 = j
        BY <1>2, <1>5, <3>1 DEF QueuedFrom
      <4> QED BY <4>1
    <3>5. QueuedFrom(c)' = {j - 1} /\ j - 1 \in DOMAIN queue'
      BY <3>3, <3>4 DEF QueuedFrom
    <3> QED BY <3>1, <3>3, <3>5
  <2>9. OneAnswerEach'
    <3> SUFFICES ASSUME NEW c \in Client
                 PROVE  (IF client[c].pc = "waiting"
                         THEN /\ Serving(c) => QueuedFrom(c) = {} /\ client[c].promise = <<>>
                              /\ ~Serving(c) /\ client[c].promise = <<>> =>
                                   \E i \in DOMAIN queue :
                                     QueuedFrom(c) = {i} /\ queue[i].request = client[c].request
                              /\ client[c].promise # <<>> => QueuedFrom(c) = {}
                              /\ Serving(c) /\ worker.pc = "run" =>
                                   worker.request = client[c].request
                         ELSE QueuedFrom(c) = {} /\ ~Serving(c))'
      BY DEF OneAnswerEach
    <3>1. CASE c = d
      BY <1>1, <2>2, <2>3, <2>4, <2>5, <3>1
    <3>2. CASE c # d /\ client[c].pc = "waiting"
      BY <1>1, <2>5, <2>7, <2>8, <3>2 DEF IInv, OneAnswerEach
    <3>3. CASE c # d /\ client[c].pc # "waiting"
      BY <1>1, <2>5, <2>7, <3>3, NotWaiting
    <3> QED BY <3>1, <3>2, <3>3
  <2>10. ShutsDownLast'
    <3>1. worker.pc # "stopped" /\ \A i \in DOMAIN queue : queue[i] # Poison
      BY <1>1, <2>1, <2>3 DEF IInv, ShutsDownLast
    <3>2. \A i \in DOMAIN queue' : queue'[i] # Poison
      <4>1. \A i \in DOMAIN queue' : i + 1 \in DOMAIN queue /\ queue'[i] = queue[i + 1]
        BY <1>2
      <4> QED BY <3>1, <4>1
    <3> QED BY <2>2, <3>2 DEF ShutsDownLast
  <2> QED BY <1>7, <2>6, <2>9, <2>10 DEF IInv
<1> QED BY <1>8, <1>9

(* The call of the disk manager: the request's client waits on, and a page *)
(* of a read that is pending is not deleted, as its client would have had  *)
(* to ask for that.                                                        *)
LEMMA Run ==
  ASSUME IInv, run_read \/ run_write \/ run_delete
  PROVE  IInv'
<1> DEFINE c == worker.from
           req == worker.request
<1>1. /\ worker.pc = "run" /\ UNCHANGED <<queue, client, owners>>
      /\ \E a : worker' = [pc |-> "send", from |-> c, answer |-> a]
  BY DEF run_read, run_write, run_delete, Answered
<1>2. /\ c \in Client /\ client[c].pc = "waiting" /\ client[c].promise = <<>>
      /\ QueuedFrom(c) = {} /\ req = client[c].request
  BY <1>1, ServedWaits
<1>3. req \in Request
  BY <1>1 DEF IInv, TypeOK
<1>4. /\ store' \in [PageId -> Data \cup {Absent}]
      /\ \A p \in PageId : store[p] # Absent /\ store'[p] = Absent =>
           req.type = "delete" /\ p = req.page
      /\ \E a \in Answers : worker' = [pc |-> "send", from |-> c, answer |-> a]
  <2>1. CASE run_read
    <3>1. store' = store /\ req.type = "read"
      BY <2>1 DEF run_read
    <3>2. req.page \in PageId /\ store[req.page] # Absent
      BY <1>2, <1>3, <3>1 DEF Request, IInv, Latched
    <3>3. store[req.page] \in Data
      BY <3>2 DEF IInv, TypeOK
    <3> QED BY <2>1, <3>1, <3>3 DEF run_read, Answered, ReadAnswer, Answers, IInv, TypeOK
  <2>2. CASE run_write
    <3>1. req.page \in PageId /\ req.data \in Data
      BY <1>3, SchedulerAssumption DEF Request
    <3>2. \E d \in Data : store' = [store EXCEPT ![req.page] = d]
      BY <2>2, <3>1 DEF run_write
    <3>3. \E a \in Answers : worker' = [pc |-> "send", from |-> c, answer |-> a]
      BY <2>2, <3>1 DEF run_write, Answered, Answers
    <3> QED BY <3>1, <3>2, <3>3, SchedulerAssumption DEF IInv, TypeOK
  <2>3. CASE run_delete
    <3>1. req.page \in PageId /\ req.data \in Data /\ req.type = "delete"
      BY <1>3, <2>3, SchedulerAssumption DEF Request, run_delete
    <3> QED BY <2>3, <3>1 DEF run_delete, Answered, Answers, IInv, TypeOK
  <2> QED BY <2>1, <2>2, <2>3
<1>5. \A d \in Client : QueuedFrom(d)' = QueuedFrom(d) /\ Serving(d)' = Serving(d)
  BY <1>1 DEF QueuedFrom, Serving
<1>6. TypeOK'
  BY <1>1, <1>2, <1>4 DEF IInv, TypeOK
<1>7. OneAnswerEach'
  <2>1. worker'.pc # "run"
    BY <1>1
  <2> QED BY <1>1, <1>5, <2>1 DEF IInv, OneAnswerEach
<1>8. Latched'
  <2> SUFFICES ASSUME NEW d \in Client, client[d].pc = "waiting",
                      client[d].request.type = "read"
               PROVE  store'[client[d].request.page] # Absent
    BY <1>1 DEF IInv, Latched
  <2>1. store[client[d].request.page] # Absent /\ d = Pool
    BY DEF IInv, Latched
  <2>2. req.type = "delete" => c = Pool
    BY <1>2 DEF IInv, Latched
  <2>3. req.type # "delete"
    BY <1>2, <2>1, <2>2
  <2>4. client[d].request.page \in PageId
    BY DEF IInv, TypeOK, Request
  <2> QED BY <1>4, <2>1, <2>3, <2>4
<1>9. ShutsDownLast'
  BY <1>1 DEF IInv, ShutsDownLast
<1> QED BY <1>6, <1>7, <1>8, <1>9 DEF IInv

LEMMA Send ==
  ASSUME IInv, send
  PROVE  IInv'
<1> DEFINE c == worker.from
<1>1. /\ worker.pc = "send" /\ worker' = [pc |-> "recv"]
      /\ client' = [client EXCEPT ![c].promise = <<worker.answer>>]
      /\ UNCHANGED <<store, queue, owners>>
  BY DEF send
<1>2. /\ c \in Client /\ client[c].pc = "waiting" /\ client[c].promise = <<>>
      /\ QueuedFrom(c) = {}
  BY <1>1, ServedWaits
<1>3. worker.answer \in Answers
  BY <1>1 DEF IInv, TypeOK
<1>4. client[c] \in [pc : {"waiting"}, request : Request,
                     promise : {<<>>} \cup {<<a>> : a \in Answers}]
  BY <1>2 DEF IInv, TypeOK
<1>5. /\ client'[c] = [pc |-> "waiting", request |-> client[c].request,
                       promise |-> <<worker.answer>>]
      /\ \A d \in Client \ {c} : client'[d] = client[d]
  BY <1>1, <1>2, <1>4 DEF IInv, TypeOK
<1>6. client' \in [Client -> [pc : {"idle", "gone", "join", "joined"}]
           \cup [pc : {"waiting"}, request : Request,
                 promise : {<<>>} \cup {<<a>> : a \in Answers}]]
  <2>1. client'[c] \in [pc : {"waiting"}, request : Request,
                        promise : {<<>>} \cup {<<a>> : a \in Answers}]
    BY <1>3, <1>4, <1>5
  <2> QED BY <1>1, <1>5, <2>1 DEF IInv, TypeOK
<1>7. \A d \in Client : QueuedFrom(d)' = QueuedFrom(d) /\ ~Serving(d)'
  BY <1>1 DEF QueuedFrom, Serving
<1>8. \A d \in Client \ {c} : ~Serving(d)
  BY <1>1 DEF Serving
<1>9. <<worker.answer>> # <<>>
  OBVIOUS
<1>10. TypeOK'
  BY <1>1, <1>6 DEF IInv, TypeOK
<1>11. OneAnswerEach'
  BY <1>1, <1>2, <1>5, <1>7, <1>8, <1>9 DEF IInv, OneAnswerEach
<1>12. Latched' /\ ShutsDownLast'
  BY <1>1, <1>2, <1>5 DEF IInv, Latched, ShutsDownLast
<1> QED BY <1>10, <1>11, <1>12 DEF IInv

-----------------------------------------------------------------------------
LEMMA NextPreservesIInv ==
  ASSUME IInv, [Next]_vars
  PROVE  IInv'
<1>1. CASE Worker
  BY <1>1, Receive, Run, Send DEF Worker
<1>2. CASE Clients
  BY <1>2, Schedule, ReplyReceived, ArcDropped DEF Clients
<1>3. CASE UNCHANGED vars
  BY <1>3 DEF vars, IInv, TypeOK, OneAnswerEach, Latched, ShutsDownLast, QueuedFrom, Serving
<1> QED BY <1>1, <1>2, <1>3 DEF Next

LEMMA IInvHolds == Spec => []IInv
  BY InitIInv, NextPreservesIInv, PTL DEF Spec

(* The worker of disk_scheduler.rs is at one of its steps with a request or *)
(* an answer of the right kind, and a promise has been sent one answer at   *)
(* most, whichever threads schedule requests and drop their handles.        *)
THEOREM TypeCorrect == Spec => []TypeOK
<1>1. IInv => TypeOK
  BY DEF IInv
<1> QED BY IInvHolds, <1>1, PTL

(* Every request of disk_scheduler.rs is queued once, runs once and has    *)
(* one answer on its own channel.                                          *)
THEOREM RequestsHaveOneAnswer == Spec => []OneAnswerEach
<1>1. IInv => OneAnswerEach
  BY DEF IInv
<1> QED BY IInvHolds, <1>1, PTL

(* The message None that drop of disk_scheduler.rs sends finds the channel *)
(* empty and nobody waiting.                                               *)
THEOREM ShutdownCutsNobodyOff == Spec => []ShutsDownLast
<1>1. IInv => ShutsDownLast
  BY DEF IInv
<1> QED BY IInvHolds, <1>1, PTL

-----------------------------------------------------------------------------
(* The refinement: a call takes effect when the worker runs its request.   *)

CallOf(c) ==
  IF client[c].pc = "waiting"
  THEN [request |-> client[c].request, answers |-> Effective(c)]
  ELSE Idle
CallView == [c \in Client |-> CallOf(c)]

(* A client that waits and is not served has no answer but its promise. *)
LEMMA EffectiveIs ==
  ASSUME IInv, NEW c \in Client, client[c].pc = "waiting"
  PROVE  /\ client[c].promise = <<>> /\ ~(Serving(c) /\ worker.pc = "send") => Effective(c) = {}
         /\ Serving(c) /\ worker.pc = "send" => Effective(c) = {worker.answer}
         /\ \A a : client[c].promise = <<a>> => Effective(c) = {a}
<1>1. DOMAIN <<>> = {} /\ \A a : DOMAIN <<a>> = {1} /\ <<a>>[1] = a /\ <<a>> # <<>>
  OBVIOUS
<1>2. client[c].promise # <<>> => ~Serving(c)
  BY DEF IInv, OneAnswerEach
<1> QED BY <1>1, <1>2 DEF Effective

LEMMA ScheduleImplementsCall ==
  ASSUME IInv, NEW c \in Client, NEW req \in Request, schedule(c, req)
  PROVE  Calls!Call(c, req)
<1>1. /\ client[c] = Idle /\ store' = store /\ worker' = worker
      /\ client' = [client EXCEPT ![c] =
           [pc |-> "waiting", request |-> req, promise |-> <<>>]]
  BY DEF schedule
<1>2. client[c].pc # "waiting" /\ ~Serving(c)
  BY <1>1, NotWaiting DEF Idle
<1>3. /\ client'[c] = [pc |-> "waiting", request |-> req, promise |-> <<>>]
      /\ \A d \in Client \ {c} : client'[d] = client[d]
  BY <1>1 DEF IInv, TypeOK
<1>4. Effective(c)' = {}
  BY <1>1, <1>2, <1>3 DEF Effective, Serving
<1>5. \A d \in Client \ {c} : CallOf(d)' = CallOf(d)
  BY <1>1, <1>3 DEF CallOf, Effective, Serving
<1>6. CallOf(c) = Idle /\ CallOf(c)' = [request |-> req, answers |-> {}]
  BY <1>2, <1>3, <1>4 DEF CallOf
<1>7. CallView[c] = Idle /\ CallView' = [CallView EXCEPT ![c] = [request |-> req, answers |-> {}]]
  BY <1>5, <1>6 DEF CallView
<1> QED BY <1>1, <1>7 DEF Calls!Call, CallView, CallOf

LEMMA ReplyImplementsReturn ==
  ASSUME IInv, NEW c \in Client, recv_reply(c)
  PROVE  Calls!Return(c)
<1>1. /\ client[c].pc = "waiting" /\ client[c].promise # <<>>
      /\ store' = store /\ worker' = worker
      /\ client' = [client EXCEPT ![c] = Idle]
  BY DEF recv_reply
<1>2. /\ client'[c] = Idle
      /\ \A d \in Client \ {c} : client'[d] = client[d]
  BY <1>1 DEF IInv, TypeOK
<1>3. PICK a \in Answers : client[c].promise = <<a>>
  BY <1>1 DEF IInv, TypeOK
<1>4. Effective(c) = {a}
  BY <1>1, <1>3, EffectiveIs
<1>5. CallOf(c) = [request |-> client[c].request, answers |-> {a}] /\ CallOf(c)' = Idle
  BY <1>1, <1>2, <1>4 DEF CallOf, Idle
<1>6. \A d \in Client \ {c} : CallOf(d)' = CallOf(d)
  BY <1>1, <1>2 DEF CallOf, Effective, Serving
<1>7. CallOf(c) # Idle /\ CallOf(c).answers # {}
  <2>1. "pc" \in DOMAIN Idle /\ "pc" \notin DOMAIN CallOf(c)
    BY <1>5 DEF Idle
  <2> QED BY <1>5, <2>1
<1>8. /\ CallView[c] # Idle /\ CallView[c].answers # {}
      /\ CallView' = [CallView EXCEPT ![c] = Idle]
  <2>1. CallView[c] = CallOf(c) /\ CallView' = [d \in Client |-> CallOf(d)']
    BY DEF CallView
  <2>2. [CallView EXCEPT ![c] = Idle] = [d \in Client |-> IF d = c THEN Idle ELSE CallOf(d)]
    BY DEF CallView
  <2> QED BY <1>5, <1>6, <1>7, <2>1, <2>2
<1> QED BY <1>1, <1>8 DEF Calls!Return, CallView, CallOf

(* When the worker runs a request, its client's call gets its answer. *)
LEMMA RunAnswers ==
  ASSUME IInv, worker.pc = "run", UNCHANGED client,
         NEW c \in Client, c = worker.from,
         NEW a, worker' = [pc |-> "send", from |-> c, answer |-> a]
  PROVE  /\ CallView[c] # Idle
         /\ CallView[c].answers = {} /\ CallView[c].request = worker.request
         /\ CallView' = [CallView EXCEPT ![c].answers = {a}]
<1>1. /\ client[c].pc = "waiting" /\ client[c].promise = <<>>
      /\ worker.request = client[c].request
  BY ServedWaits
<1>2. Effective(c) = {}
  BY <1>1, EffectiveIs
<1>3. Effective(c)' = {a}
  BY DEF Effective, Serving
<1>4. CallOf(c) = [request |-> client[c].request, answers |-> {}]
  BY <1>1, <1>2 DEF CallOf
<1>5. CallOf(c)' = [request |-> client[c].request, answers |-> {a}]
  BY <1>1, <1>3 DEF CallOf
<1>6. \A d \in Client \ {c} : CallOf(d)' = CallOf(d)
  BY DEF CallOf, Effective, Serving
<1>7. CallOf(c) # Idle
  <2>1. "pc" \in DOMAIN Idle /\ "pc" \notin DOMAIN CallOf(c)
    BY <1>4 DEF Idle
  <2> QED BY <2>1
<1>8. /\ CallView[c] = CallOf(c)
      /\ CallView' = [d \in Client |-> CallOf(d)']
  BY DEF CallView
<1>9. CallView' = [CallView EXCEPT ![c].answers = {a}]
  <2>1. [CallView EXCEPT ![c].answers = {a}] =
          [d \in Client |-> IF d = c THEN [request |-> client[c].request, answers |-> {a}]
                            ELSE CallOf(d)]
    BY <1>4 DEF CallView
  <2> QED BY <1>5, <1>6, <1>8, <2>1
<1>10. CallView[c] # Idle
  BY <1>7, <1>8
<1>11. CallView[c].answers = {} /\ CallView[c].request = worker.request
  BY <1>1, <1>4, <1>8
<1> QED BY <1>9, <1>10, <1>11

(* The effects of a call on the store, in terms of its request. *)
LEMMA EffectOfCall ==
  ASSUME NEW c \in Client, NEW r,
         CallView[c] # Idle, CallView[c].answers = {}, CallView[c].request = r,
         NEW a, CallView' = [CallView EXCEPT ![c].answers = {a}],
         \/ r.type = "read" /\ a \in {store[r.page], "None"} /\ store' = store
         \/ r.type = "write" /\ a = r.data /\ store' = [store EXCEPT ![r.page] = r.data]
         \/ /\ r.type = "write" /\ a = "None"
            /\ \E d \in Data : store' = [store EXCEPT ![r.page] = d]
         \/ r.type = "delete" /\ a = r.data /\ store' = [store EXCEPT ![r.page] = Absent]
  PROVE  Calls!Effect(c)
<1> DEFINE view == CallView
           answered(x) == view' = [view EXCEPT ![c].answers = {x}]
<1>1. /\ view[c] # Idle /\ view[c].answers = {}
      /\ LET req == view[c].request
         IN  \/ /\ req.type = "read"
                /\ answered(store[req.page]) \/ answered("None")
                /\ UNCHANGED store
             \/ /\ req.type = "write"
                /\ \/ /\ store' = [store EXCEPT ![req.page] = req.data]
                      /\ answered(req.data)
                   \/ \E d \in Data :
                        /\ store' = [store EXCEPT ![req.page] = d]
                        /\ answered("None")
             \/ /\ req.type = "delete"
                /\ store' = [store EXCEPT ![req.page] = Absent]
                /\ answered(req.data)
  <2>1. /\ view[c] # Idle /\ view[c].answers = {} /\ view[c].request = r
        /\ view' = [view EXCEPT ![c].answers = {a}]
    OBVIOUS
  <2> HIDE DEF view
  <2> QED BY <2>1
<1> QED BY <1>1, Zenon DEF Calls!Effect, Calls!Answer, CallView, CallOf

LEMMA RunImplementsEffect ==
  ASSUME IInv, run_read \/ run_write \/ run_delete
  PROVE  \E c \in Client : Calls!Effect(c)
<1> PICK c \in Client : c = worker.from
  BY DEF IInv, TypeOK, run_read, run_write, run_delete
<1> PICK r : r = worker.request
  OBVIOUS
<1>1. worker.pc = "run" /\ UNCHANGED client
  BY DEF run_read, run_write, run_delete
<1>2. ASSUME NEW a, Answered(a)
      PROVE  /\ CallView[c] # Idle
             /\ CallView[c].answers = {} /\ CallView[c].request = r
             /\ CallView' = [CallView EXCEPT ![c].answers = {a}]
  <2>1. worker' = [pc |-> "send", from |-> c, answer |-> a]
    BY <1>2 DEF Answered
  <2> QED BY <1>1, <2>1, RunAnswers
<1>3. PICK a :
        /\ Answered(a)
        /\ \/ r.type = "read" /\ a \in {store[r.page], "None"} /\ store' = store
           \/ r.type = "write" /\ a = r.data /\ store' = [store EXCEPT ![r.page] = r.data]
           \/ /\ r.type = "write" /\ a = "None"
              /\ \E d \in Data : store' = [store EXCEPT ![r.page] = d]
           \/ r.type = "delete" /\ a = r.data /\ store' = [store EXCEPT ![r.page] = Absent]
  BY DEF run_read, run_write, run_delete, ReadAnswer
<1>4. /\ CallView[c] # Idle
      /\ CallView[c].answers = {} /\ CallView[c].request = r
      /\ CallView' = [CallView EXCEPT ![c].answers = {a}]
  BY <1>2, <1>3
<1>5. Calls!Effect(c)
  BY <1>3, <1>4, EffectOfCall
<1> QED BY <1>5

(* The messages themselves, and the shutdown, are no steps of the store.   *)
LEMMA MessagesStutter ==
  ASSUME IInv, recv \/ send \/ (\E c \in Client : drop(c) \/ join(c)) \/ UNCHANGED vars
  PROVE  store' = store /\ CallView' = CallView
<1>1. CASE recv
  <2>1. worker.pc = "recv" /\ worker'.pc # "send" /\ UNCHANGED <<store, client>>
    BY <1>1 DEF recv
  <2> QED BY <2>1 DEF CallView, CallOf, Effective, Serving
<1>2. CASE send
  <2> PICK c \in Client : c = worker.from
    BY <1>2 DEF send, IInv, TypeOK
  <2>1. /\ worker.pc = "send" /\ worker'.pc = "recv" /\ store' = store
        /\ client' = [client EXCEPT ![c].promise = <<worker.answer>>]
        /\ client[c].pc = "waiting"
    BY <1>2, ServedWaits DEF send
  <2>2. /\ client'[c].pc = "waiting" /\ client'[c].request = client[c].request
        /\ client'[c].promise = <<worker.answer>>
        /\ \A d \in Client \ {c} : client'[d] = client[d]
    <3>1. client[c] \in [pc : {"waiting"}, request : Request,
                         promise : {<<>>} \cup {<<a>> : a \in Answers}]
      BY <2>1 DEF IInv, TypeOK
    <3> QED BY <2>1, <3>1 DEF IInv, TypeOK
  <2>3. Effective(c) = {worker.answer}
    BY <2>1 DEF Effective, Serving
  <2>4. Effective(c)' = {worker.answer}
    <3>1. DOMAIN <<worker.answer>> = {1} /\ <<worker.answer>>[1] = worker.answer
      OBVIOUS
    <3> QED BY <2>1, <2>2, <3>1 DEF Effective, Serving
  <2>5. CallOf(c)' = CallOf(c)
    BY <2>1, <2>2, <2>3, <2>4 DEF CallOf
  <2>6. \A d \in Client \ {c} : CallOf(d)' = CallOf(d)
    BY <2>1, <2>2 DEF CallOf, Effective, Serving
  <2> QED BY <2>1, <2>5, <2>6 DEF CallView
<1>3. ASSUME NEW c \in Client, drop(c) \/ join(c) PROVE store' = store /\ CallView' = CallView
  <2>1. /\ store' = store /\ worker' = worker /\ client[c].pc # "waiting"
        /\ client'[c].pc # "waiting"
        /\ \A d \in Client \ {c} : client'[d] = client[d]
    BY <1>3 DEF drop, join, Idle, IInv, TypeOK
  <2>2. \A d \in Client : CallOf(d)' = CallOf(d)
    BY <2>1 DEF CallOf, Effective, Serving
  <2> QED BY <2>1, <2>2 DEF CallView
<1>4. CASE UNCHANGED vars
  BY <1>4 DEF vars, CallView, CallOf, Effective, Serving
<1> QED BY <1>1, <1>2, <1>3, <1>4

(* To the threads that share it, disk_scheduler.rs is a page store: each   *)
(* call takes effect once, between its request and its answer.             *)
THEOREM ImplementsCallStore == Spec => CallStoreSpec
<1>1. Init => Calls!Init
  <2> SUFFICES ASSUME Init PROVE Calls!Init
    OBVIOUS
  <2>1. \A c \in Client : client[c].pc # "waiting"
    BY DEF Init, Idle
  <2> QED BY <2>1 DEF Init, Calls!Init
<1>2. IInv /\ [Next]_vars => [Calls!Next]_(Calls!vars)
  <2> SUFFICES ASSUME IInv, [Next]_vars PROVE [Calls!Next]_(Calls!vars)
    OBVIOUS
  <2>1. ASSUME NEW c \in Client, NEW req \in Request, schedule(c, req) PROVE Calls!Next
    BY <2>1, ScheduleImplementsCall DEF Calls!Next
  <2>2. ASSUME NEW c \in Client, recv_reply(c) PROVE Calls!Next
    BY <2>2, ReplyImplementsReturn DEF Calls!Next
  <2>3. CASE run_read \/ run_write \/ run_delete
    BY <2>3, RunImplementsEffect DEF Calls!Next
  <2>4. CASE recv \/ send \/ (\E c \in Client : drop(c) \/ join(c)) \/ UNCHANGED vars
    BY <2>4, MessagesStutter DEF Calls!vars, CallView, CallOf
  <2> QED BY <2>1, <2>2, <2>3, <2>4 DEF Next, Worker, Clients
<1> QED BY <1>1, <1>2, IInvHolds, PTL DEF Spec, CallStoreSpec, Calls!Spec
=============================================================================
