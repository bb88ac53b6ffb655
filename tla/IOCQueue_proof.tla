--------------------------- MODULE IOCQueue_proof ---------------------------
(***************************************************************************)
(* Proofs about IOCQueue, for any clients, workers, requests and bounds,   *)
(* whatever fails.                                                         *)
(*                                                                         *)
(* That requests keep their order rests on what an entry is compared with: *)
(* everything ahead of it in the queue, dispatched or not.  That no        *)
(* dispatch is lost rests on what the holder of the mutex does next: a     *)
(* thread that finds the mutex held may give up because the holder has a   *)
(* dispatch ahead of it.                                                   *)
(*                                                                         *)
(* That the results are those of a serial execution (last section) rests   *)
(* on the order and on two facts about the entry that a byte is moved for: *)
(* no later one that touches the byte has started, and no earlier read or  *)
(* EOF request is still going to see it.  So the byte last written is the  *)
(* one the last entry in the queue's order wrote.                          *)
(***************************************************************************)
EXTENDS IOCQueue, FiniteSetTheorems, TLAPS

Senders == {c \in Clients : inbox[c] # NoOp}

\* There is room for every header on its way.
BoundOK == arrived + Cardinality(Senders) <= MaxRequests

MutexOK == \A t \in Threads : pc[t] \in Holding <=> q_mutex = t

WorkerPlaces == {"idle", "work", "complete", "completing", "try",
                 "dispatching"}
MainPlaces == {"probe", "add", "adding", "dispatch", "dispatching", "try",
               "check", "exited", "failed"}
PlaceOK == pc[Main] \in MainPlaces /\ \A w \in Workers : pc[w] \in WorkerPlaces

\* An entry in progress is waiting in the pool or in the hands of one worker.
Handling == {"work", "complete", "completing"}
TasksOK ==
  /\ pool \subseteq InProgress
  /\ \A w \in Workers :
       /\ pc[w] \in Handling => entry[w] \in InProgress \ pool
       /\ \A v \in Workers : v # w /\ pc[v] \in Handling /\ pc[w] \in Handling
                                => entry[v] # entry[w]

\* How far the shutdown is, and what no longer happens then.
EndOK ==
  /\ pc[Main] = "exited" => Queue = {}
  /\ finalize = "open" => sf_shutdown_flag = 0 /\ pc[Main] # "exited"
  /\ finalize = "waiting" => sf_shutdown_flag = 1 \/ pc[Main] = "exited"
  /\ finalize \notin {"open", "waiting"} => pc[Main] = "exited"
  /\ finalize \in {"mutex_destroy", "join", "closed"} =>
       \A w \in Workers : pc[w] = "idle"

IInv == /\ TypeOK
        /\ BoundOK
        /\ MutexOK
        /\ PlaceOK
        /\ TasksOK
        /\ StrictOrder
        /\ NoForgottenEntry
        /\ EndOK

-----------------------------------------------------------------------------

\* What is said of the queue depends on its entries alone.
LEMMA SameQueue ==
  ASSUME UNCHANGED <<arrived, req, status>>
  PROVE  /\ Known' = Known /\ Queue' = Queue /\ InProgress' = InProgress
         /\ Eligible' = Eligible
         /\ StrictOrder => StrictOrder'
<1>1. Known' = Known
  BY DEF Known
<1>2. Queue' = Queue /\ InProgress' = InProgress
  BY <1>1 DEF Queue, InProgress
<1>3. \A i, j : MayPass(i, j)' = MayPass(i, j)
  BY DEF MayPass, Barrier, Conflict, Overlap, Tag, First, Beyond
<1>4. Eligible' = Eligible
  BY <1>2, <1>3 DEF Eligible
<1>5. StrictOrder => StrictOrder'
  BY <1>1, <1>3 DEF StrictOrder
<1> QED
  BY <1>1, <1>2, <1>4, <1>5

\* Headers are finitely many.
LEMMA SendersFinite ==
  ASSUME NEW S \in SUBSET Clients
  PROVE  IsFiniteSet(S) /\ Cardinality(S) \in Nat
BY ClientsAssumption, FS_Subset, FS_CardinalityType

\* A dispatch takes every entry it may: none is left to dispatch after it.
LEMMA DispatchTakesAll ==
  ASSUME TypeOK, NEW t \in Threads, dispatch_eligible_entries(t)
  PROVE  /\ Known' = Known /\ Queue' = Queue
         /\ InProgress' = InProgress \cup Eligible
         /\ Eligible' = {}
<1>1. Known' = Known /\ Known \subseteq Ids /\ Eligible \subseteq Known
  BY BoundAssumption
  DEF dispatch_eligible_entries, TypeOK, Known, Ids, Eligible, Queue
<1>2. \A i \in Known : status'[i] = IF i \in Eligible THEN "in_progress"
                                                       ELSE status[i]
  BY <1>1 DEF dispatch_eligible_entries
<1>3. Queue' = Queue
  BY <1>1, <1>2 DEF Queue, Eligible
<1>4. InProgress' = InProgress \cup Eligible
  BY <1>1, <1>2 DEF InProgress
<1>5. \A i, j : MayPass(i, j)' = MayPass(i, j)
  BY DEF dispatch_eligible_entries, MayPass, Barrier, Conflict, Overlap, Tag,
         First, Beyond
<1>6. ASSUME NEW i \in Eligible' PROVE FALSE
  <2>1. i \in Queue /\ status[i] = "pending" /\ i \notin Eligible
    BY <1>1, <1>2, <1>3 DEF Eligible, Queue
  <2>2. PICK j \in Queue : j < i /\ ~MayPass(i, j)
    BY <2>1 DEF Eligible
  <2> QED
    BY <1>3, <1>5, <2>2 DEF Eligible
<1> QED
  BY <1>1, <1>3, <1>4, <1>6

-----------------------------------------------------------------------------

\* The concentrator starts with an empty queue and idle workers.
LEMMA InitIInv == Init => IInv
<1> SUFFICES ASSUME Init PROVE IInv
  OBVIOUS
<1> USE ThreadsAssumption DEF Init
<1>1. Known = {} /\ Queue = {} /\ InProgress = {} /\ Eligible = {}
  BY DEF Known, Queue, InProgress, Eligible
<1>2. TypeOK
  BY <1>1, BoundAssumption, OpsAssumption DEF TypeOK, Threads, Ids
<1>3. BoundOK
  <2>1. Senders = {}
    BY DEF Senders
  <2> QED
    BY <2>1, FS_EmptySet, BoundAssumption DEF BoundOK
<1>4. MutexOK
  BY DEF MutexOK, Holding, Threads
<1>5. PlaceOK
  BY DEF PlaceOK, WorkerPlaces, MainPlaces, Threads
<1>6. TasksOK
  BY <1>1 DEF TasksOK, Handling, Threads
<1>7. StrictOrder /\ NoForgottenEntry
  BY <1>1 DEF StrictOrder, NoForgottenEntry
<1>8. EndOK
  BY <1>1 DEF EndOK, Threads
<1> QED
  BY <1>2, <1>3, <1>4, <1>5, <1>6, <1>7, <1>8 DEF IInv

\* What a step of an operation may change besides the subfile and the answers.
LEMMA HandleFrame ==
  ASSUME NEW w \in Workers, Handle(w)
  PROVE  /\ pc[w] = "work"
         /\ pc' = pc \/ pc' = [pc EXCEPT ![w] = "complete"]
         /\ UNCHANGED <<inbox, arrived, req, status, pool, entry, q_mutex,
                        sf_shutdown_flag, finalize>>
<1> USE DEF Working, OpUnchanged, queueVars, endVars, Goto
<1>1. CASE transfer_ack(w)
  BY <1>1 DEF transfer_ack
<1>2. CASE transfer_nack(w)
  BY <1>2 DEF transfer_nack
<1>3. CASE transfer_byte(w)
  BY <1>3 DEF transfer_byte
<1>4. CASE transfer_done(w)
  BY <1>4 DEF transfer_done
<1>5. CASE transfer_fail(w)
  BY <1>5 DEF transfer_fail
<1>6. CASE truncate(w)
  BY <1>6 DEF truncate
<1>7. CASE report_eof(w)
  BY <1>7 DEF report_eof
<1>8. CASE barrier_fail(w)
  BY <1>8 DEF barrier_fail
<1> QED
  BY <1>1, <1>2, <1>3, <1>4, <1>5, <1>6, <1>7, <1>8 DEF Handle

\* The request a worker handles is one of the declared operations.
LEMMA HandledOp ==
  ASSUME IInv, NEW w \in Workers, pc[w] = "work"
  PROVE  /\ entry[w] \in Ids /\ entry[w] \in Known
         /\ req[entry[w]].op \in OpRecord
         /\ Beyond(entry[w]) <= FileSize
<1>1. entry[w] \in Known
  BY DEF IInv, TasksOK, Handling, InProgress
<1>2. entry[w] \in Ids
  BY <1>1, BoundAssumption DEF IInv, TypeOK, Known, Ids
<1>3. req[entry[w]].op \in Ops
  BY <1>1 DEF IInv, TypeOK
<1> QED
  BY <1>1, <1>2, <1>3, OpsAssumption DEF Beyond

\* The steps of the operations keep the types.
LEMMA HandleType ==
  ASSUME IInv, NEW w \in Workers, Handle(w)
  PROVE  /\ moved' \in [Ids -> Nat]
         /\ result' \in [Ids -> Seq(Nat)]
         /\ reply' \in [Ids -> {"none", "ack", "ok", "error"}]
         /\ subfile' \in [0..FileSize - 1 -> 0..MaxRequests]
         /\ eof' \in 0..FileSize
<1> DEFINE i == entry[w]
<1>1. /\ i \in Ids /\ req[i].op \in OpRecord /\ Beyond(i) <= FileSize
      /\ req[i].op.offset \in Nat /\ req[i].op.len \in Nat
  BY HandleFrame, HandledOp DEF OpRecord
<1>2. /\ moved \in [Ids -> Nat] /\ result \in [Ids -> Seq(Nat)]
      /\ reply \in [Ids -> {"none", "ack", "ok", "error"}]
      /\ subfile \in [0..FileSize - 1 -> 0..MaxRequests] /\ eof \in 0..FileSize
      /\ FileSize \in Nat /\ MaxRequests \in Nat
  BY BoundAssumption DEF IInv, TypeOK
<1> HIDE DEF i
<1> USE DEF Answer
<1>3. CASE transfer_ack(w)
  BY <1>1, <1>2, <1>3 DEF transfer_ack, i
<1>4. CASE transfer_nack(w)
  BY <1>1, <1>2, <1>4 DEF transfer_nack, i
<1>5. CASE transfer_byte(w)
  <2> DEFINE o == First(i) + moved[i]
  <2>1. o \in 0..FileSize - 1 /\ i \in 0..MaxRequests
    <3>1. o < Beyond(i)
      BY <1>5 DEF transfer_byte, i
    <3>2. o \in Nat
      BY <1>1, <1>2 DEF First
    <3>3. Beyond(i) \in Nat
      BY <1>1 DEF Beyond
    <3> QED
      BY <1>1, <1>2, <3>1, <3>2, <3>3 DEF Ids
  <2>2. /\ moved' = [moved EXCEPT ![i] = @ + 1] /\ reply' = reply
        /\ \/ /\ subfile' = [subfile EXCEPT ![o] = i]
              /\ eof' = IF eof <= o THEN o + 1 ELSE eof
              /\ result' = result
           \/ /\ result' = [result EXCEPT ![i] = Append(@, subfile[o])]
              /\ subfile' = subfile /\ eof' = eof
    BY <1>5 DEF transfer_byte, i
  <2> HIDE DEF o
  <2>3. subfile[o] \in Nat /\ result[i] \in Seq(Nat)
    BY <1>1, <1>2, <2>1
  <2>4. Append(result[i], subfile[o]) \in Seq(Nat)
    BY <2>3
  <2>5. moved' \in [Ids -> Nat]
    BY <1>1, <1>2, <2>2
  <2>6. result' \in [Ids -> Seq(Nat)]
    BY <1>1, <1>2, <2>2, <2>4
  <2>7. subfile' \in [0..FileSize - 1 -> 0..MaxRequests]
    BY <1>2, <2>1, <2>2
  <2>8. eof' \in 0..FileSize
    BY <1>2, <2>1, <2>2
  <2> QED
    BY <1>2, <2>2, <2>5, <2>6, <2>7, <2>8
<1>6. CASE transfer_done(w)
  BY <1>1, <1>2, <1>6 DEF transfer_done, i
<1>7. CASE transfer_fail(w)
  BY <1>1, <1>2, <1>7 DEF transfer_fail, i
<1>8. CASE truncate(w)
  <2>1. subfile' = [o \in 0..FileSize - 1 |->
                      IF o < req[i].op.len THEN subfile[o] ELSE 0]
    BY <1>2, <1>8 DEF truncate, i
  <2>2. subfile' \in [0..FileSize - 1 -> 0..MaxRequests]
    BY <1>2, <2>1
  <2>3. eof' \in 0..FileSize
    BY <1>1, <1>2, <1>8 DEF truncate, Beyond, i
  <2>4. /\ reply' \in [Ids -> {"none", "ack", "ok", "error"}]
        /\ moved' = moved /\ result' = result
    BY <1>1, <1>2, <1>8 DEF truncate, i
  <2> QED
    BY <1>2, <2>2, <2>3, <2>4
<1>9. CASE report_eof(w)
  <2>1. <<eof>> \in Seq(Nat)
    BY <1>2
  <2> QED
    BY <1>1, <1>2, <1>9, <2>1 DEF report_eof, i
<1>10. CASE barrier_fail(w)
  BY <1>2, <1>10 DEF barrier_fail, opVars
<1> QED
  BY <1>3, <1>4, <1>5, <1>6, <1>7, <1>8, <1>9, <1>10 DEF Handle

-----------------------------------------------------------------------------

\* A header on its way is counted against the room that is left.
LEMMA ClientSendIInv ==
  ASSUME IInv, NEW c \in Clients, NEW op \in Ops, client_send(c, op)
  PROVE  IInv'
<1> USE DEF client_send, queueVars, opVars, endVars
<1>1. /\ UNCHANGED <<arrived, req, status, pool, pc, entry, q_mutex, moved,
                     result, reply, subfile, eof, sf_shutdown_flag, finalize>>
      /\ inbox' = [inbox EXCEPT ![c] = op] /\ inbox[c] = NoOp
      /\ arrived + Cardinality(Senders) < MaxRequests
  BY DEF Senders
<1>2. /\ Known' = Known /\ Queue' = Queue /\ InProgress' = InProgress
      /\ Eligible' = Eligible /\ StrictOrder'
  BY <1>1, SameQueue DEF IInv
<1>3. TypeOK'
  BY <1>1, <1>2 DEF IInv, TypeOK
<1>4. BoundOK'
  <2>1. Senders' \subseteq Senders \cup {c} /\ c \notin Senders
    BY <1>1 DEF Senders, IInv, TypeOK
  <2>2. Senders \in SUBSET Clients /\ Senders' \in SUBSET Clients
    BY DEF Senders
  <2>3. Cardinality(Senders \cup {c}) = Cardinality(Senders) + 1
    BY <2>1, <2>2, SendersFinite, FS_AddElement
  <2>4. Cardinality(Senders') <= Cardinality(Senders \cup {c})
    BY <2>1, <2>2, SendersFinite, FS_Subset
  <2>5. Cardinality(Senders) \in Nat /\ Cardinality(Senders') \in Nat
    BY <2>2, SendersFinite
  <2>6. arrived \in Int /\ MaxRequests \in Int /\ arrived' = arrived
    BY <1>1, BoundAssumption DEF IInv, TypeOK
  <2> QED
    BY <1>1, <2>3, <2>4, <2>5, <2>6 DEF BoundOK
<1>5. MutexOK' /\ PlaceOK' /\ TasksOK' /\ NoForgottenEntry' /\ EndOK'
  BY <1>1, <1>2
  DEF IInv, MutexOK, PlaceOK, TasksOK, NoForgottenEntry, EndOK
<1> QED
  BY <1>2, <1>3, <1>4, <1>5 DEF IInv

\* The mutex is taken, or found held by a thread that is about to dispatch.
LEMMA MutexIInv ==
  ASSUME IInv, NEW t \in Threads, mutex_lock(t) \/ mutex_trylock(t)
  PROVE  IInv'
<1>1. /\ UNCHANGED <<inbox, arrived, req, status, pool, entry, moved, result,
                     reply, subfile, eof, sf_shutdown_flag, finalize>>
      /\ \/ /\ q_mutex = NoThread /\ q_mutex' = t
            /\ \/ pc[t] = "add" /\ pc' = [pc EXCEPT ![t] = "adding"]
               \/ pc[t] = "dispatch" /\ pc' = [pc EXCEPT ![t] = "dispatching"]
               \/ pc[t] = "complete" /\ pc' = [pc EXCEPT ![t] = "completing"]
               \/ pc[t] = "try" /\ pc' = [pc EXCEPT ![t] = "dispatching"]
         \/ /\ q_mutex # NoThread /\ q_mutex' = q_mutex /\ pc[t] = "try"
            /\ pc' = [pc EXCEPT ![t] = AfterDispatch(t)]
  BY DEF mutex_lock, mutex_trylock, Goto, queueVars, opVars, endVars
<1>2. /\ Known' = Known /\ Queue' = Queue /\ InProgress' = InProgress
      /\ Eligible' = Eligible /\ StrictOrder'
  BY <1>1, SameQueue DEF IInv
<1>3. t = Main <=> t \notin Workers
  BY ThreadsAssumption DEF Threads
<1>4. TypeOK'
  BY <1>1, <1>2 DEF IInv, TypeOK, AfterDispatch
<1>5. BoundOK'
  BY <1>1 DEF IInv, BoundOK, Senders
<1>6. MutexOK'
  BY <1>1, ThreadsAssumption DEF IInv, TypeOK, MutexOK, Holding, AfterDispatch
<1>7. PlaceOK'
  BY <1>1, <1>3
  DEF IInv, TypeOK, PlaceOK, WorkerPlaces, MainPlaces, AfterDispatch, Threads
<1>8. TasksOK'
  BY <1>1, <1>2 DEF IInv, TypeOK, TasksOK, Handling, Threads, AfterDispatch
<1>9. NoForgottenEntry'
  <2> SUFFICES ASSUME Eligible' # {}
               PROVE  \E u \in Threads : pc'[u] \in Holding \cup {"dispatch", "try"}
    BY DEF NoForgottenEntry
  <2>1. PICK u \in Threads : pc[u] \in Holding \cup {"dispatch", "try"}
    BY <1>2 DEF IInv, NoForgottenEntry
  <2>2. CASE q_mutex = NoThread
    BY <1>1, <2>2 DEF Holding, IInv, TypeOK
  <2>3. CASE q_mutex # NoThread
    <3>1. q_mutex \in Threads /\ pc[q_mutex] \in Holding
      BY <2>3 DEF IInv, TypeOK, MutexOK
    <3>2. q_mutex # t
      BY <1>1, <2>3, <3>1 DEF Holding
    <3> QED
      BY <1>1, <2>3, <3>1, <3>2 DEF IInv, TypeOK
  <2> QED
    BY <2>2, <2>3
<1>10. EndOK'
  BY <1>1, <1>2, <1>3, ThreadsAssumption
  DEF IInv, TypeOK, EndOK, Threads, AfterDispatch
<1> QED
  BY <1>2, <1>4, <1>5, <1>6, <1>7, <1>8, <1>9, <1>10 DEF IInv

\* A dispatch starts every eligible entry, so none is left behind it.
LEMMA DispatchIInv ==
  ASSUME IInv, NEW t \in Threads, dispatch_eligible_entries(t)
  PROVE  IInv'
<1>1. /\ UNCHANGED <<inbox, arrived, req, entry, moved, result, reply, subfile,
                     eof, sf_shutdown_flag, finalize>>
      /\ pc[t] = "dispatching" /\ q_mutex' = NoThread
      /\ pc' = [pc EXCEPT ![t] = AfterDispatch(t)]
      /\ pool' = pool \cup Eligible
      /\ status' = [i \in Ids |-> IF i \in Eligible THEN "in_progress"
                                                    ELSE status[i]]
  BY DEF dispatch_eligible_entries, Goto, opVars, endVars
<1>2. /\ Known' = Known /\ Queue' = Queue
      /\ InProgress' = InProgress \cup Eligible /\ Eligible' = {}
  BY DispatchTakesAll DEF IInv
<1>3. Known \subseteq Ids /\ Eligible \subseteq Known
      /\ \A i \in Eligible : status[i] = "pending"
  BY BoundAssumption DEF IInv, TypeOK, Known, Ids, Eligible, Queue
<1>4. t = Main <=> t \notin Workers
  BY ThreadsAssumption DEF Threads
<1>5. TypeOK'
  <2>1. status' \in [Ids -> {"none", "pending", "in_progress", "done"}]
    BY <1>1 DEF IInv, TypeOK
  <2>2. \A i \in Ids : status'[i] = "none" <=> i > arrived'
    BY <1>1, <1>3 DEF IInv, TypeOK
  <2>3. pool' \in SUBSET Ids
    BY <1>1, <1>3 DEF IInv, TypeOK
  <2>4. /\ pc' \in [Threads -> {"probe", "add", "adding", "dispatch", "check",
                         "exited", "failed", "idle", "work", "complete",
                         "completing", "try", "dispatching"}]
        /\ q_mutex' \in Threads \cup {NoThread}
    BY <1>1 DEF IInv, TypeOK, AfterDispatch
  <2> QED
    BY <1>1, <1>2, <2>1, <2>2, <2>3, <2>4 DEF IInv, TypeOK
<1>6. BoundOK'
  BY <1>1 DEF IInv, BoundOK, Senders
<1>7. MutexOK'
  BY <1>1, ThreadsAssumption DEF IInv, TypeOK, MutexOK, Holding, AfterDispatch
<1>8. PlaceOK'
  BY <1>1, <1>4
  DEF IInv, TypeOK, PlaceOK, WorkerPlaces, MainPlaces, AfterDispatch, Threads
<1>9. TasksOK'
  <2>1. Eligible \cap InProgress = {}
    BY <1>3 DEF InProgress
  <2>2. \A w \in Workers : pc'[w] \in Handling => pc[w] \in Handling
    BY <1>1, <1>4 DEF IInv, TypeOK, Handling, AfterDispatch, Threads
  <2> QED
    BY <1>1, <1>2, <2>1, <2>2 DEF IInv, TasksOK
<1>10. StrictOrder'
  <2> SUFFICES ASSUME NEW i \in Known, NEW j \in Known, j < i, ~MayPass(i, j),
                      status'[i] \in {"in_progress", "done"}
               PROVE  status'[j] = "done"
    BY <1>1, <1>2 DEF StrictOrder, MayPass, Barrier, Conflict, Overlap, Tag,
                      First, Beyond
  <2>1. status[j] = "done"
    <3>1. CASE i \in Eligible
      <4>1. j \notin Queue
        BY <3>1 DEF Eligible
      <4>2. status[j] \in {"pending", "in_progress", "done"}
        BY <1>3 DEF IInv, TypeOK, Known
      <4> QED
        BY <4>1, <4>2 DEF Queue
    <3>2. CASE i \notin Eligible
      BY <1>1, <1>3, <3>2 DEF IInv, StrictOrder
    <3> QED
      BY <3>1, <3>2
  <2> QED
    BY <1>1, <1>3, <2>1
<1>11. NoForgottenEntry'
  BY <1>2 DEF NoForgottenEntry
<1>12. EndOK'
  BY <1>1, <1>2, <1>4, ThreadsAssumption
  DEF IInv, TypeOK, EndOK, Threads, AfterDispatch
<1> QED
  BY <1>5, <1>6, <1>7, <1>8, <1>9, <1>10, <1>11, <1>12 DEF IInv

\* A new entry goes to the end: whatever is before it may start before it.
LEMMA AddIInv ==
  ASSUME IInv, add_entry
  PROVE  IInv'
<1>1. PICK c \in Clients :
        /\ inbox[c] # NoOp
        /\ arrived' = arrived + 1
        /\ req' = [req EXCEPT ![arrived + 1] = [client |-> c, op |-> inbox[c]]]
        /\ status' = [status EXCEPT ![arrived + 1] = "pending"]
        /\ inbox' = [inbox EXCEPT ![c] = NoOp]
  BY DEF add_entry
<1>2. /\ UNCHANGED <<pool, entry, moved, result, reply, subfile, eof,
                     sf_shutdown_flag, finalize>>
      /\ pc[Main] = "adding" /\ pc' = [pc EXCEPT ![Main] = "dispatch"]
      /\ q_mutex' = NoThread
  BY DEF add_entry, Goto, opVars, endVars
<1>3. Main \in Threads /\ Main \notin Workers
  BY ThreadsAssumption DEF Threads
<1>4. Senders' = Senders \ {c} /\ c \in Senders /\ Senders \in SUBSET Clients
  BY <1>1 DEF Senders, IInv, TypeOK
<1>5. /\ Cardinality(Senders') = Cardinality(Senders) - 1
      /\ Cardinality(Senders) \in Nat /\ Cardinality(Senders) # 0
  BY <1>4, SendersFinite, FS_RemoveElement, FS_EmptySet
<1>6. /\ arrived \in Nat /\ arrived + 1 \in Ids /\ MaxRequests \in Nat
      /\ Known = 1..arrived /\ Known' = 1..arrived + 1 /\ Known' \subseteq Ids
  BY <1>1, <1>5, BoundAssumption DEF IInv, TypeOK, BoundOK, Ids, Known
<1>7. \A i \in Known : i # arrived + 1 /\ status'[i] = status[i] /\ req'[i] = req[i]
  BY <1>1, <1>6 DEF IInv, TypeOK
<1>8. /\ status'[arrived + 1] = "pending"
      /\ req'[arrived + 1] = [client |-> c, op |-> inbox[c]]
  BY <1>1, <1>6 DEF IInv, TypeOK
<1>9. Known' = Known \cup {arrived + 1}
  BY <1>6
<1>10. InProgress' = InProgress
  BY <1>7, <1>8, <1>9 DEF InProgress
<1>11. TypeOK'
  <2>1. inbox[c] \in Ops
    BY <1>1 DEF IInv, TypeOK
  <2>2. inbox' \in [Clients -> Ops \cup {NoOp}]
    BY <1>1 DEF IInv, TypeOK
  <2>3. req' \in [Ids -> [client : Clients \cup {NoThread}, op : Ops \cup {NoOp}]]
    BY <1>1, <1>6, <2>1 DEF IInv, TypeOK
  <2>4. \A i \in Known' : req'[i] \in [client : Clients, op : Ops]
    BY <1>7, <1>8, <1>9, <2>1 DEF IInv, TypeOK
  <2>5. status' \in [Ids -> {"none", "pending", "in_progress", "done"}]
    BY <1>1 DEF IInv, TypeOK
  <2>6. \A i \in Ids : status'[i] = "none" <=> i > arrived'
    BY <1>1, <1>6 DEF IInv, TypeOK, Ids
  <2>7. arrived' \in 0..MaxRequests
    BY <1>1, <1>6 DEF Ids
  <2>8. pc' \in [Threads -> {"probe", "add", "adding", "dispatch", "check",
                         "exited", "failed", "idle", "work", "complete",
                         "completing", "try", "dispatching"}]
    BY <1>2 DEF IInv, TypeOK
  <2> QED
    BY <1>2, <2>2, <2>3, <2>4, <2>5, <2>6, <2>7, <2>8 DEF IInv, TypeOK
<1>12. BoundOK'
  BY <1>1, <1>5, <1>6 DEF IInv, BoundOK
<1>13. MutexOK'
  BY <1>2, <1>3, ThreadsAssumption DEF IInv, TypeOK, MutexOK, Holding
<1>14. PlaceOK' /\ TasksOK'
  BY <1>2, <1>3, <1>10
  DEF IInv, TypeOK, PlaceOK, TasksOK, Handling, MainPlaces, Threads
<1>15. StrictOrder'
  <2> SUFFICES ASSUME NEW i \in Known', NEW j \in Known', j < i,
                      ~MayPass(i, j)', status'[i] \in {"in_progress", "done"}
               PROVE  status'[j] = "done"
    BY DEF StrictOrder
  <2>1. i \in Known /\ j \in Known
    BY <1>6, <1>8, <1>9
  <2>2. ~MayPass(i, j)
    BY <1>7, <2>1 DEF MayPass, Barrier, Conflict, Overlap, Tag, First, Beyond
  <2> QED
    BY <1>7, <2>1, <2>2 DEF IInv, StrictOrder
<1>16. NoForgottenEntry'
  BY <1>2, <1>3 DEF IInv, TypeOK, NoForgottenEntry
<1>17. EndOK'
  BY <1>2, <1>3 DEF IInv, TypeOK, EndOK, Threads
<1> QED
  BY <1>11, <1>12, <1>13, <1>14, <1>15, <1>16, <1>17 DEF IInv

\* An entry leaves the queue, and its worker goes on to look for others.
LEMMA CompleteIInv ==
  ASSUME IInv, NEW w \in Workers, complete_entry(w)
  PROVE  IInv'
<1>1. /\ UNCHANGED <<inbox, arrived, req, pool, moved, result, reply, subfile,
                     eof, sf_shutdown_flag, finalize>>
      /\ pc[w] = "completing" /\ pc' = [pc EXCEPT ![w] = "try"]
      /\ status' = [status EXCEPT ![entry[w]] = "done"]
      /\ entry' = [entry EXCEPT ![w] = 0]
      /\ q_mutex' = NoThread
  BY DEF complete_entry, Goto, opVars, endVars
<1>2. w \in Threads /\ w # Main
  BY ThreadsAssumption DEF Threads
<1>3. entry[w] \in InProgress /\ entry[w] \notin pool
  BY <1>1 DEF IInv, TasksOK, Handling
<1>4. /\ Known' = Known /\ Known \subseteq Ids /\ arrived \in Nat
      /\ entry[w] \in Ids /\ entry[w] <= arrived
  BY <1>1, <1>3, BoundAssumption DEF IInv, TypeOK, Known, Ids, InProgress
<1>5. \A i \in Ids : status'[i] = IF i = entry[w] THEN "done" ELSE status[i]
  BY <1>1, <1>4 DEF IInv, TypeOK
<1>6. InProgress' = InProgress \ {entry[w]} /\ Queue' \subseteq Queue
  BY <1>4, <1>5 DEF InProgress, Queue
<1>7. TypeOK'
  <2>1. status' \in [Ids -> {"none", "pending", "in_progress", "done"}]
    BY <1>1 DEF IInv, TypeOK
  <2>2. \A i \in Ids : status'[i] = "none" <=> i > arrived'
    <3>1. \A i \in Ids : status[i] = "none" <=> i > arrived
      BY DEF IInv, TypeOK
    <3>2. arrived' = arrived /\ ~(entry[w] > arrived)
      BY <1>1, <1>4 DEF Ids
    <3> QED
      BY <1>5, <3>1, <3>2
  <2>3. entry' \in [Workers -> Ids \cup {0}]
    BY <1>1 DEF IInv, TypeOK
  <2>4. pc' \in [Threads -> {"probe", "add", "adding", "dispatch", "check",
                         "exited", "failed", "idle", "work", "complete",
                         "completing", "try", "dispatching"}]
    BY <1>1 DEF IInv, TypeOK
  <2> QED
    BY <1>1, <1>4, <2>1, <2>2, <2>3, <2>4 DEF IInv, TypeOK
<1>8. BoundOK'
  BY <1>1 DEF IInv, BoundOK, Senders
<1>9. MutexOK'
  BY <1>1, <1>2, ThreadsAssumption DEF IInv, TypeOK, MutexOK, Holding
<1>10. PlaceOK'
  BY <1>1, <1>2 DEF IInv, TypeOK, PlaceOK, WorkerPlaces, Threads
<1>11. TasksOK'
  <2>1. \A v \in Workers : pc'[v] \in Handling => v # w /\ pc[v] \in Handling
    BY <1>1, <1>2 DEF IInv, TypeOK, Handling, Threads
  <2>2. pool' \subseteq InProgress'
    BY <1>1, <1>3, <1>6 DEF IInv, TasksOK
  <2>3. \A v \in Workers : v # w => entry'[v] = entry[v]
    BY <1>1 DEF IInv, TypeOK
  <2>4. \A v \in Workers : v # w /\ pc[v] \in Handling => entry[v] # entry[w]
    BY <1>1 DEF IInv, TasksOK, Handling
  <2> QED
    BY <1>1, <1>6, <2>1, <2>2, <2>3, <2>4 DEF IInv, TasksOK
<1>12. StrictOrder'
  <2> SUFFICES ASSUME NEW i \in Known, NEW j \in Known, j < i, ~MayPass(i, j),
                      status'[i] \in {"in_progress", "done"}
               PROVE  status'[j] = "done"
    BY <1>1, <1>4 DEF StrictOrder, MayPass, Barrier, Conflict, Overlap, Tag,
                      First, Beyond
  <2>1. status[i] \in {"in_progress", "done"}
    BY <1>3, <1>4, <1>5 DEF InProgress
  <2> QED
    BY <1>4, <1>5, <2>1 DEF IInv, StrictOrder
<1>13. NoForgottenEntry'
  BY <1>1, <1>2 DEF IInv, TypeOK, NoForgottenEntry
<1>14. EndOK'
  <2>1. pc'[Main] = pc[Main]
    BY <1>1, <1>2, ThreadsAssumption DEF IInv, TypeOK, Threads
  <2>2. finalize \notin {"mutex_destroy", "join", "closed"}
    BY <1>1 DEF IInv, EndOK
  <2>3. finalize' = finalize /\ sf_shutdown_flag' = sf_shutdown_flag
    BY <1>1
  <2> QED
    BY <1>6, <2>1, <2>2, <2>3 DEF IInv, EndOK
<1> QED
  BY <1>7, <1>8, <1>9, <1>10, <1>11, <1>12, <1>13, <1>14 DEF IInv

\* Steps of the main thread outside the mutex.
LEMMA MainIInv ==
  ASSUME IInv, main_probe \/ main_fail \/ main_check
  PROVE  IInv'
<1>1. /\ UNCHANGED <<inbox, arrived, req, status, pool, entry, q_mutex, moved,
                     result, reply, subfile, eof, finalize>>
      /\ \/ /\ pc[Main] = "probe" /\ sf_shutdown_flag' = sf_shutdown_flag
            /\ \/ pc' = [pc EXCEPT ![Main] = "add"]
               \/ pc' = [pc EXCEPT ![Main] = "try"]
               \/ pc' = [pc EXCEPT ![Main] = "failed"]
         \/ /\ pc[Main] = "check" /\ sf_shutdown_flag' = sf_shutdown_flag
            /\ pc' = [pc EXCEPT ![Main] = "probe"]
         \/ /\ pc[Main] = "check" /\ sf_shutdown_flag = 1 /\ Queue = {}
            /\ sf_shutdown_flag' = 0
            /\ pc' = [pc EXCEPT ![Main] = "exited"]
  BY DEF main_probe, main_fail, main_check, Goto, queueVars, opVars, endVars
<1>2. /\ Known' = Known /\ Queue' = Queue /\ InProgress' = InProgress
      /\ Eligible' = Eligible /\ StrictOrder'
  BY <1>1, SameQueue DEF IInv
<1>3. Main \in Threads /\ Main \notin Workers
  BY ThreadsAssumption DEF Threads
<1>4. TypeOK'
  BY <1>1, <1>2 DEF IInv, TypeOK
<1>5. BoundOK'
  BY <1>1 DEF IInv, BoundOK, Senders
<1>6. MutexOK' /\ NoForgottenEntry'
  BY <1>1, <1>2, <1>3
  DEF IInv, TypeOK, MutexOK, NoForgottenEntry, Holding
<1>7. PlaceOK' /\ TasksOK'
  BY <1>1, <1>2, <1>3 DEF IInv, TypeOK, PlaceOK, TasksOK, MainPlaces, Threads
<1>8. EndOK'
  <2>1. pc[Main] # "exited" /\ \A w \in Workers : pc'[w] = pc[w]
    BY <1>1, <1>3 DEF IInv, TypeOK, Threads
  <2>2. /\ pc'[Main] = "exited" => Queue = {} /\ sf_shutdown_flag = 1
        /\ pc'[Main] # "exited" => sf_shutdown_flag' = sf_shutdown_flag
    BY <1>1, <1>3 DEF IInv, TypeOK
  <2>3. finalize' = finalize /\ Queue' = Queue
    BY <1>1, <1>2
  <2> QED
    BY <2>1, <2>2, <2>3 DEF IInv, EndOK
<1> QED
  BY <1>2, <1>4, <1>5, <1>6, <1>7, <1>8 DEF IInv

\* A worker takes an entry, or goes on with its operation.
LEMMA WorkIInv ==
  ASSUME IInv, NEW w \in Workers, take_task(w) \/ Handle(w)
  PROVE  IInv'
<1>1. w \in Threads /\ w # Main
  BY ThreadsAssumption DEF Threads
<1>2. CASE take_task(w)
  <2>1. /\ UNCHANGED <<inbox, arrived, req, status, q_mutex, moved, result,
                       reply, subfile, eof, sf_shutdown_flag, finalize>>
        /\ pc[w] = "idle" /\ pc' = [pc EXCEPT ![w] = "work"]
    BY <1>2 DEF take_task, Goto, opVars, endVars
  <2>2. PICK i \in pool : /\ pool' = pool \ {i}
                          /\ entry' = [entry EXCEPT ![w] = i]
    BY <1>2 DEF take_task
  <2>3. /\ Known' = Known /\ Queue' = Queue /\ InProgress' = InProgress
        /\ Eligible' = Eligible /\ StrictOrder'
    BY <2>1, SameQueue DEF IInv
  <2>4. i \in Ids /\ i \in InProgress
    BY DEF IInv, TypeOK, TasksOK
  <2>5. TypeOK'
    BY <2>1, <2>2, <2>3, <2>4 DEF IInv, TypeOK
  <2>6. BoundOK'
    BY <2>1 DEF IInv, BoundOK, Senders
  <2>7. MutexOK' /\ NoForgottenEntry'
    BY <1>1, <2>1, <2>3
    DEF IInv, TypeOK, MutexOK, NoForgottenEntry, Holding
  <2>8. PlaceOK'
    BY <1>1, <2>1 DEF IInv, TypeOK, PlaceOK, WorkerPlaces, Threads
  <2>9. TasksOK'
    <3>1. \A v \in Workers : v # w => pc'[v] = pc[v] /\ entry'[v] = entry[v]
      BY <2>1, <2>2 DEF IInv, TypeOK, Threads
    <3>2. entry'[w] = i
      BY <2>2 DEF IInv, TypeOK
    <3>3. \A v \in Workers : v # w /\ pc[v] \in Handling => entry[v] # i
      BY DEF IInv, TasksOK
    <3> QED
      BY <2>2, <2>3, <2>4, <3>1, <3>2, <3>3 DEF IInv, TasksOK
  <2>10. EndOK'
    <3>1. pc'[Main] = pc[Main]
      BY <1>1, <2>1, ThreadsAssumption DEF IInv, TypeOK, Threads
    <3>2. Queue # {}
      BY <2>4 DEF Queue, InProgress
    <3>3. finalize \in {"open", "waiting"}
      <4>1. pc[Main] # "exited"
        BY <3>2 DEF IInv, EndOK
      <4> QED
        BY <4>1 DEF IInv, EndOK
    <3> QED
      BY <2>1, <2>3, <3>1, <3>3 DEF IInv, EndOK
  <2> QED
    BY <2>3, <2>5, <2>6, <2>7, <2>8, <2>9, <2>10 DEF IInv
<1>3. CASE Handle(w)
  <2>1. /\ UNCHANGED <<inbox, arrived, req, status, pool, entry, q_mutex,
                       sf_shutdown_flag, finalize>>
        /\ pc[w] = "work"
        /\ pc' = pc \/ pc' = [pc EXCEPT ![w] = "complete"]
    BY <1>3, HandleFrame
  <2>2. /\ Known' = Known /\ Queue' = Queue /\ InProgress' = InProgress
        /\ Eligible' = Eligible /\ StrictOrder'
    BY <2>1, SameQueue DEF IInv
  <2>3. TypeOK'
    BY <1>3, <2>1, <2>2, HandleType DEF IInv, TypeOK
  <2>4. BoundOK'
    BY <2>1 DEF IInv, BoundOK, Senders
  <2>5. MutexOK' /\ NoForgottenEntry'
    BY <1>1, <2>1, <2>2
    DEF IInv, TypeOK, MutexOK, NoForgottenEntry, Holding
  <2>6. PlaceOK' /\ TasksOK'
    <3>1. \A t \in Threads : t # w => pc'[t] = pc[t]
      BY <2>1 DEF IInv, TypeOK
    <3>2. pc'[w] \in {"work", "complete"}
      BY <1>1, <2>1 DEF IInv, TypeOK
    <3>3. PlaceOK'
      BY <1>1, <3>1, <3>2 DEF IInv, PlaceOK, WorkerPlaces, Threads
    <3>4. \A v \in Workers : pc'[v] \in Handling => pc[v] \in Handling
      BY <2>1, <3>1 DEF Handling, Threads
    <3> QED
      BY <2>1, <2>2, <3>3, <3>4 DEF IInv, TasksOK
  <2>7. EndOK'
    BY <1>1, <2>1, <2>2 DEF IInv, TypeOK, EndOK, Threads
  <2> QED
    BY <2>2, <2>3, <2>4, <2>5, <2>6, <2>7 DEF IInv
<1> QED
  BY <1>2, <1>3

\* The shutdown goes on only as the threads let it.
LEMMA FinalizeIInv ==
  ASSUME IInv, Finalize
  PROVE  IInv'
<1>1. /\ UNCHANGED <<inbox, arrived, req, status, pool, pc, entry, q_mutex,
                     moved, result, reply, subfile, eof>>
      /\ \/ finalize = "open" /\ finalize' = "waiting" /\ sf_shutdown_flag' = 1
         \/ /\ sf_shutdown_flag' = sf_shutdown_flag
            /\ \/ /\ finalize = "waiting" /\ finalize' = "pool_destroy"
                  /\ sf_shutdown_flag = 0
               \/ /\ finalize = "pool_destroy" /\ finalize' = "mutex_destroy"
                  /\ \A w \in Workers : pc[w] = "idle"
               \/ finalize = "mutex_destroy" /\ finalize' = "join"
               \/ finalize = "join" /\ finalize' = "closed"
  BY DEF Finalize, finalize_threads, finalize_flag_reset, pool_destroy,
         mutex_destroy, finalize_join, Finalizing, EndUnchanged, queueVars,
         opVars
<1>2. /\ Known' = Known /\ Queue' = Queue /\ InProgress' = InProgress
      /\ Eligible' = Eligible /\ StrictOrder'
  BY <1>1, SameQueue DEF IInv
<1>3. TypeOK'
  BY <1>1, <1>2 DEF IInv, TypeOK
<1>4. BoundOK' /\ MutexOK' /\ PlaceOK' /\ TasksOK' /\ NoForgottenEntry'
  BY <1>1, <1>2
  DEF IInv, BoundOK, Senders, MutexOK, PlaceOK, TasksOK, NoForgottenEntry
<1>5. EndOK'
  BY <1>1, <1>2 DEF IInv, EndOK
<1> QED
  BY <1>2, <1>3, <1>4, <1>5 DEF IInv

-----------------------------------------------------------------------------

\* Every step of a client, a thread or the shutdown preserves the invariant.
LEMMA NextIInv == IInv /\ [Next]_vars => IInv'
<1> SUFFICES ASSUME IInv, [Next]_vars PROVE IInv'
  OBVIOUS
<1>1. CASE Next
  <2>1. CASE \E c \in Clients, op \in Ops : client_send(c, op)
    BY <2>1, ClientSendIInv
  <2>2. CASE MainStep
    BY <2>2, MainIInv, AddIInv DEF MainStep
  <2>3. CASE \E w \in Workers : take_task(w) \/ Handle(w) \/ complete_entry(w)
    BY <2>3, WorkIInv, CompleteIInv
  <2>4. CASE \E t \in Threads : mutex_lock(t) \/ mutex_trylock(t)
                                  \/ dispatch_eligible_entries(t)
    BY <2>4, MutexIInv, DispatchIInv
  <2>5. CASE Finalize
    BY <2>5, FinalizeIInv
  <2> QED
    BY <1>1, <2>1, <2>2, <2>3, <2>4, <2>5 DEF Next
<1>2. CASE UNCHANGED vars
  <2>1. UNCHANGED <<inbox, arrived, req, status, pool, pc, entry, q_mutex,
                    moved, result, reply, subfile, eof, sf_shutdown_flag,
                    finalize>>
    BY <1>2 DEF vars, queueVars, opVars, endVars
  <2>2. /\ Known' = Known /\ Queue' = Queue /\ InProgress' = InProgress
        /\ Eligible' = Eligible /\ StrictOrder'
    BY <2>1, SameQueue DEF IInv
  <2>3. TypeOK'
    BY <2>1, <2>2 DEF IInv, TypeOK
  <2> QED
    BY <2>1, <2>2, <2>3
    DEF IInv, BoundOK, Senders, MutexOK, PlaceOK, TasksOK, NoForgottenEntry,
        EndOK
<1> QED
  BY <1>1, <1>2

\* The queue, the mutex, the tasks and the shutdown of the I/O concentrator
\* (H5FDioc_threads.c) stay consistent, whatever fails.
THEOREM Inductive == SafeSpec => []IInv
BY InitIInv, NextIInv, PTL DEF SafeSpec

\* The concentrator's state keeps its types: no request is counted that has no
\* entry, and no byte is moved outside the subfile.
THEOREM TypeCorrect == SafeSpec => []TypeOK
<1>1. IInv => TypeOK
  BY DEF IInv
<1> QED
  BY <1>1, Inductive, PTL

\* Rule 3 of the I/O queue: requests of which one may not pass the other run in
\* the order of their arrival, the first complete before the second starts.
THEOREM StrictOrderHolds == SafeSpec => []StrictOrder
<1>1. IInv => StrictOrder
  BY DEF IInv
<1> QED
  BY <1>1, Inductive, PTL

\* The try-lock of the dispatch loses nothing: an entry that may start has a
\* thread coming for it.
THEOREM NoForgottenEntryHolds == SafeSpec => []NoForgottenEntry
<1>1. IInv => NoForgottenEntry
  BY DEF IInv
<1> QED
  BY <1>1, Inductive, PTL

\* The queue is empty when the pool is torn down, and no thread can touch its
\* mutex once it is destroyed.
THEOREM QuietAtShutdownHolds == SafeSpec => []QuietAtShutdown
<1>1. IInv => QuietAtShutdown
  BY DEF IInv, EndOK, QuietAtShutdown
<1> QED
  BY <1>1, Inductive, PTL

-----------------------------------------------------------------------------
(***************************************************************************)
(* The serial order of the results                                         *)
(***************************************************************************)

\* Entry j, run as far as it is, has stored something at byte o or cut it off.
Touches(j, o) == Stores(j, o) \/ (Cut(j) /\ req[j].op.len <= o)

\* The first n entries leave v at byte o: the last of them that touches it does.
LeftAt(n, o, v) ==
  \/ v = 0 /\ \A j \in 1..n : ~Touches(j, o)
  \/ \E j \in 1..n : /\ Touches(j, o)
                     /\ \A k \in 1..n : Touches(k, o) => k <= j
                     /\ v = IF Cut(j) THEN 0 ELSE j

\* The last truncate among the first n entries, and the writes since.
LastCut(n, j) == Cut(j) /\ \A k \in 1..n : Cut(k) => k <= j
Since(n, j) == /\ Tag(j) = "WRITE_INDEP" /\ moved[j] > 0
               /\ \A k \in 1..n : Cut(k) => k < j

\* The sizes the first n entries leave the subfile with, and the largest.
SizeOf(n, s) ==
  \/ s = 0
  \/ \E j \in 1..n : \/ LastCut(n, j) /\ s = req[j].op.len
                     \/ Since(n, j) /\ s = First(j) + moved[j]
LargestOf(n, v) == SizeOf(n, v) /\ \A s : SizeOf(n, s) => s <= v

\* An entry that has not started has moved nothing and has no answer.
NotStarted ==
  \A i \in Ids : status[i] \in {"none", "pending"} =>
    moved[i] = 0 /\ reply[i] = "none" /\ result[i] = <<>>

MovedOK ==
  \A i \in Known :
    /\ moved[i] <= req[i].op.len
    /\ Tag(i) \in Transfers /\ reply[i] = "ok" => moved[i] = req[i].op.len

\* The subfile, and what was read of it, is what the entries left in the order
\* of the queue, the ones still under way included.
BytesOK == \A o \in 0..FileSize - 1 : LeftAt(arrived, o, subfile[o])
ReadsOK ==
  \A i \in Known : Tag(i) = "READ_INDEP" =>
    /\ Len(result[i]) = moved[i]
    /\ \A k \in 1..moved[i] : LeftAt(i - 1, First(i) + k - 1, result[i][k])

\* So is its size.
EofOK == LargestOf(arrived, eof)
EofsOK ==
  \A i \in Known : Tag(i) = "GET_EOF_OP" /\ reply[i] = "ok" =>
    LargestOf(i - 1, result[i][1])

SInv == NotStarted /\ MovedOK /\ BytesOK /\ ReadsOK /\ EofOK /\ EofsOK

\* The numbers of a known entry.
LEMMA KnownEntry ==
  ASSUME IInv, NEW i \in Known
  PROVE  /\ i \in Ids /\ i \in Nat /\ i >= 1 /\ i <= arrived /\ arrived \in Nat
         /\ First(i) \in Nat /\ req[i].op.len \in Nat /\ moved[i] \in Nat
         /\ Beyond(i) = First(i) + req[i].op.len /\ Beyond(i) <= FileSize
         /\ Tag(i) \in {"WRITE_INDEP", "READ_INDEP", "TRUNC_OP", "GET_EOF_OP"}
         /\ 1..i - 1 \subseteq Known /\ i - 1 \in Nat
<1>1. /\ i \in Ids /\ arrived \in Nat /\ i \in 1..arrived
  BY BoundAssumption DEF IInv, TypeOK, Known, Ids
<1>2. req[i].op \in Ops
  BY DEF IInv, TypeOK
<1>3. req[i].op \in OpRecord /\ req[i].op.offset + req[i].op.len <= FileSize
  BY <1>2, OpsAssumption
<1>4. moved[i] \in Nat
  BY <1>1 DEF IInv, TypeOK
<1>5. 1..i - 1 \subseteq Known /\ i - 1 \in Nat
  BY <1>1 DEF Known
<1> QED
  BY <1>1, <1>3, <1>4, <1>5 DEF First, Beyond, Tag, OpRecord

\* A later entry that may not pass one in progress has not started.
LEMMA LaterWaits ==
  ASSUME IInv, NotStarted, NEW i \in InProgress, NEW j \in Known, j > i,
         ~MayPass(j, i)
  PROVE  /\ moved[j] = 0 /\ ~Cut(j) /\ reply[j] # "ok"
         /\ \A o \in Nat : ~Touches(j, o)
<1>1. i \in Known /\ status[i] = "in_progress"
  BY DEF InProgress
<1>2. status[j] \notin {"in_progress", "done"}
  BY <1>1, KnownEntry DEF IInv, StrictOrder
<1>3. j \in Ids /\ status[j] \in {"none", "pending"}
  BY <1>2, KnownEntry DEF IInv, TypeOK
<1>4. moved[j] = 0 /\ reply[j] = "none"
  BY <1>3 DEF NotStarted
<1>5. \A o \in Nat : ~Stores(j, o)
  BY <1>4, KnownEntry DEF Stores
<1> QED
  BY <1>4, <1>5 DEF Cut, Touches

\* An earlier entry that one which has started may not pass is complete.
LEMMA EarlierDone ==
  ASSUME IInv, NotStarted, NEW i \in InProgress, NEW j \in Known, i < j,
         ~MayPass(j, i), moved[j] > 0 \/ reply[j] # "none"
  PROVE  FALSE
<1>1. i \in Known /\ status[i] = "in_progress"
  BY DEF InProgress
<1>2. j \in Ids /\ status[j] \notin {"none", "pending"}
  BY KnownEntry DEF NotStarted
<1>3. status[j] \in {"in_progress", "done"}
  BY <1>2 DEF IInv, TypeOK
<1> QED
  BY <1>1, <1>3 DEF IInv, StrictOrder

\* Two entries with a byte in common of which one is a write conflict.
LEMMA CommonByte ==
  ASSUME IInv, NEW i \in Known, NEW j \in Known, NEW o \in Nat,
         First(i) <= o, o < Beyond(i), First(j) <= o, o < Beyond(j),
         Tag(i) = "WRITE_INDEP" \/ Tag(j) = "WRITE_INDEP"
  PROVE  ~MayPass(i, j) /\ ~MayPass(j, i)
<1>1. Overlap(i, j) /\ Overlap(j, i)
  BY KnownEntry DEF Overlap
<1> QED
  BY <1>1 DEF MayPass, Conflict

\* What the entries leave at a byte does not change when none of them touches
\* it anew.
LEMMA SameLeft ==
  ASSUME NEW n, NEW o,
         \A j \in 1..n : /\ Touches(j, o)' <=> Touches(j, o)
                         /\ Touches(j, o) => (Cut(j)' <=> Cut(j))
  PROVE  \A v : LeftAt(n, o, v)' <=> LeftAt(n, o, v)
BY DEF LeftAt

\* Nor does the size they leave when none of them is cut or moved.
LEMMA SameSizes ==
  ASSUME NEW n,
         \A j \in 1..n : /\ req'[j] = req[j]
                         /\ Cut(j)' <=> Cut(j)
                         /\ Tag(j) = "WRITE_INDEP" => moved'[j] = moved[j]
  PROVE  \A v : LargestOf(n, v)' <=> LargestOf(n, v)
<1>1. \A j \in 1..n : LastCut(n, j)' <=> LastCut(n, j)
  BY DEF LastCut
<1>2. \A j \in 1..n : Tag(j)' = Tag(j) /\ First(j)' = First(j)
  BY DEF Tag, First
<1>3. \A j \in 1..n : Since(n, j)' <=> Since(n, j)
  BY <1>2 DEF Since
<1>4. \A s : SizeOf(n, s)' <=> SizeOf(n, s)
  BY <1>1, <1>2, <1>3 DEF SizeOf, Since
<1> QED
  BY <1>4 DEF LargestOf

\* The last entries that do not touch a byte can be left out.
LEMMA LeftBefore ==
  ASSUME NEW n \in Nat, NEW m \in Nat, m <= n, NEW o, NEW v, LeftAt(n, o, v),
         \A j \in 1..n : Touches(j, o) => j <= m
  PROVE  LeftAt(m, o, v)
<1>1. 1..m \subseteq 1..n
  OBVIOUS
<1>2. \A j \in 1..n : j <= m => j \in 1..m
  OBVIOUS
<1> QED
  BY <1>1, <1>2 DEF LeftAt

\* So can the last entries that neither cut the subfile nor moved a byte.
LEMMA LargestBefore ==
  ASSUME NEW n \in Nat, NEW m \in Nat, m <= n, NEW v, LargestOf(n, v),
         \A j \in 1..n : Cut(j) \/ (Tag(j) = "WRITE_INDEP" /\ moved[j] > 0) => j <= m
  PROVE  LargestOf(m, v)
<1>1. 1..m \subseteq 1..n
  OBVIOUS
<1>2. \A j \in 1..n : j <= m => j \in 1..m
  OBVIOUS
<1>3. \A j \in 1..m : LastCut(m, j) <=> LastCut(n, j)
  BY <1>1, <1>2 DEF LastCut
<1>4. \A j \in 1..m : Since(m, j) <=> Since(n, j)
  BY <1>1, <1>2 DEF Since
<1>5. \A s : SizeOf(m, s) <=> SizeOf(n, s)
  <2>1. ASSUME NEW s, SizeOf(m, s) PROVE SizeOf(n, s)
    BY <1>1, <1>3, <1>4, <2>1 DEF SizeOf
  <2>2. ASSUME NEW s, SizeOf(n, s) PROVE SizeOf(m, s)
    <3>1. ASSUME NEW j \in 1..n, LastCut(n, j) \/ Since(n, j)
          PROVE  j \in 1..m /\ (LastCut(m, j) <=> LastCut(n, j))
                            /\ (Since(m, j) <=> Since(n, j))
      BY <1>2, <1>3, <1>4, <3>1 DEF LastCut, Since
    <3> QED
      BY <2>2, <3>1 DEF SizeOf
  <2> QED
    BY <2>1, <2>2
<1> QED
  BY <1>5 DEF LargestOf

-----------------------------------------------------------------------------

\* At first the subfile is empty and nothing has been asked.
LEMMA InitSInv == Init => SInv
<1> SUFFICES ASSUME Init PROVE SInv
  OBVIOUS
<1>1. arrived = 0 /\ Known = {} /\ eof = 0
  BY DEF Init, Known
<1>2. NotStarted
  BY DEF Init, NotStarted
<1>3. MovedOK /\ ReadsOK /\ EofsOK
  BY <1>1 DEF MovedOK, ReadsOK, EofsOK
<1>4. BytesOK
  BY <1>1 DEF Init, BytesOK, LeftAt
<1>5. EofOK
  BY <1>1 DEF EofOK, LargestOf, SizeOf
<1> QED
  BY <1>2, <1>3, <1>4, <1>5 DEF SInv

\* Steps of the queue alone: entries that have started stay started.
LEMMA QueueSInv ==
  ASSUME IInv, SInv,
         UNCHANGED <<arrived, req, moved, result, reply, subfile, eof>>,
         \A i \in Ids : status'[i] \in {"none", "pending"} =>
                          status[i] \in {"none", "pending"}
  PROVE  SInv'
<1>1. Known' = Known
  BY DEF Known
<1>2. /\ \A i : Tag(i)' = Tag(i) /\ First(i)' = First(i) /\ Cut(i)' = Cut(i)
      /\ \A i, o : Touches(i, o)' = Touches(i, o)
  BY DEF Tag, First, Cut, Touches, Stores
<1>3. \A n, o, v : LeftAt(n, o, v)' <=> LeftAt(n, o, v)
  BY <1>2, SameLeft
<1>4. \A n, v : LargestOf(n, v)' <=> LargestOf(n, v)
  BY <1>2, SameSizes
<1>5. NotStarted' /\ MovedOK'
  BY <1>1, <1>2 DEF SInv, NotStarted, MovedOK
<1>6. BytesOK'
  <2> SUFFICES ASSUME NEW o \in 0..FileSize - 1, NEW n, n = arrived',
                      NEW v, v = subfile'[o]
               PROVE  LeftAt(n, o, v)'
    BY DEF BytesOK, LeftAt
  <2> QED
    BY <1>3 DEF SInv, BytesOK
<1>7. ReadsOK'
  <2> SUFFICES ASSUME NEW i \in Known, Tag(i) = "READ_INDEP"
               PROVE  /\ Len(result'[i]) = moved'[i]
                      /\ \A k \in 1..moved[i] : \A o, v :
                           o = First(i) + k - 1 /\ v = result[i][k]
                             => LeftAt(i - 1, o, v)'
    BY <1>1, <1>2 DEF ReadsOK, LeftAt
  <2> QED
    BY <1>3 DEF SInv, ReadsOK
<1>8. EofOK' /\ EofsOK'
  <2>1. LargestOf(arrived, eof)'
    BY <1>2 DEF SInv, EofOK, LargestOf, SizeOf, LastCut, Since
  <2>2. EofsOK'
    <3> SUFFICES ASSUME NEW i \in Known, Tag(i) = "GET_EOF_OP", reply[i] = "ok",
                        NEW v, v = result[i][1]
                 PROVE  LargestOf(i - 1, v)'
      BY <1>1, <1>2 DEF EofsOK, LargestOf, SizeOf
    <3> QED
      BY <1>4 DEF SInv, EofsOK
  <2> QED
    BY <2>1, <2>2 DEF EofOK
<1> QED
  BY <1>5, <1>6, <1>7, <1>8 DEF SInv

\* A request arrives: it has touched nothing yet.
LEMMA AddSInv ==
  ASSUME IInv, SInv, add_entry
  PROVE  SInv'
<1>0. PICK m \in Nat : m = arrived + 1
  BY DEF IInv, TypeOK
<1>1. PICK c \in Clients :
        /\ arrived' = m
        /\ req' = [req EXCEPT ![m] = [client |-> c, op |-> inbox[c]]]
        /\ status' = [status EXCEPT ![m] = "pending"] /\ inbox[c] # NoOp
  BY <1>0 DEF add_entry
<1>2. UNCHANGED <<moved, result, reply, subfile, eof>>
  BY DEF add_entry, opVars
<1>3. /\ arrived \in Nat /\ m \in Ids /\ Known = 1..arrived
      /\ Known \subseteq Ids /\ Known' = 1..m /\ m \notin Known
      /\ inbox[c] \in Ops
  <2>1. c \in Senders /\ Senders \in SUBSET Clients
    BY <1>1 DEF Senders
  <2>2. Cardinality(Senders) # 0 /\ Cardinality(Senders) \in Nat
    BY <2>1, SendersFinite, FS_EmptySet
  <2>3. arrived \in Nat /\ MaxRequests \in Nat /\ arrived + 1 <= MaxRequests
    BY <2>2, BoundAssumption DEF IInv, TypeOK, BoundOK
  <2> QED
    BY <1>0, <1>1, <2>1, <2>3 DEF Ids, Known, IInv, TypeOK
<1>4. moved[m] = 0 /\ reply[m] = "none" /\ result[m] = <<>>
  <2>1. status[m] = "none"
    BY <1>0, <1>3 DEF IInv, TypeOK
  <2> QED
    BY <1>3, <2>1 DEF SInv, NotStarted
<1>5. req'[m].op \in OpRecord /\ \A j \in Known : req'[j] = req[j]
  BY <1>1, <1>3, OpsAssumption DEF IInv, TypeOK
<1>6. /\ \A j \in Known : /\ Tag(j)' = Tag(j) /\ First(j)' = First(j)
                          /\ Cut(j)' <=> Cut(j)
      /\ \A j \in Known : \A o : Touches(j, o)' <=> Touches(j, o)
  BY <1>2, <1>5 DEF Tag, First, Cut, Touches, Stores
<1>7. ~Cut(m)' /\ moved'[m] = 0 /\ \A o \in Nat : ~Touches(m, o)'
  <2>1. moved'[m] = 0 /\ ~Cut(m)'
    BY <1>2, <1>4 DEF Cut
  <2>2. First(m)' \in Nat
    BY <1>5 DEF First, OpRecord
  <2>3. \A o \in Nat : ~Stores(m, o)'
    BY <2>1, <2>2 DEF Stores
  <2> QED
    BY <2>1, <2>3 DEF Touches
<1>8. \A n \in 0..arrived : \A o, v : LeftAt(n, o, v)' <=> LeftAt(n, o, v)
  <2> SUFFICES ASSUME NEW n \in 0..arrived, NEW o
               PROVE  \A v : LeftAt(n, o, v)' <=> LeftAt(n, o, v)
    OBVIOUS
  <2>1. 1..n \subseteq Known
    BY <1>3
  <2> QED
    BY <1>6, <2>1, SameLeft
<1>9. \A n \in 0..arrived : \A v : LargestOf(n, v)' <=> LargestOf(n, v)
  <2> SUFFICES ASSUME NEW n \in 0..arrived
               PROVE  \A v : LargestOf(n, v)' <=> LargestOf(n, v)
    OBVIOUS
  <2>1. 1..n \subseteq Known
    BY <1>3
  <2> QED
    BY <1>2, <1>5, <1>6, <2>1, SameSizes
<1>10. NotStarted'
  BY <1>1, <1>2, <1>3, <1>4 DEF IInv, TypeOK, SInv, NotStarted
<1>11. MovedOK'
  <2> SUFFICES ASSUME NEW i \in Known'
               PROVE  /\ moved'[i] <= req'[i].op.len
                      /\ Tag(i)' \in Transfers /\ reply'[i] = "ok"
                           => moved'[i] = req'[i].op.len
    BY DEF MovedOK
  <2>1. CASE i = m
    BY <1>2, <1>4, <1>5, <1>7, <2>1 DEF OpRecord
  <2>2. CASE i # m
    <3>1. i \in Known
      BY <1>0, <1>3, <2>2
    <3> QED
      BY <1>2, <1>5, <1>6, <3>1 DEF SInv, MovedOK
  <2> QED
    BY <2>1, <2>2
<1>12. BytesOK'
  <2> SUFFICES ASSUME NEW o \in 0..FileSize - 1, NEW n, n = arrived',
                      NEW v, v = subfile'[o]
               PROVE  LeftAt(n, o, v)'
    BY DEF BytesOK, LeftAt
  <2>0. n = m /\ v = subfile[o]
    BY <1>1, <1>2
  <2>1. LeftAt(arrived, o, v)
    BY <2>0 DEF SInv, BytesOK
  <2>2. 1..m = Known \cup {m} /\ o \in Nat
    BY <1>0, <1>3, BoundAssumption
  <2>3. ~Touches(m, o)'
    BY <1>7, <2>2
  <2> QED
    <3>1. CASE v = 0 /\ \A j \in 1..arrived : ~Touches(j, o)
      BY <1>3, <1>6, <2>0, <2>2, <2>3, <3>1 DEF LeftAt
    <3>2. CASE \E j \in 1..arrived :
                 /\ Touches(j, o)
                 /\ \A k \in 1..arrived : Touches(k, o) => k <= j
                 /\ v = IF Cut(j) THEN 0 ELSE j
      <4>1. PICK j \in Known : /\ Touches(j, o)
                               /\ \A k \in Known : Touches(k, o) => k <= j
                               /\ v = IF Cut(j) THEN 0 ELSE j
        BY <1>3, <3>2
      <4>2. Touches(j, o)' /\ v = IF Cut(j)' THEN 0 ELSE j
        BY <1>6, <4>1
      <4>3. \A k \in 1..m : Touches(k, o)' => k <= j
        BY <1>6, <2>2, <2>3, <4>1
      <4> QED
        BY <2>0, <2>2, <4>2, <4>3 DEF LeftAt
    <3> QED
      BY <2>1, <3>1, <3>2 DEF LeftAt
<1>13. ReadsOK'
  <2> SUFFICES ASSUME NEW i \in Known', Tag(i)' = "READ_INDEP"
               PROVE  /\ Len(result'[i]) = moved'[i]
                      /\ \A k \in 1..moved'[i] : \A o, v :
                           o = First(i)' + k - 1 /\ v = result'[i][k]
                             => LeftAt(i - 1, o, v)'
    BY DEF ReadsOK, LeftAt
  <2>1. CASE i = m
    BY <1>2, <1>4, <2>1
  <2>2. CASE i # m
    <3>1. i \in Known /\ i - 1 \in 0..arrived
      BY <1>0, <1>3, <2>2
    <3> QED
      BY <1>2, <1>6, <1>8, <3>1 DEF SInv, ReadsOK
  <2> QED
    BY <2>1, <2>2
<1>14. EofOK'
  <2>1. LargestOf(arrived, eof)
    BY DEF SInv, EofOK
  <2>2. 1..m = Known \cup {m} /\ arrived \in 0..arrived
    BY <1>0, <1>3
  <2>3. \A j \in Known : /\ LastCut(m, j)' <=> LastCut(arrived, j)
                         /\ Since(m, j)' <=> Since(arrived, j)
    <3> SUFFICES ASSUME NEW j \in Known
                 PROVE  /\ LastCut(m, j)' <=> LastCut(arrived, j)
                        /\ Since(m, j)' <=> Since(arrived, j)
      OBVIOUS
    <3>1. LastCut(m, j)' <=> LastCut(arrived, j)
      BY <1>3, <1>6, <1>7, <2>2 DEF LastCut
    <3>2. Since(m, j)' <=> Since(arrived, j)
      BY <1>2, <1>3, <1>6, <1>7, <2>2 DEF Since
    <3> QED
      BY <3>1, <3>2
  <2>4. ~LastCut(m, m)' /\ ~Since(m, m)'
    BY <1>7 DEF LastCut, Since
  <2>5. \A s : SizeOf(m, s)' <=> SizeOf(arrived, s)
    BY <1>2, <1>3, <1>5, <1>6, <2>2, <2>3, <2>4 DEF SizeOf
  <2>6. \A v : v = eof => LargestOf(m, v)'
    BY <2>1, <2>5 DEF LargestOf
  <2> QED
    BY <1>1, <1>2, <2>6 DEF EofOK, LargestOf, SizeOf, LastCut, Since
<1>15. EofsOK'
  <2> SUFFICES ASSUME NEW i \in Known', Tag(i)' = "GET_EOF_OP", reply'[i] = "ok",
                      NEW v, v = result'[i][1]
               PROVE  LargestOf(i - 1, v)'
    BY DEF EofsOK, LargestOf, SizeOf
  <2>1. i # m
    BY <1>2, <1>4
  <2>2. i \in Known /\ i - 1 \in 0..arrived
    BY <1>0, <1>3, <2>1
  <2> QED
    BY <1>2, <1>6, <1>9, <2>2 DEF SInv, EofsOK
<1> QED
  BY <1>10, <1>11, <1>12, <1>13, <1>14, <1>15 DEF SInv

\* What a step of the entry in a worker's hands leaves as it was: the other
\* entries, and what those before it left.  An entry behind it that has read
\* or asked already is one that may pass it.
LEMMA OthersSInv ==
  ASSUME IInv, SInv, NEW i \in InProgress, UNCHANGED <<arrived, req, status>>,
         \A j \in Ids \ {i} : /\ moved'[j] = moved[j] /\ result'[j] = result[j]
                              /\ reply'[j] = reply[j],
         Barrier(i) \/ (Cut(i)' <=> Cut(i)),
         \A o \in Nat : \/ Barrier(i)
                        \/ Touches(i, o)' <=> Touches(i, o)
                        \/ Tag(i) = "WRITE_INDEP" /\ First(i) <= o /\ o < Beyond(i)
  PROVE  /\ Known' = Known /\ NotStarted'
         /\ \A j \in Known : Tag(j)' = Tag(j) /\ First(j)' = First(j)
         /\ \A j \in Known \ {i} : /\ Cut(j)' <=> Cut(j)
                                   /\ \A o : Touches(j, o)' <=> Touches(j, o)
         /\ \A n \in 0..i - 1 : \A o, v : LeftAt(n, o, v)' <=> LeftAt(n, o, v)
         /\ \A n \in 0..i - 1 : \A v : LargestOf(n, v)' <=> LargestOf(n, v)
         /\ moved'[i] <= req[i].op.len /\
            (Tag(i) \in Transfers /\ reply'[i] = "ok" => moved'[i] = req[i].op.len)
              => MovedOK'
         /\ (Tag(i) = "READ_INDEP" =>
               /\ Len(result'[i]) = moved'[i]
               /\ \A k \in 1..moved'[i] : \A o, v :
                    o = First(i) + k - 1 /\ v = result'[i][k]
                      => LeftAt(i - 1, o, v)')
              => ReadsOK'
         /\ (Tag(i) = "GET_EOF_OP" /\ reply'[i] = "ok" =>
               \A v : v = result'[i][1] => LargestOf(i - 1, v)')
              => EofsOK'
<1>1. i \in Known /\ status[i] = "in_progress" /\ i \in Ids /\ i \in Nat
  BY KnownEntry DEF InProgress
<1>2. /\ Known' = Known
      /\ \A j \in Known : /\ j \in Ids /\ j \in Nat /\ req'[j] = req[j]
                          /\ Tag(j)' = Tag(j) /\ First(j)' = First(j)
  BY KnownEntry DEF Known, Tag, First
<1>3. \A j \in Known \ {i} : /\ Cut(j)' <=> Cut(j)
                             /\ \A o : Touches(j, o)' <=> Touches(j, o)
  BY <1>2 DEF Cut, Touches, Stores
<1>4. NotStarted'
  BY <1>1 DEF SInv, NotStarted
<1>5. \A n \in 0..i - 1 : 1..n \subseteq Known \ {i}
  BY KnownEntry, <1>1 DEF Known
<1>6. \A n \in 0..i - 1 : \A o, v : LeftAt(n, o, v)' <=> LeftAt(n, o, v)
  <2> SUFFICES ASSUME NEW n \in 0..i - 1, NEW o
               PROVE  \A v : LeftAt(n, o, v)' <=> LeftAt(n, o, v)
    OBVIOUS
  <2> QED
    BY <1>3, <1>5, SameLeft
<1>7. \A n \in 0..i - 1 : \A v : LargestOf(n, v)' <=> LargestOf(n, v)
  <2> SUFFICES ASSUME NEW n \in 0..i - 1
               PROVE  \A v : LargestOf(n, v)' <=> LargestOf(n, v)
    OBVIOUS
  <2>1. \A j \in 1..n : /\ req'[j] = req[j] /\ moved'[j] = moved[j]
                        /\ Cut(j)' <=> Cut(j)
    BY <1>2, <1>3, <1>5
  <2> QED
    BY <2>1, SameSizes
<1>8. ASSUME NEW j \in Known, j # i, j - 1 \notin 0..i - 1
      PROVE  j > i /\ 1..j - 1 \subseteq Known
  BY <1>1, <1>8, KnownEntry
<1>9. ASSUME NEW j \in Known \ {i}, Tag(j) = "READ_INDEP", NEW k \in 1..moved[j],
             NEW o, o = First(j) + k - 1, NEW v, v = result[j][k]
      PROVE  LeftAt(j - 1, o, v)'
  <2>1. LeftAt(j - 1, o, v)
    BY <1>9 DEF SInv, ReadsOK
  <2>2. CASE j - 1 \in 0..i - 1
    BY <1>6, <2>1, <2>2
  <2>3. CASE j - 1 \notin 0..i - 1
    <3>1. j > i /\ 1..j - 1 \subseteq Known
      BY <1>8, <2>3
    <3>2. MayPass(j, i)
      <4>1. moved[j] > 0
        BY <1>9, KnownEntry
      <4> QED
        BY <1>1, <3>1, <4>1, EarlierDone DEF SInv
    <3>3. ~Barrier(i)
      BY <3>2 DEF MayPass
    <3>4. o \in Nat /\ First(j) <= o /\ o < Beyond(j)
      BY <1>9, KnownEntry DEF SInv, MovedOK
    <3>5. Touches(i, o)' <=> Touches(i, o)
      BY <1>1, <3>2, <3>3, <3>4, CommonByte
    <3>6. \A l \in 1..j - 1 : /\ Touches(l, o)' <=> Touches(l, o)
                              /\ Cut(l)' <=> Cut(l)
      BY <1>3, <3>1, <3>3, <3>5
    <3> QED
      BY <2>1, <3>6, SameLeft
  <2> QED
    BY <2>2, <2>3
<1>10. ASSUME NEW j \in Known \ {i}, Tag(j) = "GET_EOF_OP", reply[j] = "ok",
              NEW v, v = result[j][1]
       PROVE  LargestOf(j - 1, v)'
  <2>1. LargestOf(j - 1, v)
    BY <1>10 DEF SInv, EofsOK
  <2>2. CASE j - 1 \in 0..i - 1
    BY <1>7, <2>1, <2>2
  <2>3. CASE j - 1 \notin 0..i - 1
    <3>1. j > i /\ ~MayPass(j, i)
      BY <1>8, <1>10, <2>3 DEF MayPass, Barrier
    <3> QED
      BY <1>10, <3>1, EarlierDone DEF SInv
  <2> QED
    BY <2>2, <2>3
<1>11. ASSUME moved'[i] <= req[i].op.len,
              Tag(i) \in Transfers /\ reply'[i] = "ok" => moved'[i] = req[i].op.len
       PROVE  MovedOK'
  BY <1>2, <1>11 DEF SInv, MovedOK
<1>12. ASSUME Tag(i) = "READ_INDEP" =>
                /\ Len(result'[i]) = moved'[i]
                /\ \A k \in 1..moved'[i] : \A o, v :
                     o = First(i) + k - 1 /\ v = result'[i][k]
                       => LeftAt(i - 1, o, v)'
       PROVE  ReadsOK'
  <2> SUFFICES ASSUME NEW j \in Known', Tag(j)' = "READ_INDEP"
               PROVE  /\ Len(result'[j]) = moved'[j]
                      /\ \A k \in 1..moved'[j] : \A o, v :
                           o = First(j)' + k - 1 /\ v = result'[j][k]
                             => LeftAt(j - 1, o, v)'
    BY DEF ReadsOK, LeftAt
  <2>0. j \in Known /\ Tag(j) = "READ_INDEP" /\ First(j)' = First(j)
    BY <1>2
  <2>1. CASE j = i
    BY <1>12, <2>0, <2>1
  <2>2. CASE j # i
    <3>1. moved'[j] = moved[j] /\ result'[j] = result[j]
      BY <1>2, <2>0, <2>2
    <3>2. Len(result[j]) = moved[j]
      BY <2>0 DEF SInv, ReadsOK
    <3> QED
      BY <1>9, <2>0, <2>2, <3>1, <3>2
  <2> QED
    BY <2>1, <2>2
<1>13. ASSUME Tag(i) = "GET_EOF_OP" /\ reply'[i] = "ok" =>
                \A v : v = result'[i][1] => LargestOf(i - 1, v)'
       PROVE  EofsOK'
  <2> SUFFICES ASSUME NEW j \in Known, Tag(j) = "GET_EOF_OP", reply'[j] = "ok",
                      NEW v, v = result'[j][1]
               PROVE  LargestOf(j - 1, v)'
    BY <1>2 DEF EofsOK, LargestOf, SizeOf
  <2> QED
    BY <1>2, <1>10, <1>13
<1> QED
  BY <1>2, <1>3, <1>4, <1>6, <1>7, <1>11, <1>12, <1>13

\* A later entry that has touched a byte may pass the one in hand.
LEMMA LaterTouch ==
  ASSUME IInv, SInv, NEW i \in InProgress, NEW j \in Known, j > i
  PROVE  /\ ~Cut(j)
         /\ Barrier(i) => moved[j] = 0 /\ \A o \in Nat : ~Touches(j, o)
         /\ \A o \in Nat : First(i) <= o /\ o < Beyond(i) /\ Touches(j, o) =>
              Tag(i) # "WRITE_INDEP" /\ Tag(j) # "WRITE_INDEP"
<1>1. i \in Known
  BY DEF InProgress
<1>2. ~Cut(j)
  BY LaterWaits DEF SInv, Cut, MayPass, Barrier
<1>3. Barrier(i) => moved[j] = 0 /\ \A o \in Nat : ~Touches(j, o)
  BY LaterWaits DEF SInv, MayPass
<1>4. ASSUME NEW o \in Nat, First(i) <= o, o < Beyond(i), Touches(j, o),
             Tag(i) = "WRITE_INDEP" \/ Tag(j) = "WRITE_INDEP"
      PROVE  FALSE
  <2>1. First(j) <= o /\ o < First(j) + moved[j]
    BY <1>2, <1>4 DEF Touches, Stores
  <2>2. o < Beyond(j)
    BY <2>1, KnownEntry DEF SInv, MovedOK
  <2>3. ~MayPass(j, i)
    BY <1>1, <1>4, <2>1, <2>2, CommonByte
  <2> QED
    BY <1>4, <2>3, LaterWaits DEF SInv
<1> QED
  BY <1>2, <1>3, <1>4

\* A client is told how its transfer goes, or is told nothing.
LEMMA AnswerSInv ==
  ASSUME IInv, SInv, NEW i \in InProgress,
         UNCHANGED <<arrived, req, status, moved, result, subfile, eof>>,
         \A j \in Ids \ {i} : reply'[j] = reply[j],
         reply'[i] = reply[i] \/ Tag(i) \in Transfers,
         Tag(i) \in Transfers /\ reply'[i] = "ok" => moved[i] = req[i].op.len
  PROVE  SInv'
<1>1. i \in Known /\ i \in Ids
  BY KnownEntry DEF InProgress
<1>2. /\ Cut(i)' <=> Cut(i)
      /\ \A o : Touches(i, o)' <=> Touches(i, o)
  BY DEF Cut, Touches, Stores, Tag, First, Transfers
<1>3. /\ Known' = Known /\ NotStarted'
      /\ \A j \in Known : /\ Cut(j)' <=> Cut(j)
                          /\ \A o : Touches(j, o)' <=> Touches(j, o)
      /\ \A n \in 0..i - 1 : \A o, v : LeftAt(n, o, v)' <=> LeftAt(n, o, v)
      /\ \A n \in 0..i - 1 : \A v : LargestOf(n, v)' <=> LargestOf(n, v)
  BY <1>2, OthersSInv
<1>4. i - 1 \in 0..i - 1 /\ moved[i] <= req[i].op.len
  BY <1>1, KnownEntry DEF SInv, MovedOK
<1>5. MovedOK'
  BY <1>2, <1>4, OthersSInv
<1>6. ReadsOK'
  <2>1. ASSUME Tag(i) = "READ_INDEP"
        PROVE  /\ Len(result'[i]) = moved'[i]
               /\ \A k \in 1..moved'[i] : \A o, v :
                    o = First(i) + k - 1 /\ v = result'[i][k]
                      => LeftAt(i - 1, o, v)'
    BY <1>1, <1>3, <1>4, <2>1 DEF SInv, ReadsOK
  <2> QED
    BY <1>2, <2>1, OthersSInv
<1>7. EofsOK'
  <2>1. ASSUME Tag(i) = "GET_EOF_OP", reply'[i] = "ok", NEW v, v = result'[i][1]
        PROVE  LargestOf(i - 1, v)'
    BY <1>1, <1>3, <1>4, <2>1 DEF SInv, EofsOK, Transfers
  <2> QED
    BY <1>2, <2>1, OthersSInv
<1>8. BytesOK'
  <2> SUFFICES ASSUME NEW o \in 0..FileSize - 1, NEW n, n = arrived',
                      NEW v, v = subfile'[o]
               PROVE  LeftAt(n, o, v)'
    BY DEF BytesOK, LeftAt
  <2>1. LeftAt(n, o, v) /\ 1..n = Known
    BY DEF SInv, BytesOK, Known
  <2> QED
    BY <1>3, <2>1, SameLeft
<1>9. EofOK'
  <2> SUFFICES ASSUME NEW n, n = arrived', NEW v, v = eof'
               PROVE  LargestOf(n, v)'
    BY DEF EofOK, LargestOf, SizeOf, LastCut, Since
  <2>1. LargestOf(n, v) /\ 1..n = Known
    BY DEF SInv, EofOK, Known
  <2> QED
    BY <1>3, <2>1, SameSizes
<1> QED
  BY <1>3, <1>5, <1>6, <1>7, <1>8, <1>9 DEF SInv

\* The byte an entry moves next is one of its own and one of the subfile.
LEMMA ByteInHand ==
  ASSUME IInv, NEW i \in Known, NEW p, p = First(i) + moved[i], p < Beyond(i),
         moved' = [moved EXCEPT ![i] = @ + 1]
  PROVE  /\ moved'[i] = moved[i] + 1 /\ moved[i] + 1 <= req[i].op.len
         /\ First(i) <= p /\ p \in 0..FileSize - 1
<1>1. /\ moved[i] \in Nat /\ First(i) \in Nat /\ req[i].op.len \in Nat
      /\ Beyond(i) = First(i) + req[i].op.len /\ Beyond(i) <= FileSize
      /\ FileSize \in Nat
  BY KnownEntry, BoundAssumption
<1>2. moved'[i] = moved[i] + 1
  BY KnownEntry DEF IInv, TypeOK
<1>3. \A f, m, n, z \in Nat : f + m < f + n /\ f + n <= z =>
        m + 1 <= n /\ f <= f + m /\ f + m \in 0..z - 1
  OBVIOUS
<1> QED
  BY <1>1, <1>2, <1>3

\* A byte is read: what is there is what the entries before this one left.
LEMMA ReadSInv ==
  ASSUME IInv, SInv, NEW i \in InProgress, Tag(i) = "READ_INDEP",
         NEW p, p = First(i) + moved[i], p < Beyond(i), reply[i] = "ack",
         UNCHANGED <<arrived, req, status, reply, subfile, eof>>,
         moved' = [moved EXCEPT ![i] = @ + 1],
         result' = [result EXCEPT ![i] = Append(@, subfile[p])]
  PROVE  SInv'
<1>1. i \in Known /\ i \in Ids /\ moved[i] \in Nat /\ First(i) \in Nat /\ p \in Nat
  BY KnownEntry DEF InProgress
<1>1a. /\ moved'[i] = moved[i] + 1 /\ moved[i] + 1 <= req[i].op.len
       /\ First(i) <= p /\ p \in 0..FileSize - 1
  BY <1>1, ByteInHand
<1>2. /\ moved'[i] = moved[i] + 1 /\ result'[i] = Append(result[i], subfile[p])
      /\ \A j \in Ids \ {i} : moved'[j] = moved[j] /\ result'[j] = result[j]
  BY <1>1 DEF IInv, TypeOK
<1>3. /\ Cut(i)' <=> Cut(i)
      /\ \A o : Touches(i, o)' <=> Touches(i, o)
  BY DEF Cut, Touches, Stores, Tag, First
<1>4. /\ Known' = Known /\ NotStarted'
      /\ \A j \in Known : /\ Cut(j)' <=> Cut(j)
                          /\ \A o : Touches(j, o)' <=> Touches(j, o)
      /\ \A n \in 0..i - 1 : \A o, v : LeftAt(n, o, v)' <=> LeftAt(n, o, v)
  BY <1>2, <1>3, OthersSInv
<1>5. MovedOK'
  <2>1. moved'[i] <= req[i].op.len
    BY <1>1a
  <2> QED
    BY <1>2, <1>3, <2>1, OthersSInv
<1>6. LeftAt(i - 1, p, subfile[p])
  <2>1. /\ arrived \in Nat /\ i - 1 \in Nat /\ i - 1 <= arrived
        /\ 1..arrived = Known /\ p \in 0..FileSize - 1
    <3>1. i <= arrived /\ arrived \in Nat /\ i - 1 \in Nat /\ i \in Nat
      BY <1>1, KnownEntry
    <3> QED
      BY <1>1a, <3>1 DEF Known
  <2>2. LeftAt(arrived, p, subfile[p])
    BY <2>1 DEF SInv, BytesOK
  <2>3. ASSUME NEW j \in 1..arrived, Touches(j, p) PROVE j <= i - 1
    <3>1. j # i
      BY <2>3 DEF Touches, Stores, Cut
    <3>2. ~(j > i)
      <4>1. ASSUME j > i PROVE FALSE
        <5>1. Tag(j) = "WRITE_INDEP"
          BY <2>1, <2>3, <4>1, LaterTouch DEF Touches, Stores
        <5> QED
          BY <1>1a, <1>1, <2>1, <2>3, <4>1, <5>1, LaterTouch
      <4> QED
        BY <4>1
    <3> QED
      BY <1>1, <2>1, <3>1, <3>2, KnownEntry
  <2> QED
    BY <2>1, <2>2, <2>3, LeftBefore
<1>7. ReadsOK'
  <2>1. i - 1 \in 0..i - 1 /\ Len(result[i]) = moved[i] /\ result[i] \in Seq(Nat)
    BY <1>1, KnownEntry DEF SInv, ReadsOK, IInv, TypeOK
  <2>2. Len(result'[i]) = moved'[i]
    BY <1>2, <2>1
  <2>3. ASSUME NEW k \in 1..moved'[i], NEW o, NEW v, o = First(i) + k - 1,
               v = result'[i][k]
        PROVE  LeftAt(i - 1, o, v)'
    <3>1. CASE k = moved[i] + 1
      <4>1. o = p /\ v = subfile[p]
        BY <1>1, <1>2, <2>1, <2>3, <3>1
      <4> QED
        BY <1>4, <1>6, <2>1, <4>1
    <3>2. CASE k # moved[i] + 1
      <4>1. k \in 1..moved[i] /\ v = result[i][k]
        BY <1>1, <1>2, <2>1, <2>3, <3>2
      <4>2. LeftAt(i - 1, o, v)
        BY <1>1, <2>3, <4>1 DEF SInv, ReadsOK
      <4> QED
        BY <1>4, <2>1, <4>2
    <3> QED
      BY <3>1, <3>2
  <2> QED
    BY <1>2, <1>3, <2>2, <2>3, OthersSInv
<1>8. EofsOK'
  BY <1>2, <1>3, OthersSInv
<1>9. BytesOK'
  <2> SUFFICES ASSUME NEW o \in 0..FileSize - 1, NEW n, n = arrived',
                      NEW v, v = subfile'[o]
               PROVE  LeftAt(n, o, v)'
    BY DEF BytesOK, LeftAt
  <2>1. LeftAt(n, o, v) /\ 1..n = Known
    BY DEF SInv, BytesOK, Known
  <2> QED
    BY <1>4, <2>1, SameLeft
<1>10. EofOK'
  <2> SUFFICES ASSUME NEW n, n = arrived', NEW v, v = eof'
               PROVE  LargestOf(n, v)'
    BY DEF EofOK, LargestOf, SizeOf, LastCut, Since
  <2>1. LargestOf(n, v) /\ 1..n = Known
    BY DEF SInv, EofOK, Known
  <2>2. \A j \in Known : Tag(j) = "WRITE_INDEP" => moved'[j] = moved[j]
    BY <1>2, KnownEntry
  <2> QED
    BY <1>4, <2>1, <2>2, SameSizes
<1> QED
  BY <1>4, <1>5, <1>7, <1>8, <1>9, <1>10 DEF SInv

\* A byte is written: no entry behind this one has touched it.
LEMMA WriteSInv ==
  ASSUME IInv, SInv, NEW i \in InProgress, Tag(i) = "WRITE_INDEP",
         NEW p, p = First(i) + moved[i], p < Beyond(i), reply[i] = "ack",
         UNCHANGED <<arrived, req, status, reply, result>>,
         moved' = [moved EXCEPT ![i] = @ + 1],
         subfile' = [subfile EXCEPT ![p] = i],
         eof' = IF eof <= p THEN p + 1 ELSE eof
  PROVE  SInv'
<1>1. /\ i \in Known /\ i \in Ids /\ i \in Nat /\ i <= arrived /\ arrived \in Nat
      /\ moved[i] \in Nat /\ First(i) \in Nat /\ 1..arrived = Known
      /\ \A k \in Known : /\ k \in Nat /\ (k <= i <=> ~(k > i))
                          /\ k < i <=> k # i /\ ~(k > i)
  <2>1. i \in Known
    BY DEF InProgress
  <2>2. \A k \in Known : k \in Nat
    BY KnownEntry
  <2> QED
    BY <2>1, <2>2, KnownEntry DEF Known
<1>2. /\ moved'[i] = moved[i] + 1 /\ moved[i] + 1 <= req[i].op.len
      /\ First(i) <= p /\ p \in 0..FileSize - 1 /\ p \in Nat
      /\ \A j \in Ids \ {i} : moved'[j] = moved[j]
  <2>1. /\ moved'[i] = moved[i] + 1 /\ moved[i] + 1 <= req[i].op.len
        /\ First(i) <= p /\ p \in 0..FileSize - 1
    BY <1>1, ByteInHand
  <2>2. p \in Nat
    BY <2>1, BoundAssumption
  <2>3. \A j \in Ids \ {i} : moved'[j] = moved[j]
    BY DEF IInv, TypeOK
  <2> QED
    BY <2>1, <2>2, <2>3
<1>3. ~Cut(i) /\ ~Cut(i)' /\ Tag(i)' = Tag(i) /\ First(i)' = First(i)
  BY DEF Cut, Tag, First
<1>4. \A o \in Nat : Touches(i, o)' <=> Touches(i, o) \/ o = p
  <2>1. \A o \in Nat : Stores(i, o)' <=> Stores(i, o) \/ o = p
    <3>1. \A f, m, o \in Nat :
            f <= o /\ o < f + (m + 1) <=> (f <= o /\ o < f + m) \/ o = f + m
      OBVIOUS
    <3> QED
      BY <1>1, <1>2, <1>3, <3>1 DEF Stores
  <2> QED
    BY <1>3, <2>1 DEF Touches
<1>5. /\ Known' = Known /\ NotStarted'
      /\ \A j \in Known : Tag(j)' = Tag(j) /\ First(j)' = First(j)
      /\ \A j \in Known \ {i} : /\ Cut(j)' <=> Cut(j)
                                /\ \A o : Touches(j, o)' <=> Touches(j, o)
  BY <1>2, <1>3, <1>4, OthersSInv
<1>6. \A j \in Known : j > i => ~Cut(j) /\ ~Touches(j, p)
  BY <1>2, LaterTouch
<1>7. MovedOK'
  BY <1>2, <1>3, <1>4, OthersSInv
<1>8. ReadsOK' /\ EofsOK'
  BY <1>2, <1>3, <1>4, OthersSInv
<1>9. BytesOK'
  <2> SUFFICES ASSUME NEW o \in 0..FileSize - 1, NEW n, n = arrived',
                      NEW v, v = subfile'[o]
               PROVE  LeftAt(n, o, v)'
    BY DEF BytesOK, LeftAt
  <2>1. 1..n = Known /\ o \in Nat
    BY <1>1, BoundAssumption
  <2>2. CASE o = p
    <3>1. v = i
      BY <1>2, <2>2 DEF IInv, TypeOK
    <3>2. Touches(i, o)'
      BY <1>4, <2>1, <2>2
    <3>3. \A k \in 1..n : Touches(k, o)' => k <= i
      BY <1>1, <1>5, <1>6, <2>1, <2>2
    <3> QED
      BY <1>1, <1>3, <2>1, <3>1, <3>2, <3>3 DEF LeftAt
  <2>3. CASE o # p
    <3>1. v = subfile[o]
      BY <1>2, <2>3 DEF IInv, TypeOK
    <3>2. LeftAt(n, o, v)
      BY <3>1 DEF SInv, BytesOK
    <3>3. \A j \in 1..n : /\ Touches(j, o)' <=> Touches(j, o)
                          /\ Cut(j)' <=> Cut(j)
      BY <1>3, <1>4, <1>5, <2>1, <2>3
    <3> QED
      BY <3>2, <3>3, SameLeft
  <2> QED
    BY <2>2, <2>3
<1>10. EofOK'
  <2> SUFFICES ASSUME NEW n, n = arrived', NEW v, v = eof'
               PROVE  LargestOf(n, v)'
    BY DEF EofOK, LargestOf, SizeOf, LastCut, Since
  <2>1. LargestOf(n, eof) /\ 1..n = Known
    BY <1>1 DEF SInv, EofOK
  <2>2. \A j \in Known : LastCut(n, j)' <=> LastCut(n, j)
    BY <1>3, <1>5, <2>1 DEF LastCut
  <2>3. \A j \in Known \ {i} : Since(n, j)' <=> Since(n, j)
    BY <1>2, <1>3, <1>5, <2>1, KnownEntry DEF Since
  <2>4. Since(n, i)'
    <3>1. \A k \in Known : Cut(k)' => k < i
      BY <1>1, <1>3, <1>5, <1>6
    <3> QED
      BY <1>1, <1>2, <1>3, <2>1, <3>1 DEF Since
  <2>5. First(i)' + moved'[i] = p + 1
    BY <1>1, <1>2, <1>3
  <2>6. SizeOf(n, p + 1)'
    BY <1>1, <2>1, <2>4, <2>5 DEF SizeOf
  <2>7. \A s : SizeOf(n, s) => s \in Nat
    <3>1. \A j \in Known : req[j].op.len \in Nat /\ First(j) + moved[j] \in Nat
      BY KnownEntry
    <3> SUFFICES ASSUME NEW s, SizeOf(n, s) PROVE s \in Nat
      OBVIOUS
    <3>2. s = 0 \/ \E j \in Known : s = req[j].op.len \/ s = First(j) + moved[j]
      BY <2>1 DEF SizeOf
    <3> QED
      BY <3>1, <3>2
  <2>8. \A s : SizeOf(n, s)' => SizeOf(n, s) \/ s = p + 1
    BY <1>2, <1>5, <2>1, <2>2, <2>3, <2>5, KnownEntry DEF SizeOf, LastCut
  <2>9. \A s : SizeOf(n, s) /\ s # p => SizeOf(n, s)'
    <3> SUFFICES ASSUME NEW s, SizeOf(n, s), s # p PROVE SizeOf(n, s)'
      OBVIOUS
    <3>1. CASE s = 0
      BY <3>1 DEF SizeOf
    <3>2. CASE \E j \in Known : LastCut(n, j) /\ s = req[j].op.len
      BY <2>1, <2>2, <3>2 DEF SizeOf
    <3>3. CASE \E j \in Known : Since(n, j) /\ s = First(j) + moved[j]
      BY <1>2, <1>5, <2>1, <2>3, <3>3, KnownEntry DEF SizeOf
    <3> QED
      BY <2>1, <3>1, <3>2, <3>3 DEF SizeOf
  <2>10. eof \in Nat /\ \A s : SizeOf(n, s) => s <= eof
    BY <2>1, <2>7 DEF LargestOf
  <2>11. CASE eof <= p
    <3>1. v = p + 1
      BY <2>11
    <3>2. \A s : SizeOf(n, s)' => s <= v
      BY <1>2, <2>7, <2>8, <2>10, <2>11, <3>1
    <3> QED
      BY <2>6, <3>1, <3>2 DEF LargestOf
  <2>12. CASE ~(eof <= p)
    <3>1. v = eof /\ eof # p /\ p + 1 <= eof
      BY <1>2, <2>10, <2>12
    <3>2. SizeOf(n, v)'
      BY <2>1, <2>9, <3>1 DEF LargestOf
    <3>3. \A s : SizeOf(n, s)' => s <= v
      BY <2>8, <2>10, <3>1
    <3> QED
      BY <3>2, <3>3 DEF LargestOf
  <2> QED
    BY <2>11, <2>12
<1> QED
  BY <1>5, <1>7, <1>8, <1>9, <1>10 DEF SInv

\* The subfile is cut: everything before has run, and nothing behind.
LEMMA TruncateSInv ==
  ASSUME IInv, SInv, NEW i \in InProgress, Tag(i) = "TRUNC_OP",
         UNCHANGED <<arrived, req, status, moved, result>>,
         subfile' = [o \in DOMAIN subfile |->
                       IF o < req[i].op.len THEN subfile[o] ELSE 0],
         eof' = req[i].op.len,
         reply' = [reply EXCEPT ![i] = "ok"]
  PROVE  SInv'
<1>1. /\ i \in Known /\ i \in Ids /\ i \in Nat /\ i <= arrived
      /\ 1..arrived = Known /\ req[i].op.len \in Nat
      /\ \A k \in Known : /\ k \in Nat /\ (k <= i <=> ~(k > i))
                          /\ k < i <=> k # i /\ ~(k > i)
  <2>1. i \in Known
    BY DEF InProgress
  <2>2. \A k \in Known : k \in Nat
    BY KnownEntry
  <2> QED
    BY <2>1, <2>2, KnownEntry DEF Known
<1>2. Barrier(i) /\ Cut(i)' /\ Tag(i)' = Tag(i) /\ req' = req
  BY <1>1 DEF Barrier, Cut, Tag, IInv, TypeOK
<1>3. \A j \in Ids \ {i} : reply'[j] = reply[j]
  BY DEF IInv, TypeOK
<1>4. /\ Known' = Known /\ NotStarted'
      /\ \A j \in Known \ {i} : /\ Cut(j)' <=> Cut(j)
                                /\ \A o : Touches(j, o)' <=> Touches(j, o)
  BY <1>2, <1>3, OthersSInv
<1>5. \A j \in Known : j > i =>
        ~Cut(j) /\ moved[j] = 0 /\ \A o \in Nat : ~Touches(j, o)
  BY <1>2, LaterTouch
<1>6. MovedOK'
  BY <1>1, <1>2, <1>3, OthersSInv DEF SInv, MovedOK, Transfers
<1>7. ReadsOK' /\ EofsOK'
  BY <1>2, <1>3, OthersSInv
<1>8. BytesOK'
  <2> SUFFICES ASSUME NEW o \in 0..FileSize - 1, NEW n, n = arrived',
                      NEW v, v = subfile'[o]
               PROVE  LeftAt(n, o, v)'
    BY DEF BytesOK, LeftAt
  <2>1. 1..n = Known /\ o \in Nat /\ o \in DOMAIN subfile
    BY <1>1, BoundAssumption DEF IInv, TypeOK
  <2>2. \A k \in 1..n : Touches(k, o)' => k <= i
    BY <1>1, <1>4, <1>5, <2>1
  <2>3. CASE req[i].op.len <= o
    <3>1. v = 0
      BY <1>1, <2>1, <2>3
    <3>2. Touches(i, o)'
      BY <1>2, <2>3 DEF Touches
    <3> QED
      BY <1>1, <1>2, <2>1, <2>2, <3>1, <3>2 DEF LeftAt
  <2>4. CASE ~(req[i].op.len <= o)
    <3>1. v = subfile[o]
      BY <1>1, <2>1, <2>4
    <3>2. LeftAt(n, o, v)
      BY <3>1 DEF SInv, BytesOK
    <3>3. ~Touches(i, o)' /\ ~Touches(i, o)
      BY <1>2, <2>4 DEF Touches, Stores
    <3> QED
      BY <1>4, <2>1, <3>2, <3>3, SameLeft
  <2> QED
    BY <2>3, <2>4
<1>9. EofOK'
  <2> SUFFICES ASSUME NEW n, n = arrived', NEW v, v = eof'
               PROVE  LargestOf(n, v)'
    BY DEF EofOK, LargestOf, SizeOf, LastCut, Since
  <2>1. 1..n = Known /\ v = req[i].op.len
    BY <1>1
  <2>2. \A k \in Known : Cut(k)' => k <= i
    BY <1>1, <1>4, <1>5
  <2>3. LastCut(n, i)'
    BY <1>1, <1>2, <2>1, <2>2 DEF LastCut
  <2>4. SizeOf(n, v)'
    BY <1>1, <1>2, <2>1, <2>3 DEF SizeOf
  <2>5. ASSUME NEW j \in Known, LastCut(n, j)' PROVE j = i
    <3>1. i <= j /\ j <= i
      BY <1>1, <1>2, <2>1, <2>2, <2>5 DEF LastCut
    <3> QED
      BY <1>1, <3>1
  <2>6. ASSUME NEW j \in Known, Since(n, j)' PROVE FALSE
    <3>1. i < j /\ moved[j] > 0
      BY <1>1, <1>2, <2>1, <2>6 DEF Since
    <3>2. moved[j] = 0
      BY <1>1, <1>5, <3>1
    <3> QED
      BY <3>1, <3>2
  <2>7. ASSUME NEW s, SizeOf(n, s)' PROVE s <= v
    <3>1. s = 0 \/ s = req[i].op.len
      BY <1>2, <2>1, <2>5, <2>6, <2>7 DEF SizeOf
    <3> QED
      BY <1>1, <2>1, <3>1
  <2> QED
    BY <2>4, <2>7 DEF LargestOf
<1> QED
  BY <1>4, <1>6, <1>7, <1>8, <1>9 DEF SInv

\* The size is reported: it is the one the entries before left.
LEMMA ReportSInv ==
  ASSUME IInv, SInv, NEW i \in InProgress, Tag(i) = "GET_EOF_OP",
         UNCHANGED <<arrived, req, status, moved, subfile, eof>>,
         result' = [result EXCEPT ![i] = <<eof>>],
         reply' = [reply EXCEPT ![i] = "ok"]
  PROVE  SInv'
<1>1. /\ i \in Known /\ i \in Ids /\ i \in Nat /\ i <= arrived /\ arrived \in Nat
      /\ 1..arrived = Known /\ i - 1 \in Nat /\ i - 1 <= arrived
      /\ \A k \in Known : k \in Nat
  <2>1. i \in Known
    BY DEF InProgress
  <2>2. \A k \in Known : k \in Nat
    BY KnownEntry
  <2> QED
    BY <2>1, <2>2, KnownEntry DEF Known
<1>2. /\ Barrier(i) /\ (Cut(i)' <=> Cut(i)) /\ ~Cut(i)
      /\ \A o : Touches(i, o)' <=> Touches(i, o)
  BY DEF Barrier, Cut, Touches, Stores, Tag, First
<1>3. /\ \A j \in Ids \ {i} : reply'[j] = reply[j] /\ result'[j] = result[j]
      /\ result'[i] = <<eof>>
  BY <1>1 DEF IInv, TypeOK
<1>4. /\ Known' = Known /\ NotStarted'
      /\ \A j \in Known : /\ Cut(j)' <=> Cut(j)
                          /\ \A o : Touches(j, o)' <=> Touches(j, o)
      /\ \A n \in 0..i - 1 : \A v : LargestOf(n, v)' <=> LargestOf(n, v)
  BY <1>2, <1>3, OthersSInv
<1>5. MovedOK' /\ ReadsOK'
  BY <1>1, <1>2, <1>3, OthersSInv DEF SInv, MovedOK, Transfers
<1>6. LargestOf(i - 1, eof)
  <2>1. LargestOf(arrived, eof)
    BY DEF SInv, EofOK
  <2>2. ASSUME NEW j \in 1..arrived,
               Cut(j) \/ (Tag(j) = "WRITE_INDEP" /\ moved[j] > 0)
        PROVE  j <= i - 1
    <3>1. j # i
      BY <1>2, <2>2
    <3>2. ~(j > i)
      BY <1>1, <1>2, <2>2, LaterTouch
    <3> QED
      BY <1>1, <3>1, <3>2
  <2> QED
    BY <1>1, <2>1, <2>2, LargestBefore
<1>7. EofsOK'
  <2>1. i - 1 \in 0..i - 1
    BY <1>1
  <2>2. \A v : v = result'[i][1] => LargestOf(i - 1, v)'
    BY <1>3, <1>4, <1>6, <2>1
  <2> QED
    BY <1>2, <1>3, <2>2, OthersSInv
<1>8. BytesOK'
  <2> SUFFICES ASSUME NEW o \in 0..FileSize - 1, NEW n, n = arrived',
                      NEW v, v = subfile'[o]
               PROVE  LeftAt(n, o, v)'
    BY DEF BytesOK, LeftAt
  <2>1. LeftAt(n, o, v) /\ 1..n = Known
    BY DEF SInv, BytesOK, Known
  <2> QED
    BY <1>4, <2>1, SameLeft
<1>9. EofOK'
  <2> SUFFICES ASSUME NEW n, n = arrived', NEW v, v = eof'
               PROVE  LargestOf(n, v)'
    BY DEF EofOK, LargestOf, SizeOf, LastCut, Since
  <2>1. LargestOf(n, v) /\ 1..n = Known
    BY DEF SInv, EofOK, Known
  <2> QED
    BY <1>4, <2>1, SameSizes
<1> QED
  BY <1>4, <1>5, <1>7, <1>8, <1>9 DEF SInv

\* Every step of an operation keeps the subfile and the answers serial.
LEMMA HandleSInv ==
  ASSUME IInv, SInv, NEW w \in Workers, Handle(w)
  PROVE  SInv'
<1>0. PICK i : i = entry[w]
  OBVIOUS
<1>1. /\ i \in InProgress /\ i \in Known /\ i \in Ids
      /\ UNCHANGED <<arrived, req, status>>
      /\ moved[i] \in Nat /\ First(i) \in Nat /\ req[i].op.len \in Nat
      /\ Beyond(i) = First(i) + req[i].op.len
  <2>1. i \in InProgress
    BY <1>0, HandleFrame DEF IInv, TasksOK, Handling
  <2>2. i \in Known
    BY <2>1 DEF InProgress
  <2>3. UNCHANGED <<arrived, req, status>>
    BY HandleFrame
  <2> QED
    BY <2>1, <2>2, <2>3, KnownEntry
<1>2. reply \in [Ids -> {"none", "ack", "ok", "error"}]
  BY DEF IInv, TypeOK
<1> USE <1>0 DEF Answer, Working
<1>3. CASE transfer_ack(w)
  <2>1. /\ reply' = [reply EXCEPT ![i] = "ack"] /\ Tag(i) \in Transfers
        /\ UNCHANGED <<moved, result, subfile, eof>>
    BY <1>3 DEF transfer_ack
  <2> QED
    BY <1>1, <1>2, <2>1, AnswerSInv
<1>4. CASE transfer_nack(w)
  <2>1. /\ reply' = [reply EXCEPT ![i] = "error"] /\ Tag(i) \in Transfers
        /\ UNCHANGED <<moved, result, subfile, eof>>
    BY <1>4 DEF transfer_nack
  <2> QED
    BY <1>1, <1>2, <2>1, AnswerSInv
<1>5. CASE transfer_byte(w)
  <2>1. PICK p : p = First(i) + moved[i]
    OBVIOUS
  <2>2. /\ p < Beyond(i) /\ reply[i] = "ack" /\ reply' = reply
        /\ moved' = [moved EXCEPT ![i] = @ + 1] /\ Tag(i) \in Transfers
    BY <1>5, <2>1 DEF transfer_byte
  <2>3. CASE Tag(i) = "WRITE_INDEP"
    <3>1. /\ subfile' = [subfile EXCEPT ![p] = i]
          /\ eof' = IF eof <= p THEN p + 1 ELSE eof
          /\ result' = result
      BY <1>5, <2>1, <2>3 DEF transfer_byte
    <3> QED
      BY <1>1, <2>1, <2>2, <2>3, <3>1, WriteSInv
  <2>4. CASE Tag(i) # "WRITE_INDEP"
    <3>1. /\ result' = [result EXCEPT ![i] = Append(@, subfile[p])]
          /\ UNCHANGED <<subfile, eof>>
      BY <1>5, <2>1, <2>4 DEF transfer_byte
    <3>2. Tag(i) = "READ_INDEP"
      BY <2>2, <2>4 DEF Transfers
    <3> QED
      BY <1>1, <2>1, <2>2, <3>1, <3>2, ReadSInv
  <2> QED
    BY <2>3, <2>4
<1>6. CASE transfer_done(w)
  <2>1. /\ reply' = [reply EXCEPT ![i] = "ok"] /\ Tag(i) \in Transfers
        /\ First(i) + moved[i] = Beyond(i)
        /\ UNCHANGED <<moved, result, subfile, eof>>
    BY <1>6 DEF transfer_done
  <2>2. moved[i] = req[i].op.len
    BY <1>1, <2>1
  <2> QED
    BY <1>1, <1>2, <2>1, <2>2, AnswerSInv
<1>7. CASE transfer_fail(w)
  <2>1. /\ reply' = [reply EXCEPT ![i] = "error"] \/ reply' = reply
        /\ Tag(i) \in Transfers /\ reply[i] = "ack"
        /\ UNCHANGED <<moved, result, subfile, eof>>
    BY <1>7 DEF transfer_fail
  <2> QED
    BY <1>1, <1>2, <2>1, AnswerSInv
<1>8. CASE truncate(w)
  <2>1. /\ Tag(i) = "TRUNC_OP" /\ UNCHANGED <<moved, result>>
        /\ subfile' = [o \in DOMAIN subfile |->
                         IF o < req[i].op.len THEN subfile[o] ELSE 0]
        /\ eof' = req[i].op.len
        /\ reply' = [reply EXCEPT ![i] = "ok"]
    BY <1>8 DEF truncate
  <2> QED
    BY <1>1, <2>1, TruncateSInv
<1>9. CASE report_eof(w)
  <2>1. /\ Tag(i) = "GET_EOF_OP" /\ UNCHANGED <<moved, subfile, eof>>
        /\ result' = [result EXCEPT ![i] = <<eof>>]
        /\ reply' = [reply EXCEPT ![i] = "ok"]
    BY <1>9 DEF report_eof
  <2> QED
    BY <1>1, <2>1, ReportSInv
<1>10. CASE barrier_fail(w)
  <2>1. UNCHANGED <<moved, result, reply, subfile, eof>>
    BY <1>10 DEF barrier_fail, opVars
  <2> QED
    BY <1>1, <2>1, QueueSInv
<1> QED
  BY <1>3, <1>4, <1>5, <1>6, <1>7, <1>8, <1>9, <1>10 DEF Handle

\* Every step of a client, a thread or the shutdown keeps them serial.
LEMMA NextSInv == IInv /\ SInv /\ [Next]_vars => SInv'
<1> SUFFICES ASSUME IInv, SInv, [Next]_vars PROVE SInv'
  OBVIOUS
<1> USE DEF queueVars, opVars
<1>1. CASE UNCHANGED <<arrived, req, status, opVars>>
  BY <1>1, QueueSInv
<1>2. ASSUME NEW c \in Clients, NEW op \in Ops, client_send(c, op) PROVE SInv'
  BY <1>1, <1>2 DEF client_send
<1>3. CASE MainStep
  <2>1. CASE add_entry
    BY <2>1, AddSInv
  <2>2. CASE main_probe \/ main_fail \/ main_check
    BY <1>1, <2>2 DEF main_probe, main_fail, main_check
  <2> QED
    BY <1>3, <2>1, <2>2 DEF MainStep
<1>4. ASSUME NEW w \in Workers, take_task(w) PROVE SInv'
  BY <1>1, <1>4 DEF take_task
<1>5. ASSUME NEW w \in Workers, Handle(w) PROVE SInv'
  BY <1>5, HandleSInv
<1>6. ASSUME NEW w \in Workers, complete_entry(w) PROVE SInv'
  <2>1. /\ UNCHANGED <<arrived, req, opVars>>
        /\ status' = [status EXCEPT ![entry[w]] = "done"]
    BY <1>6 DEF complete_entry
  <2>2. \A i \in Ids : status'[i] \in {"none", "pending"} =>
                         status[i] \in {"none", "pending"}
    BY <2>1 DEF IInv, TypeOK
  <2> QED
    BY <2>1, <2>2, QueueSInv
<1>7. ASSUME NEW t \in Threads, mutex_lock(t) \/ mutex_trylock(t) PROVE SInv'
  BY <1>1, <1>7 DEF mutex_lock, mutex_trylock
<1>8. ASSUME NEW t \in Threads, dispatch_eligible_entries(t) PROVE SInv'
  <2>1. /\ UNCHANGED <<arrived, req, opVars>>
        /\ status' = [i \in Ids |-> IF i \in Eligible THEN "in_progress"
                                                      ELSE status[i]]
    BY <1>8 DEF dispatch_eligible_entries
  <2>2. \A i \in Ids : status'[i] \in {"none", "pending"} =>
                         status[i] \in {"none", "pending"}
    BY <2>1
  <2> QED
    BY <2>1, <2>2, QueueSInv
<1>9. CASE Finalize
  BY <1>1, <1>9 DEF Finalize, finalize_threads, finalize_flag_reset,
                    pool_destroy, mutex_destroy, finalize_join, EndUnchanged
<1>10. CASE UNCHANGED vars
  BY <1>1, <1>10 DEF vars
<1> QED
  BY <1>2, <1>3, <1>4, <1>5, <1>6, <1>7, <1>8, <1>9, <1>10 DEF Next

\* What is left at a byte is the byte of the serial execution, ...
LEMMA LeftIsSerial ==
  ASSUME NEW i \in Nat, NEW o, NEW v, LeftAt(i - 1, o, v)
  PROVE  v = SerialByte(i, o)
<1> DEFINE touching == {j \in 1..i - 1 : Stores(j, o) \/ (Cut(j) /\ req[j].op.len <= o)}
           last == CHOOSE j \in touching : \A k \in touching : k <= j
<1>1. touching = {j \in 1..i - 1 : Touches(j, o)}
  BY DEF Touches
<1>2. SerialByte(i, o) = IF touching = {} \/ Cut(last) THEN 0 ELSE last
  BY DEF SerialByte
<1> HIDE DEF last
<1>3. CASE v = 0 /\ \A j \in 1..i - 1 : ~Touches(j, o)
  BY <1>1, <1>2, <1>3
<1>4. CASE \E j \in 1..i - 1 : /\ Touches(j, o)
                               /\ \A k \in 1..i - 1 : Touches(k, o) => k <= j
                               /\ v = IF Cut(j) THEN 0 ELSE j
  <2>1. PICK j \in touching : /\ \A k \in touching : k <= j
                              /\ v = IF Cut(j) THEN 0 ELSE j
    BY <1>1, <1>4
  <2>2. last \in touching /\ \A k \in touching : k <= last
    BY <2>1 DEF last
  <2>3. last = j
    <3>1. last \in Int /\ j \in Int /\ last <= j /\ j <= last
      BY <2>1, <2>2
    <3> QED
      BY <3>1
  <2> QED
    BY <1>2, <2>1, <2>3
<1> QED
  BY <1>3, <1>4 DEF LeftAt

\* ... and the sizes are its sizes.
LEMMA SizesAreSerial ==
  ASSUME NEW i, NEW s
  PROVE  SizeOf(i - 1, s) <=> s \in SerialSizes(i)
<1> DEFINE cuts == {j \in 1..i - 1 : Cut(j)}
           since == {j \in 1..i - 1 : Tag(j) = "WRITE_INDEP" /\ moved[j] > 0
                                       /\ \A k \in cuts : k < j}
           lastcut == {k \in cuts : \A l \in cuts : l <= k}
<1>1. \A j \in 1..i - 1 : /\ j \in since <=> Since(i - 1, j)
                          /\ j \in lastcut <=> LastCut(i - 1, j)
  BY DEF Since, LastCut
<1>2. since \subseteq 1..i - 1 /\ lastcut \subseteq 1..i - 1
  OBVIOUS
<1>3. SerialSizes(i) = {0} \cup {req[j].op.len : j \in lastcut}
                           \cup {First(j) + moved[j] : j \in since}
  BY DEF SerialSizes
<1> HIDE DEF since, lastcut
<1> QED
  BY <1>1, <1>2, <1>3 DEF SizeOf

\* What the clients read of the subfile and of its size is what a serial
\* execution of their requests in the order of their arrival gives, however
\* the workers of the pool interleave (H5FDioc_threads.c).
THEOREM ResultsSerialHolds == SafeSpec => []ResultsSerial
<1>1. ASSUME IInv, SInv PROVE ResultsSerial
  <2> SUFFICES ASSUME NEW i \in Known, reply[i] = "ok"
               PROVE  /\ Tag(i) = "READ_INDEP" =>
                           \A k \in 1..req[i].op.len :
                             result[i][k] = SerialByte(i, First(i) + k - 1)
                      /\ Tag(i) = "GET_EOF_OP" =>
                           /\ result[i][1] \in SerialSizes(i)
                           /\ \A n \in SerialSizes(i) : n <= result[i][1]
    BY DEF ResultsSerial
  <2>1. ASSUME Tag(i) = "READ_INDEP", NEW k \in 1..req[i].op.len
        PROVE  result[i][k] = SerialByte(i, First(i) + k - 1)
    <3>1. moved[i] = req[i].op.len
      BY <1>1, <2>1 DEF SInv, MovedOK, Transfers
    <3>2. LeftAt(i - 1, First(i) + k - 1, result[i][k])
      BY <1>1, <2>1, <3>1 DEF SInv, ReadsOK
    <3> QED
      BY <1>1, <3>2, KnownEntry, LeftIsSerial
  <2>2. ASSUME Tag(i) = "GET_EOF_OP"
        PROVE  /\ result[i][1] \in SerialSizes(i)
               /\ \A n \in SerialSizes(i) : n <= result[i][1]
    <3>1. LargestOf(i - 1, result[i][1])
      BY <1>1, <2>2 DEF SInv, EofsOK
    <3> QED
      BY <3>1, SizesAreSerial DEF LargestOf
  <2> QED
    BY <2>1, <2>2
<1> QED
  BY <1>1, InitIInv, NextIInv, InitSInv, NextSInv, PTL DEF SafeSpec
=============================================================================
