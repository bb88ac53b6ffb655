------------------------------- MODULE IOCQueue -------------------------------
(***************************************************************************)
(* The I/O concentrator of the subfiling driver: its main thread receives  *)
(* the requests of the clients and queues them, the threads of a pool run  *)
(* them on the subfile, and the thread that closes the file shuts it down  *)
(* (src/src/H5FDsubfiling/H5FDioc_threads.c).                              *)
(*                                                                         *)
(* The entries of the queue are numbered in the order of their arrival     *)
(* (H5FD_IOC__Q_APPEND adds at the tail, H5FD_IOC__Q_REMOVE keeps the      *)
(* order): entry i has counter i - 1, and i is in the queue until it is    *)
(* "done".  So the counters of the queue are cardinalities: q_len and      *)
(* sf_io_ops_pending of Queue, num_pending of its "pending" entries.       *)
(* A byte of the subfile holds the number of the write it comes from, and  *)
(* 0 where none wrote.  There is one subfile; its base address is 0.       *)
(* The thread pool is the one of module ThreadPool: a task it was given is *)
(* run, and H5TS_pool_destroy returns when none is left.                   *)
(***************************************************************************)
EXTENDS Integers, FiniteSets, Sequences

CONSTANTS Clients, Workers, Main,
          Ops,            \* what a client may ask for
          MaxRequests,    \* bound on the requests
          FileSize,       \* bound on the subfile
          StorageFails,   \* may the file system or malloc fail?
          MessagesFail    \* may an MPI call of the main thread fail?

NoOp == [tag |-> "none", offset |-> 0, len |-> 0]
NoThread == "no thread"
Ids == 1..MaxRequests
Threads == Workers \cup {Main}
OpRecord == [tag : {"WRITE_INDEP", "READ_INDEP", "TRUNC_OP", "GET_EOF_OP"},
             offset : Nat, len : Nat]

ASSUME ClientsAssumption == IsFiniteSet(Clients)
ASSUME ThreadsAssumption == Main \notin Workers /\ NoThread \notin Threads
ASSUME OpsAssumption ==
  Ops \subseteq {o \in OpRecord : o.offset + o.len <= FileSize}
ASSUME BoundAssumption == MaxRequests \in Nat /\ FileSize \in Nat
ASSUME FailAssumption == StorageFails \in BOOLEAN /\ MessagesFail \in BOOLEAN

VARIABLES inbox,     \* the header each client has sent and Main not received
          arrived,   \* req_counter of the queue
          req,       \* the work request of each entry
          status,    \* "none", "pending", "in_progress", "done"
          pool,      \* entries given to the pool and not yet started
          pc,        \* where each thread is
          entry,     \* the entry a worker handles
          q_mutex,   \* the thread that holds the queue's mutex
          moved,     \* bytes written or read for an entry
          result,    \* what a read or an EOF request found
          reply,     \* what the client has been told about an entry
          subfile, eof,
          sf_shutdown_flag,
          finalize   \* where H5FD__ioc_finalize_threads is

queueVars == <<arrived, req, status, pool>>
opVars == <<moved, result, reply, subfile, eof>>
endVars == <<sf_shutdown_flag, finalize>>
vars == <<inbox, queueVars, pc, entry, q_mutex, opVars, endVars>>

Known == 1..arrived
Queue == {i \in Known : status[i] \in {"pending", "in_progress"}}
InProgress == {i \in Known : status[i] = "in_progress"}

\* The concentrator's state keeps its types: entries are numbered without a
\* gap, and no byte is moved outside the subfile.
TypeOK ==
  /\ inbox \in [Clients -> Ops \cup {NoOp}]
  /\ arrived \in 0..MaxRequests
  /\ req \in [Ids -> [client : Clients \cup {NoThread}, op : Ops \cup {NoOp}]]
  /\ \A i \in Known : req[i] \in [client : Clients, op : Ops]
  /\ status \in [Ids -> {"none", "pending", "in_progress", "done"}]
  /\ \A i \in Ids : status[i] = "none" <=> i > arrived
  /\ pool \in SUBSET Ids
  /\ pc \in [Threads -> {"probe", "add", "adding", "dispatch", "check",
                         "exited", "failed", "idle", "work", "complete",
                         "completing", "try", "dispatching"}]
  /\ entry \in [Workers -> Ids \cup {0}]
  /\ q_mutex \in Threads \cup {NoThread}
  /\ moved \in [Ids -> Nat]
  /\ result \in [Ids -> Seq(Nat)]
  /\ reply \in [Ids -> {"none", "ack", "ok", "error"}]
  /\ subfile \in [0..FileSize - 1 -> 0..MaxRequests]
  /\ eof \in 0..FileSize
  /\ sf_shutdown_flag \in {0, 1}
  /\ finalize \in {"open", "waiting", "pool_destroy", "mutex_destroy",
                   "join", "closed"}

\* H5FD__ioc_init_threads, once the main thread has reported that it is ready
Init ==
  /\ inbox = [c \in Clients |-> NoOp]
  /\ arrived = 0
  /\ req = [i \in Ids |-> [client |-> NoThread, op |-> NoOp]]
  /\ status = [i \in Ids |-> "none"]
  /\ pool = {}
  /\ pc = [t \in Threads |-> IF t = Main THEN "probe" ELSE "idle"]
  /\ entry = [w \in Workers |-> 0]
  /\ q_mutex = NoThread
  /\ moved = [i \in Ids |-> 0]
  /\ result = [i \in Ids |-> <<>>]
  /\ reply = [i \in Ids |-> "none"]
  /\ subfile = [o \in 0..FileSize - 1 |-> 0]
  /\ eof = 0
  /\ sf_shutdown_flag = 0
  /\ finalize = "open"

-----------------------------------------------------------------------------
(* The clients. *)

Tag(i) == req[i].op.tag
First(i) == req[i].op.offset
Beyond(i) == req[i].op.offset + req[i].op.len
Barrier(i) == Tag(i) \in {"TRUNC_OP", "GET_EOF_OP"}

RequestsOf(c) == {i \in Known : req[i].client = c}
Busy(c) ==
  inbox[c] # NoOp \/ \E i \in RequestsOf(c) : reply[i] \in {"none", "ack"}

\* A client waits for the first answer to its header before it sends the
\* next; the transfers it was acknowledged may still be under way.  A truncate
\* or EOF request is sent between calls, when nothing else is.
client_send(c, op) ==
  /\ finalize = "open"
  /\ arrived + Cardinality({d \in Clients : inbox[d] # NoOp}) < MaxRequests
  /\ inbox[c] = NoOp
  /\ \A i \in RequestsOf(c) :
        reply[i] # "none" /\ (op.tag \in {"TRUNC_OP", "GET_EOF_OP"}
                                => reply[i] # "ack")
  /\ inbox' = [inbox EXCEPT ![c] = op]
  /\ UNCHANGED <<queueVars, pc, entry, q_mutex, opVars, endVars>>

-----------------------------------------------------------------------------
(* The mutex of the queue. *)

Holding == {"adding", "dispatching", "completing"}

Goto(t, label) == pc' = [pc EXCEPT ![t] = label]

\* H5TS_mutex_lock in add_entry, dispatch_eligible_entries and complete_entry
mutex_lock(t) ==
  /\ q_mutex = NoThread
  /\ \/ pc[t] = "add" /\ Goto(t, "adding")
     \/ pc[t] = "dispatch" /\ Goto(t, "dispatching")
     \/ pc[t] = "complete" /\ Goto(t, "completing")
  /\ q_mutex' = t
  /\ UNCHANGED <<inbox, queueVars, entry, opVars, endVars>>

\* Where a thread goes on after dispatch_eligible_entries.
AfterDispatch(t) == IF t = Main THEN "check" ELSE "idle"

\* H5TS_mutex_trylock in dispatch_eligible_entries: return if it is held.
mutex_trylock(t) ==
  /\ pc[t] = "try"
  /\ IF q_mutex = NoThread
       THEN q_mutex' = t /\ Goto(t, "dispatching")
       ELSE UNCHANGED q_mutex /\ Goto(t, AfterDispatch(t))
  /\ UNCHANGED <<inbox, queueVars, entry, opVars, endVars>>

-----------------------------------------------------------------------------
(* The queue. *)

Overlap(i, j) == Beyond(i) > First(j) /\ Beyond(j) > First(i)
Conflict(i, j) ==
  /\ Overlap(i, j)
  /\ Tag(i) # "READ_INDEP" \/ Tag(j) # "READ_INDEP"

\* Mutant: reads are let past any earlier entry.
MayPass_read(i, j) ==
  Tag(i) = "READ_INDEP" \/ (~Barrier(i) /\ ~Barrier(j) /\ ~Conflict(i, j))

\* May pending entry i be dispatched past entry j ahead of it in the queue?
MayPass(i, j) == ~Barrier(i) /\ ~Barrier(j) /\ ~Conflict(i, j)

\* Mutant: only entries in progress hold up a later one.
Eligible_progress ==
  {i \in Queue : /\ status[i] = "pending"
                 /\ \A j \in InProgress : j < i => MayPass(i, j)}

\* Mutant: the scan for conflicts starts at the entry itself.
Eligible_self ==
  {i \in Queue : /\ status[i] = "pending"
                 /\ \A j \in Queue : j <= i => MayPass(i, j)}

Eligible ==
  {i \in Queue : /\ status[i] = "pending"
                 /\ \A j \in Queue : j < i => MayPass(i, j)}

\* H5FD__ioc_io_queue_add_entry: the request comes from the client whose
\* header the probe found.
add_entry ==
  /\ pc[Main] = "adding"
  /\ \E c \in {d \in Clients : inbox[d] # NoOp} :
       /\ arrived' = arrived + 1
       /\ req' = [req EXCEPT ![arrived + 1] = [client |-> c, op |-> inbox[c]]]
       /\ status' = [status EXCEPT ![arrived + 1] = "pending"]
       /\ inbox' = [inbox EXCEPT ![c] = NoOp]
  /\ q_mutex' = NoThread
  /\ Goto(Main, "dispatch")
  /\ UNCHANGED <<pool, entry, opVars, endVars>>

\* The scan of H5FD__ioc_io_queue_dispatch_eligible_entries
dispatch_eligible_entries(t) ==
  /\ pc[t] = "dispatching"
  /\ status' = [i \in Ids |-> IF i \in Eligible THEN "in_progress"
                                                ELSE status[i]]
  /\ pool' = pool \cup Eligible
  /\ q_mutex' = NoThread
  /\ Goto(t, AfterDispatch(t))
  /\ UNCHANGED <<inbox, arrived, req, entry, opVars, endVars>>

\* Mutant: the worker does not look for entries its own one held up.
complete_entry_leave(w) ==
  /\ pc[w] = "completing"
  /\ status' = [status EXCEPT ![entry[w]] = "done"]
  /\ entry' = [entry EXCEPT ![w] = 0]
  /\ q_mutex' = NoThread
  /\ Goto(w, "idle")
  /\ UNCHANGED <<inbox, arrived, req, pool, opVars, endVars>>

\* H5FD__ioc_io_queue_complete_entry
complete_entry(w) ==
  /\ pc[w] = "completing"
  /\ status' = [status EXCEPT ![entry[w]] = "done"]
  /\ entry' = [entry EXCEPT ![w] = 0]
  /\ q_mutex' = NoThread
  /\ Goto(w, "try")
  /\ UNCHANGED <<inbox, arrived, req, pool, opVars, endVars>>

-----------------------------------------------------------------------------
(* The main thread. *)

\* MPI_Iprobe; with no header there the thread sleeps and polls the queue.
main_probe ==
  /\ pc[Main] = "probe"
  /\ IF \E c \in Clients : inbox[c] # NoOp THEN Goto(Main, "add")
                                            ELSE Goto(Main, "try")
  /\ UNCHANGED <<inbox, queueVars, entry, q_mutex, opVars, endVars>>

\* An MPI call fails: the thread returns at once.
main_fail ==
  /\ MessagesFail
  /\ pc[Main] = "probe"
  /\ Goto(Main, "failed")
  /\ UNCHANGED <<inbox, queueVars, entry, q_mutex, opVars, endVars>>

\* Mutant: the loop ends on the flag alone.
main_check_flag ==
  /\ pc[Main] = "check"
  /\ IF sf_shutdown_flag = 1
       THEN sf_shutdown_flag' = 0 /\ Goto(Main, "exited")
       ELSE UNCHANGED sf_shutdown_flag /\ Goto(Main, "probe")
  /\ UNCHANGED <<inbox, queueVars, entry, q_mutex, opVars, finalize>>

\* Mutant: the flag is not reset after the loop.
main_check_noreset ==
  /\ pc[Main] = "check"
  /\ IF sf_shutdown_flag = 1 /\ Queue = {}
       THEN UNCHANGED sf_shutdown_flag /\ Goto(Main, "exited")
       ELSE UNCHANGED sf_shutdown_flag /\ Goto(Main, "probe")
  /\ UNCHANGED <<inbox, queueVars, entry, q_mutex, opVars, finalize>>

\* The condition of the loop, and the reset of the flag after it
main_check ==
  /\ pc[Main] = "check"
  /\ IF sf_shutdown_flag = 1 /\ Queue = {}
       THEN sf_shutdown_flag' = 0 /\ Goto(Main, "exited")
       ELSE UNCHANGED sf_shutdown_flag /\ Goto(Main, "probe")
  /\ UNCHANGED <<inbox, queueVars, entry, q_mutex, opVars, finalize>>

-----------------------------------------------------------------------------
(* The workers: H5FD__ioc_handle_work_request. *)

take_task(w) ==
  /\ pc[w] = "idle"
  /\ \E i \in pool : /\ pool' = pool \ {i}
                     /\ entry' = [entry EXCEPT ![w] = i]
  /\ Goto(w, "work")
  /\ UNCHANGED <<inbox, arrived, req, status, q_mutex, opVars, endVars>>

\* What the steps of an operation leave alone.
OpUnchanged == UNCHANGED <<inbox, queueVars, entry, q_mutex, endVars>>

Answer(i, r) == reply' = [reply EXCEPT ![i] = r]

Working(w, tags) == pc[w] = "work" /\ Tag(entry[w]) \in tags
Transfers == {"WRITE_INDEP", "READ_INDEP"}

\* The buffer of a read or a write is there: the client gets an ACK, on which
\* it sends, or waits for, the data.
transfer_ack(w) ==
  /\ Working(w, Transfers) /\ reply[entry[w]] = "none"
  /\ Answer(entry[w], "ack")
  /\ OpUnchanged /\ UNCHANGED <<pc, moved, result, subfile, eof>>

\* No memory for the buffer: the client gets a NACK.
transfer_nack(w) ==
  /\ StorageFails
  /\ Working(w, Transfers) /\ reply[entry[w]] = "none"
  /\ Answer(entry[w], "error")
  /\ Goto(w, "complete")
  /\ OpUnchanged /\ UNCHANGED <<moved, result, subfile, eof>>

\* pwrite and pread move any number of bytes at a time: here, one.
transfer_byte(w) ==
  LET i == entry[w]
      o == First(i) + moved[i]
  IN /\ Working(w, Transfers) /\ reply[i] = "ack" /\ o < Beyond(i)
     /\ moved' = [moved EXCEPT ![i] = @ + 1]
     /\ IF Tag(i) = "WRITE_INDEP"
          THEN /\ subfile' = [subfile EXCEPT ![o] = i]
               /\ eof' = IF eof <= o THEN o + 1 ELSE eof
               /\ UNCHANGED result
          ELSE /\ result' = [result EXCEPT ![i] = Append(@, subfile[o])]
               /\ UNCHANGED <<subfile, eof>>
     /\ OpUnchanged /\ UNCHANGED <<pc, reply>>

\* All bytes are moved: the read data, or WRITE_DATA_DONE, goes to the client.
transfer_done(w) ==
  LET i == entry[w]
  IN /\ Working(w, Transfers) /\ reply[i] = "ack"
     /\ First(i) + moved[i] = Beyond(i)
     /\ Answer(i, "ok")
     /\ Goto(w, "complete")
     /\ OpUnchanged /\ UNCHANGED <<moved, result, subfile, eof>>

\* pwrite or pread fails.  A reader is sent an empty message; a writer, who
\* waits for WRITE_DATA_DONE, nothing.
transfer_fail(w) ==
  LET i == entry[w]
  IN /\ StorageFails
     /\ Working(w, Transfers) /\ reply[i] = "ack" /\ First(i) + moved[i] < Beyond(i)
     /\ IF Tag(i) = "READ_INDEP" THEN Answer(i, "error") ELSE UNCHANGED reply
     /\ Goto(w, "complete")
     /\ OpUnchanged /\ UNCHANGED <<moved, result, subfile, eof>>

\* H5FD__ioc_file_truncate
truncate(w) ==
  LET i == entry[w]
  IN /\ Working(w, {"TRUNC_OP"})
     /\ subfile' = [o \in DOMAIN subfile |->
                      IF o < req[i].op.len THEN subfile[o] ELSE 0]
     /\ eof' = req[i].op.len
     /\ Answer(i, "ok")
     /\ Goto(w, "complete")
     /\ OpUnchanged /\ UNCHANGED <<moved, result>>

\* H5FD__ioc_file_report_eof
report_eof(w) ==
  /\ Working(w, {"GET_EOF_OP"})
  /\ result' = [result EXCEPT ![entry[w]] = <<eof>>]
  /\ Answer(entry[w], "ok")
  /\ Goto(w, "complete")
  /\ OpUnchanged /\ UNCHANGED <<moved, subfile, eof>>

\* ftruncate or fstat fails: nothing is sent.
barrier_fail(w) ==
  /\ StorageFails
  /\ Working(w, {"TRUNC_OP", "GET_EOF_OP"})
  /\ Goto(w, "complete")
  /\ OpUnchanged /\ UNCHANGED opVars

-----------------------------------------------------------------------------
(* H5FD__ioc_finalize_threads *)

Finalizing(from, to) == finalize = from /\ finalize' = to
EndUnchanged == UNCHANGED <<inbox, queueVars, pc, entry, q_mutex, opVars>>

\* The barrier in H5FD__ioc_close_int is passed: no client is in a call.
finalize_threads ==
  /\ Finalizing("open", "waiting")
  /\ \A c \in Clients : ~Busy(c)
  /\ sf_shutdown_flag' = 1
  /\ EndUnchanged

finalize_flag_reset ==
  /\ Finalizing("waiting", "pool_destroy")
  /\ sf_shutdown_flag = 0
  /\ EndUnchanged /\ UNCHANGED sf_shutdown_flag

pool_destroy ==
  /\ Finalizing("pool_destroy", "mutex_destroy")
  /\ pool = {} /\ \A w \in Workers : pc[w] = "idle"
  /\ EndUnchanged /\ UNCHANGED sf_shutdown_flag

mutex_destroy ==
  /\ Finalizing("mutex_destroy", "join")
  /\ EndUnchanged /\ UNCHANGED sf_shutdown_flag

\* H5TS_thread_join, and the end of the call
finalize_join ==
  /\ Finalizing("join", "closed")
  /\ pc[Main] \in {"exited", "failed"}
  /\ EndUnchanged /\ UNCHANGED sf_shutdown_flag

-----------------------------------------------------------------------------

MainStep == main_probe \/ main_fail \/ add_entry \/ main_check

Handle(w) ==
  \/ transfer_ack(w) \/ transfer_nack(w) \/ transfer_byte(w)
  \/ transfer_done(w) \/ transfer_fail(w)
  \/ truncate(w) \/ report_eof(w) \/ barrier_fail(w)

Finalize ==
  finalize_threads \/ finalize_flag_reset \/ pool_destroy \/ mutex_destroy
    \/ finalize_join

Next ==
  \/ \E c \in Clients, op \in Ops : client_send(c, op)
  \/ MainStep
  \/ \E w \in Workers : take_task(w) \/ Handle(w) \/ complete_entry(w)
  \/ \E t \in Threads :
       mutex_lock(t) \/ mutex_trylock(t) \/ dispatch_eligible_entries(t)
  \/ Finalize

\* Every thread goes on with what it does.  One that waits for the mutex gets
\* it in the end: the main thread sleeps between its polls of the queue.
Fairness ==
  /\ WF_vars(MainStep)
  /\ \A w \in Workers : WF_vars(take_task(w) \/ Handle(w) \/ complete_entry(w))
  /\ \A t \in Threads : /\ SF_vars(mutex_lock(t))
                        /\ WF_vars(mutex_trylock(t))
                        /\ WF_vars(dispatch_eligible_entries(t))
  /\ WF_vars(finalize_flag_reset \/ pool_destroy \/ mutex_destroy
               \/ finalize_join)

SafeSpec == Init /\ [][Next]_vars
Spec == SafeSpec /\ Fairness

-----------------------------------------------------------------------------

\* Rule 3 of the queue (H5FDioc_priv.h:222), with the rule for truncate and EOF
\* requests: an entry that may not pass an earlier one starts when that one is
\* complete, whatever dispatch it is started by.
StrictOrder ==
  \A i, j \in Known :
    j < i /\ ~MayPass(i, j) /\ status[i] \in {"in_progress", "done"}
      => status[j] = "done"

\* No dispatch is lost although a thread that finds the mutex held gives up:
\* as long as an entry could be dispatched some thread is about to look for it.
NoForgottenEntry ==
  Eligible # {} =>
    \E t \in Threads : pc[t] \in Holding \cup {"dispatch", "try"}

\* What the requests before entry i, run one by one, leave at byte o, ...
Stores(j, o) ==
  Tag(j) = "WRITE_INDEP" /\ First(j) <= o /\ o < First(j) + moved[j]
Cut(j) == Tag(j) = "TRUNC_OP" /\ reply[j] = "ok"

SerialByte(i, o) ==
  LET touching == {j \in 1..i - 1 : Stores(j, o) \/ (Cut(j) /\ req[j].op.len <= o)}
      last == CHOOSE j \in touching : \A k \in touching : k <= j
  IN IF touching = {} \/ Cut(last) THEN 0 ELSE last

\* ... and as the size of the subfile.
SerialSizes(i) ==
  LET cuts == {j \in 1..i - 1 : Cut(j)}
      since == {j \in 1..i - 1 : Tag(j) = "WRITE_INDEP" /\ moved[j] > 0
                                  /\ \A k \in cuts : k < j}
  IN {0} \cup {req[j].op.len : j \in {k \in cuts : \A l \in cuts : l <= k}}
         \cup {First(j) + moved[j] : j \in since}

\* The clients see one subfile on which their requests run one after the other
\* in the order of their arrival, however the workers interleave their bytes.
ResultsSerial ==
  \A i \in Known : reply[i] = "ok" =>
    /\ Tag(i) = "READ_INDEP" =>
         \A k \in 1..req[i].op.len : result[i][k] = SerialByte(i, First(i) + k - 1)
    /\ Tag(i) = "GET_EOF_OP" =>
         /\ result[i][1] \in SerialSizes(i)
         /\ \A n \in SerialSizes(i) : n <= result[i][1]

\* Once H5FD__ioc_finalize_threads has seen the flag reset the queue is empty
\* for good (the assertion at H5FDioc_threads.c:196), and when it destroys the
\* mutex no thread is left that could use it.
QuietAtShutdown ==
  /\ finalize \notin {"open", "waiting"} => Queue = {}
  /\ finalize \in {"join", "closed"} =>
       /\ \A w \in Workers : pc[w] = "idle"
       /\ pc[Main] \in {"exited", "failed"}

\* Every client gets through its calls: no request waits for ever behind
\* others, for a worker, or for a dispatch that nobody makes.
ClientsServed == \A c \in Clients : Busy(c) ~> ~Busy(c)

\* The comment at H5FDioc_threads.c:190: the main thread is allowed to exit,
\* and the call that waits for it returns.
FinalizeReturns == (finalize = "waiting") ~> (finalize = "closed")
=============================================================================
