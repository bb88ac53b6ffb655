-------------------------- MODULE ThreadPool_proof --------------------------
(***************************************************************************)
(* Proofs about ThreadPool, for any number of workers, clients and tasks,  *)
(* and about the emulated semaphore it may stand on (the last section).    *)
(*                                                                         *)
(* The heart of the invariant is TokensBalance: a worker that finds the    *)
(* queue empty holds a token no task accounts for, so it is a shutdown     *)
(* token; and when all workers have left on N shutdown tokens the balance  *)
(* leaves none for an add_task that has yet to signal.                     *)
(***************************************************************************)
EXTENDS ThreadPool, FiniteSetTheorems, TLAPS

All == Workers \cup Clients

\* Threads are counted in finite sets.
LEMMA CountedSets ==
  ASSUME NEW x
  PROVE  /\ IsFiniteSet(In(x)) /\ Cardinality(In(x)) \in Nat
         /\ Cardinality(In(x)) = 0 <=> In(x) = {}
<1>1. IsFiniteSet(Workers)
  BY FS_Interval, NAssumption DEF Workers
<1>2. IsFiniteSet(All)
  BY <1>1, ClientsAssumption, FS_Union DEF All
<1>3. In(x) \subseteq All
  BY DEF In, All
<1> QED
  BY <1>2, <1>3, FS_Subset, FS_CardinalityType, FS_EmptySet

\* A thread that moves from one place to another leaves the one count and
\* joins the other.
LEMMA MoveCounts ==
  ASSUME pc \in [All -> PC], NEW t \in All, NEW s \in PC, pc[t] # s,
         pc' = [pc EXCEPT ![t] = s], NEW x
  PROVE  Cardinality(In(x)') =
           IF x = s THEN Cardinality(In(x)) + 1
           ELSE IF x = pc[t] THEN Cardinality(In(x)) - 1
           ELSE Cardinality(In(x))
<1>1. CASE x = s
  <2>1. In(x)' = In(x) \cup {t} /\ t \notin In(x)
    BY <1>1 DEF In, All
  <2> QED
    BY <1>1, <2>1, CountedSets, FS_AddElement
<1>2. CASE x # s /\ x = pc[t]
  <2>1. In(x)' = In(x) \ {t} /\ t \in In(x)
    BY <1>2 DEF In, All
  <2> QED
    BY <1>2, <2>1, CountedSets, FS_RemoveElement
<1>3. CASE x # s /\ x # pc[t]
  <2>1. In(x)' = In(x)
    BY <1>3 DEF In, All
  <2> QED
    BY <1>3, <2>1
<1> QED
  BY <1>1, <1>2, <1>3


\* The pool starts empty, with no thread in it.
LEMMA InitIInv == Init => IInv
<1> SUFFICES ASSUME Init PROVE IInv
  OBVIOUS
<1>0. Workers \cap Clients = {} /\ Workers \subseteq Nat
  BY ClientsAssumption DEF Workers
<1>1. TypeOK
  <2>0. shutdown \in BOOLEAN
    BY Zenon DEF Init
  <2>1. queue \in Seq(Tasks)
    BY DEF Init
  <2>2. pc \in [Workers \cup Clients -> PC]
    BY DEF Init, PC
  <2>3. /\ running \in [Workers -> Tasks \cup {NoTask}]
        /\ status \in [Tasks -> Status]
    BY DEF Init, Status
  <2>4. /\ phase \in Phase /\ num_threads \in 0..N /\ sem \in Nat
        /\ u \in 0..N /\ sent \in 0..N
    BY NAssumption DEF Init, Phase
  <2> QED
    BY <2>0, <2>1, <2>2, <2>3, <2>4 DEF TypeOK
<1>2. In("lock") = {} /\ In("exited") = {} /\ In("signal") = {}
  BY DEF Init, In
<1>3. TokensBalance
  <2>1. /\ Cardinality(In("lock")) = 0 /\ Cardinality(In("exited")) = 0
        /\ Cardinality(In("signal")) = 0
    BY <1>2, CountedSets
  <2>2. Len(queue) = 0 /\ sem = 0 /\ sent = 0
    BY DEF Init
  <2> QED
    BY <2>1, <2>2 DEF TokensBalance
<1>4. OwnerProgress
  BY <1>0, NAssumption DEF Init, OwnerProgress, Workers
<1>5. UnpublishedIdle /\ StatusAgrees
  BY DEF Init, UnpublishedIdle, StatusAgrees
<1>6. ThreadsAgree
  BY <1>0 DEF Init, ThreadsAgree
<1> QED
  BY <1>1, <1>3, <1>4, <1>5, <1>6 DEF IInv
-----------------------------------------------------------------------------
(***************************************************************************)
(* One lemma per action: each preserves IInv.                              *)
(***************************************************************************)

\* A new worker waits; nobody has used the pool.
LEMMA CreateThreadStep == IInv /\ create_thread => IInv'
<1> SUFFICES ASSUME IInv, create_thread PROVE IInv'
  OBVIOUS
<1> USE NAssumption
<1>1. /\ u + 1 \in Workers /\ u + 1 \in All /\ pc[u + 1] = "none"
      /\ pc \in [All -> PC]
  BY DEF IInv, TypeOK, OwnerProgress, create_thread, Workers, All
<1>2. TypeOK'
  BY <1>1 DEF IInv, TypeOK, create_thread, poolVars, PC, All
<1>3. TokensBalance'
  <2>1. \A x \in {"lock", "exited", "signal"} :
          Cardinality(In(x)') = Cardinality(In(x))
    BY <1>1, MoveCounts DEF create_thread, PC
  <2> QED
    BY <2>1 DEF IInv, TokensBalance, create_thread, poolVars
<1>4. ThreadsAgree' /\ UnpublishedIdle' /\ StatusAgrees'
  BY <1>1 DEF IInv, TypeOK, ThreadsAgree, UnpublishedIdle, StatusAgrees,
     Published, create_thread, poolVars, All, PC
<1>5. OwnerProgress'
  BY <1>1 DEF IInv, TypeOK, OwnerProgress, create_thread, poolVars, Workers,
     All
<1> QED
  BY <1>2, <1>3, <1>4, <1>5 DEF IInv

\* Steps that leave every thread where it is leave the counts alone.
LEMMA StillCounts ==
  ASSUME UNCHANGED pc, NEW x PROVE Cardinality(In(x)') = Cardinality(In(x))
<1>1. In(x)' = In(x)
  BY DEF In
<1> QED
  BY <1>1

\* The pool opens with all its workers waiting.
LEMMA CreateDoneStep == IInv /\ create_done => IInv'
<1> SUFFICES ASSUME IInv, create_done PROVE IInv'
  OBVIOUS
<1> USE NAssumption DEF create_done
<1>1. TypeOK'
  BY DEF IInv, TypeOK, Phase
<1>2. TokensBalance'
  BY StillCounts DEF IInv, TokensBalance
<1>3. ThreadsAgree' /\ UnpublishedIdle' /\ StatusAgrees' /\ OwnerProgress'
  BY DEF IInv, TypeOK, ThreadsAgree, UnpublishedIdle, StatusAgrees,
     OwnerProgress, Published
<1> QED
  BY <1>1, <1>2, <1>3 DEF IInv

\* A failed create shuts down a pool nobody has used.
LEMMA CreateFailStep == IInv /\ create_fail => IInv'
<1> SUFFICES ASSUME IInv, create_fail PROVE IInv'
  OBVIOUS
<1> USE NAssumption DEF create_fail
<1>0. shutdown' \in BOOLEAN
  BY Zenon
<1>1. TypeOK'
  BY <1>0 DEF IInv, TypeOK, Phase
<1>2. TokensBalance'
  BY StillCounts DEF IInv, TokensBalance
<1>3. ThreadsAgree' /\ StatusAgrees' /\ OwnerProgress'
  BY DEF IInv, TypeOK, ThreadsAgree, StatusAgrees, OwnerProgress
<1>4. UnpublishedIdle'
  BY DEF IInv, TypeOK, UnpublishedIdle, OwnerProgress, Published, Workers
<1> QED
  BY <1>1, <1>2, <1>3, <1>4 DEF IInv

\* The flag is set while nothing is accepted any more.
LEMMA DestroyShutdownStep == IInv /\ destroy_shutdown => IInv'
<1> SUFFICES ASSUME IInv, destroy_shutdown PROVE IInv'
  OBVIOUS
<1> USE NAssumption DEF destroy_shutdown
<1>0. shutdown' \in BOOLEAN
  BY Zenon
<1>1. TypeOK'
  BY <1>0 DEF IInv, TypeOK, Phase
<1>2. TokensBalance'
  BY StillCounts DEF IInv, TokensBalance
<1>3. ThreadsAgree' /\ UnpublishedIdle' /\ StatusAgrees' /\ OwnerProgress'
  BY DEF IInv, TypeOK, ThreadsAgree, UnpublishedIdle, StatusAgrees,
     OwnerProgress, Published
<1> QED
  BY <1>1, <1>2, <1>3 DEF IInv

\* A shutdown signal is one token more, and one more that was sent.
LEMMA DestroySignalStep == IInv /\ destroy_signal => IInv'
<1> SUFFICES ASSUME IInv, destroy_signal PROVE IInv'
  OBVIOUS
<1> USE NAssumption DEF destroy_signal
<1>0. num_threads = N /\ sent = u
  BY DEF IInv, OwnerProgress
<1>1. TypeOK'
  BY <1>0 DEF IInv, TypeOK, Phase
<1>2. TokensBalance'
  <2>1. /\ Cardinality(In("lock")) \in Nat /\ Cardinality(In("exited")) \in Nat
        /\ Cardinality(In("signal")) \in Nat
    BY CountedSets
  <2> QED
    BY <2>1, StillCounts DEF IInv, TypeOK, TokensBalance
<1>3. ThreadsAgree' /\ UnpublishedIdle' /\ StatusAgrees' /\ OwnerProgress'
  BY <1>0 DEF IInv, TypeOK, ThreadsAgree, UnpublishedIdle, StatusAgrees,
     OwnerProgress, Published
<1> QED
  BY <1>1, <1>2, <1>3 DEF IInv

\* The joins pass workers that have left, one by one.
LEMMA PoolFreeStep == IInv /\ pool_free => IInv'
<1> SUFFICES ASSUME IInv, pool_free PROVE IInv'
  OBVIOUS
<1> USE NAssumption DEF pool_free, poolVars
<1>1. TypeOK'
  BY DEF IInv, TypeOK, Phase
<1>2. TokensBalance'
  BY StillCounts DEF IInv, TokensBalance
<1>3. ThreadsAgree' /\ UnpublishedIdle' /\ StatusAgrees'
  BY DEF IInv, TypeOK, ThreadsAgree, UnpublishedIdle, StatusAgrees, Published
<1>4. OwnerProgress'
  BY DEF IInv, TypeOK, OwnerProgress
<1> QED
  BY <1>1, <1>2, <1>3, <1>4 DEF IInv

\* A rejected task changes nothing; an accepted one comes with a promise to
\* signal.
LEMMA AddTaskQueueStep ==
  ASSUME IInv, NEW t \in All, NEW k \in Tasks, add_task_queue(t, k)
  PROVE  IInv'
<1> USE NAssumption DEF add_task_queue, ownerVars
<1>0. pc \in [All -> PC] /\ Workers \subseteq All /\ Clients \subseteq All
  BY DEF IInv, TypeOK, All
<1>1. CASE shutdown
  <2>1. TypeOK'
    BY <1>1 DEF IInv, TypeOK, Status
  <2>2. TokensBalance'
    BY <1>1, StillCounts DEF IInv, TokensBalance
  <2>3. ThreadsAgree' /\ UnpublishedIdle' /\ StatusAgrees' /\ OwnerProgress'
    BY <1>1 DEF IInv, TypeOK, ThreadsAgree, UnpublishedIdle, StatusAgrees,
       OwnerProgress, Published
  <2> QED
    BY <2>1, <2>2, <2>3 DEF IInv
<1>2. CASE ~shutdown
  <2>1. Published /\ phase = "open" /\ pc[t] \in {"run", "idle"}
    BY <1>2 DEF IInv, TypeOK, Phase, MayCall, UnpublishedIdle, OwnerProgress,
       Published, All
  <2>2. /\ queue' \in Seq(Tasks) /\ Len(queue') = Len(queue) + 1
        /\ Len(queue) \in Nat
        /\ \A i \in 1..Len(queue) : queue'[i] = queue[i]
        /\ queue'[Len(queue')] = k
    <3>1. queue \in Seq(Tasks) /\ queue' = Append(queue, k)
      BY <1>2 DEF IInv, TypeOK
    <3> HIDE DEF add_task_queue
    <3> QED
      BY <3>1
  <2>3. TypeOK'
    BY <1>2, <2>2 DEF IInv, TypeOK, Status, PC
  <2>4. TokensBalance'
    <3>1. /\ Cardinality(In("lock")') = Cardinality(In("lock"))
          /\ Cardinality(In("exited")') = Cardinality(In("exited"))
          /\ Cardinality(In("signal")') = Cardinality(In("signal")) + 1
      BY <1>0, <1>2, <2>1, MoveCounts DEF PC
    <3>2. /\ Cardinality(In("lock")) \in Nat
          /\ Cardinality(In("exited")) \in Nat
          /\ Cardinality(In("signal")) \in Nat
      BY CountedSets
    <3>3. sem' = sem /\ sent' = sent /\ sem \in Nat /\ sent \in Nat
      BY <1>2 DEF IInv, TypeOK
    <3> HIDE DEF add_task_queue
    <3>4. TokensBalance
      BY DEF IInv
    <3> QED
      BY <2>2, <3>1, <3>2, <3>3, <3>4 DEF TokensBalance
  <2>5. ThreadsAgree'
    BY <1>0, <1>2, <2>1 DEF IInv, ThreadsAgree, MayCall
  <2>6. UnpublishedIdle' /\ OwnerProgress'
    BY <1>2, <2>1 DEF IInv, UnpublishedIdle, OwnerProgress, Published
  <2>7. StatusAgrees'
    <3>1. \A j \in Tasks \ {k} : status'[j] = status[j]
      BY <1>2 DEF IInv, TypeOK
    <3>2. status'[k] = "queued" /\ Len(queue') \in 1..Len(queue')
      BY <1>2, <2>2 DEF IInv, TypeOK
    <3>3. /\ running' = running
          /\ \A w \in Workers : pc[w] \in {"run", "signal"}
                                  => pc'[w] \in {"run", "signal"}
      BY <1>0, <1>2, <2>1
    <3>4. \A i \in 1..Len(queue) : i \in 1..Len(queue')
      BY <2>2
    <3> HIDE DEF add_task_queue
    <3> QED
      BY <2>2, <3>1, <3>2, <3>3, <3>4 DEF IInv, StatusAgrees
  <2> QED
    BY <2>3, <2>4, <2>5, <2>6, <2>7 DEF IInv
<1> QED
  BY <1>1, <1>2

\* The announcement of a task turns the pending signal into a token.
LEMMA AddTaskSignalStep ==
  ASSUME IInv, NEW t \in All, add_task_signal(t) PROVE IInv'
<1> USE NAssumption DEF add_task_signal, ownerVars
<1>0. pc \in [All -> PC] /\ Workers \subseteq All /\ Clients \subseteq All
  BY DEF IInv, TypeOK, All
<1>1. Published /\ phase # "creating"
  BY DEF IInv, UnpublishedIdle, OwnerProgress, Published, All
<1>2. TypeOK'
  <2>0. (IF t \in Workers THEN "run" ELSE "idle") \in PC
    BY DEF PC
  <2>1. pc' \in [Workers \cup Clients -> PC]
    <3>1. PICK s \in PC : pc' = [pc EXCEPT ![t] = s]
      BY <2>0
    <3> HIDE DEF add_task_signal
    <3> QED
      BY <1>0, <3>1 DEF All
  <2>2. sem' \in Nat
    BY DEF IInv, TypeOK
  <2> QED
    BY <2>1, <2>2 DEF IInv, TypeOK
<1>3. TokensBalance'
  <2>1. /\ Cardinality(In("lock")') = Cardinality(In("lock"))
        /\ Cardinality(In("exited")') = Cardinality(In("exited"))
        /\ Cardinality(In("signal")') = Cardinality(In("signal")) - 1
    BY <1>0, MoveCounts DEF PC
  <2>2. /\ Cardinality(In("lock")) \in Nat /\ Cardinality(In("exited")) \in Nat
        /\ Cardinality(In("signal")) \in Nat
    BY CountedSets
  <2> QED
    BY <2>1, <2>2 DEF IInv, TypeOK, TokensBalance
<1>4. ThreadsAgree'
  <2>1. Workers \cap Clients = {}
    BY ClientsAssumption DEF Workers
  <2> QED
    BY <1>0, <2>1 DEF IInv, ThreadsAgree
<1>5. UnpublishedIdle' /\ OwnerProgress'
  BY <1>0, <1>1 DEF IInv, TypeOK, UnpublishedIdle, OwnerProgress, Published
<1>6. StatusAgrees'
  BY <1>0 DEF IInv, TypeOK, StatusAgrees
<1> QED
  BY <1>2, <1>3, <1>4, <1>5, <1>6 DEF IInv

\* A worker gets past the semaphore only in a published pool.
LEMMA SemaphoreWaitStep ==
  ASSUME IInv, NEW w \in Workers, semaphore_wait(w) PROVE IInv'
<1> USE NAssumption DEF semaphore_wait, ownerVars
<1>0. pc \in [All -> PC] /\ Workers \subseteq All /\ Clients \subseteq All
  BY DEF IInv, TypeOK, All
<1>1. Published /\ phase # "creating" /\ w \notin Clients
  BY ClientsAssumption DEF IInv, UnpublishedIdle, OwnerProgress, Published,
     Workers
<1>2. TypeOK'
  BY DEF IInv, TypeOK, PC
<1>3. TokensBalance'
  <2>1. /\ Cardinality(In("lock")') = Cardinality(In("lock")) + 1
        /\ Cardinality(In("exited")') = Cardinality(In("exited"))
        /\ Cardinality(In("signal")') = Cardinality(In("signal"))
    BY <1>0, MoveCounts DEF PC
  <2>2. /\ Cardinality(In("lock")) \in Nat /\ Cardinality(In("exited")) \in Nat
        /\ Cardinality(In("signal")) \in Nat
    BY CountedSets
  <2> QED
    BY <2>1, <2>2 DEF IInv, TypeOK, TokensBalance
<1>4. ThreadsAgree'
  BY <1>0, <1>1 DEF IInv, ThreadsAgree
<1>5. UnpublishedIdle' /\ OwnerProgress'
  BY <1>0, <1>1 DEF IInv, TypeOK, UnpublishedIdle, OwnerProgress, Published
<1>6. StatusAgrees'
  BY <1>0 DEF IInv, TypeOK, StatusAgrees
<1> QED
  BY <1>2, <1>3, <1>4, <1>5, <1>6 DEF IInv

\* A worker takes the head of a non-empty queue.
LEMMA TakeTaskStep ==
  ASSUME IInv, NEW w \in Workers, take_task(w) PROVE IInv'
<1> USE NAssumption DEF take_task, ownerVars
<1>0. pc \in [All -> PC] /\ Workers \subseteq All /\ Clients \subseteq All
  BY DEF IInv, TypeOK, All
<1>1. Published /\ phase # "creating" /\ w \notin Clients
  BY ClientsAssumption DEF IInv, UnpublishedIdle, OwnerProgress, Published,
     Workers
<1>2. /\ Head(queue) \in Tasks /\ queue' \in Seq(Tasks)
      /\ Len(queue') = Len(queue) - 1 /\ Len(queue) \in Nat \ {0}
      /\ queue[1] = Head(queue)
      /\ \A i \in 2..Len(queue) : queue'[i - 1] = queue[i]
  <2>1. queue \in Seq(Tasks) /\ queue # <<>> /\ queue' = Tail(queue)
    BY DEF IInv, TypeOK
  <2> HIDE DEF take_task
  <2> QED
    BY <2>1
<1>3. TypeOK'
  BY <1>2 DEF IInv, TypeOK, PC, Status
<1>4. TokensBalance'
  <2>1. /\ Cardinality(In("lock")') = Cardinality(In("lock")) - 1
        /\ Cardinality(In("exited")') = Cardinality(In("exited"))
        /\ Cardinality(In("signal")') = Cardinality(In("signal"))
    BY <1>0, MoveCounts DEF PC
  <2>2. /\ Cardinality(In("lock")) \in Nat /\ Cardinality(In("exited")) \in Nat
        /\ Cardinality(In("signal")) \in Nat
    BY CountedSets
  <2>3. sem' = sem /\ sent' = sent /\ sem \in Nat /\ sent \in Nat
    BY DEF IInv, TypeOK
  <2>4. TokensBalance
    BY DEF IInv
  <2> HIDE DEF take_task
  <2> QED
    BY <1>2, <2>1, <2>2, <2>3, <2>4 DEF TokensBalance
<1>5. ThreadsAgree'
  BY <1>0, <1>1, <1>2 DEF IInv, TypeOK, ThreadsAgree
<1>6. UnpublishedIdle' /\ OwnerProgress'
  BY <1>0, <1>1 DEF IInv, TypeOK, UnpublishedIdle, OwnerProgress, Published
<1>7. StatusAgrees'
  <2> SUFFICES ASSUME NEW k \in Tasks
               PROVE  /\ status'[k] = "queued"
                           => \E i \in 1..Len(queue') : queue'[i] = k
                      /\ status'[k] = "running"
                           => \E v \in Workers : /\ pc'[v] \in {"run", "signal"}
                                                 /\ running'[v] = k
    BY DEF StatusAgrees
  <2>1. CASE k = Head(queue)
    BY <1>0, <1>2, <2>1 DEF IInv, TypeOK
  <2>2. CASE k # Head(queue)
    <3>1. status'[k] = status[k]
      BY <2>2 DEF IInv, TypeOK
    <3>2. ASSUME status[k] = "queued"
          PROVE  \E i \in 1..Len(queue') : queue'[i] = k
      <4>1. PICK i \in 1..Len(queue) : queue[i] = k
        BY <3>2 DEF IInv, StatusAgrees
      <4>2. i \in 2..Len(queue) /\ i - 1 \in 1..Len(queue')
        BY <1>2, <2>2, <4>1
      <4> QED
        BY <1>2, <4>1, <4>2
    <3>3. ASSUME status[k] = "running"
          PROVE  \E v \in Workers : /\ pc'[v] \in {"run", "signal"}
                                    /\ running'[v] = k
      <4>1. PICK v \in Workers : pc[v] \in {"run", "signal"} /\ running[v] = k
        BY <3>3 DEF IInv, StatusAgrees
      <4> QED
        BY <1>0, <4>1 DEF IInv, TypeOK
    <3> QED
      BY <3>1, <3>2, <3>3
  <2> QED
    BY <2>1, <2>2
<1> QED
  BY <1>3, <1>4, <1>5, <1>6, <1>7 DEF IInv

\* A token held against an empty queue is a shutdown token.
LEMMA EmptyMeansShutdown == IInv => EmptyOnlyAtShutdown
<1> SUFFICES ASSUME IInv, NEW w \in Workers, pc[w] = "lock", queue = <<>>
             PROVE  shutdown
  BY DEF EmptyOnlyAtShutdown
<1>1. In("lock") # {}
  BY DEF In
<1>2. /\ Cardinality(In("lock")) \in Nat \ {0}
      /\ Cardinality(In("exited")) \in Nat /\ Cardinality(In("signal")) \in Nat
  BY <1>1, CountedSets
<1>3. Len(queue) = 0 /\ sem \in Nat /\ sent \in Nat
  BY DEF IInv, TypeOK
<1>4. TokensBalance
  BY DEF IInv
<1>5. sent > 0
  BY <1>2, <1>3, <1>4 DEF TokensBalance
<1> QED
  BY <1>5 DEF IInv, TypeOK, Phase, OwnerProgress

\* A worker leaves with a token that no task accounts for.
LEMMA LeaveStep ==
  ASSUME IInv, NEW w \in Workers, leave(w) PROVE IInv'
<1>0. pc \in [All -> PC] /\ Workers \subseteq All /\ Clients \subseteq All
  BY DEF IInv, TypeOK, All
<1>1. shutdown
  BY EmptyMeansShutdown DEF EmptyOnlyAtShutdown, leave
<1> USE NAssumption DEF leave, ownerVars, poolVars
<1>2. Published /\ phase # "creating" /\ w \notin Clients
  BY ClientsAssumption DEF IInv, UnpublishedIdle, OwnerProgress, Published,
     Workers
<1>3. TypeOK'
  BY DEF IInv, TypeOK, PC
<1>4. TokensBalance'
  <2>1. /\ Cardinality(In("lock")') = Cardinality(In("lock")) - 1
        /\ Cardinality(In("exited")') = Cardinality(In("exited")) + 1
        /\ Cardinality(In("signal")') = Cardinality(In("signal"))
    BY <1>0, MoveCounts DEF PC
  <2>2. /\ Cardinality(In("lock")) \in Nat /\ Cardinality(In("exited")) \in Nat
        /\ Cardinality(In("signal")) \in Nat
    BY CountedSets
  <2> QED
    BY <2>1, <2>2 DEF IInv, TypeOK, TokensBalance
<1>5. ThreadsAgree'
  BY <1>0, <1>1, <1>2 DEF IInv, ThreadsAgree
<1>6. UnpublishedIdle' /\ OwnerProgress'
  BY <1>0, <1>2 DEF IInv, TypeOK, UnpublishedIdle, OwnerProgress, Published
<1>7. StatusAgrees'
  BY <1>0 DEF IInv, TypeOK, StatusAgrees
<1> QED
  BY <1>3, <1>4, <1>5, <1>6, <1>7 DEF IInv

\* A worker that has run its task waits again.
LEMMA TaskDoneStep ==
  ASSUME IInv, NEW w \in Workers, task_done(w) PROVE IInv'
<1> USE NAssumption DEF task_done, ownerVars, poolVars
<1>0. pc \in [All -> PC] /\ Workers \subseteq All /\ Clients \subseteq All
  BY DEF IInv, TypeOK, All
<1>1. Published /\ phase # "creating" /\ w \notin Clients
  BY ClientsAssumption DEF IInv, UnpublishedIdle, OwnerProgress, Published,
     Workers
<1>2. running[w] \in Tasks
  BY DEF IInv, ThreadsAgree
<1>3. TypeOK'
  BY <1>2 DEF IInv, TypeOK, PC, Status
<1>4. TokensBalance'
  <2>1. /\ Cardinality(In("lock")') = Cardinality(In("lock"))
        /\ Cardinality(In("exited")') = Cardinality(In("exited"))
        /\ Cardinality(In("signal")') = Cardinality(In("signal"))
    BY <1>0, MoveCounts DEF PC
  <2> QED
    BY <2>1 DEF IInv, TokensBalance
<1>5. ThreadsAgree'
  BY <1>0, <1>1 DEF IInv, TypeOK, ThreadsAgree
<1>6. UnpublishedIdle' /\ OwnerProgress'
  BY <1>0, <1>1 DEF IInv, TypeOK, UnpublishedIdle, OwnerProgress, Published
<1>7. StatusAgrees'
  BY <1>0, <1>2 DEF IInv, TypeOK, StatusAgrees
<1> QED
  BY <1>3, <1>4, <1>5, <1>6, <1>7 DEF IInv

\* Every step of the pool preserves the invariant.
LEMMA NextIInv == IInv /\ [Next]_vars => IInv'
<1> SUFFICES ASSUME IInv, [Next]_vars PROVE IInv'
  OBVIOUS
<1>1. CASE Create
  BY <1>1, CreateThreadStep, CreateDoneStep, CreateFailStep DEF Create
<1>2. CASE Destroy
  BY <1>2, DestroyShutdownStep, DestroySignalStep, PoolFreeStep DEF Destroy
<1>3. ASSUME NEW w \in Workers, Work(w) PROVE IInv'
  BY <1>3, SemaphoreWaitStep, TakeTaskStep, LeaveStep, TaskDoneStep DEF Work
<1>4. ASSUME NEW t \in All,
             add_task_signal(t) \/ \E k \in Tasks : add_task_queue(t, k)
      PROVE  IInv'
  BY <1>4, AddTaskSignalStep, AddTaskQueueStep
<1>5. CASE UNCHANGED vars
  <2>1. TokensBalance'
    BY <1>5, StillCounts DEF vars, IInv, TokensBalance
  <2>2. TypeOK' /\ ThreadsAgree' /\ OwnerProgress' /\ UnpublishedIdle'
        /\ StatusAgrees'
    BY <1>5 DEF vars, IInv, TypeOK, ThreadsAgree, OwnerProgress,
       UnpublishedIdle, StatusAgrees, Published
  <2> QED
    BY <2>1, <2>2 DEF IInv
<1> QED
  BY <1>1, <1>2, <1>3, <1>4, <1>5 DEF Next, All
-----------------------------------------------------------------------------
(***************************************************************************)
(* The theorems.                                                           *)
(***************************************************************************)

\* The pool's fields keep their types; the semaphore never goes below zero.
THEOREM TypeCorrect == Spec => []TypeOK
<1>1. IInv => TypeOK
  BY DEF IInv
<1> QED
  BY <1>1, InitIInv, NextIInv, PTL DEF Spec

\* assert(pool->shutdown) of H5TS__pool_do never fails.
THEOREM EmptyOnlyAtShutdownHolds == Spec => []EmptyOnlyAtShutdown
  BY EmptyMeansShutdown, InitIInv, NextIInv, PTL DEF Spec

\* What holds of a freed pool: every thread is out of it, every accepted
\* task is done.
LEMMA FreedPool == IInv => NotFreedInUse /\ AcceptedTasksDone
<1> SUFFICES ASSUME IInv, phase = "freed"
             PROVE  NotFreedInUse /\ AcceptedTasksDone
  BY DEF NotFreedInUse, AcceptedTasksDone
<1> USE NAssumption
<1>1. \A w \in 1..num_threads : pc[w] = "exited"
  BY DEF IInv, OwnerProgress
<1>2. CASE ~Published
  <2>1. \A t \in All : pc[t] \in {"none", "idle", "wait"}
    BY <1>2 DEF IInv, UnpublishedIdle, All
  <2>2. num_threads = 0
    <3>1. ASSUME num_threads > 0 PROVE FALSE
      <4>1. 1 \in 1..num_threads /\ 1 \in All
        BY <3>1 DEF IInv, TypeOK, All, Workers
      <4> QED
        BY <1>1, <2>1, <4>1
    <3> QED
      BY <3>1 DEF IInv, TypeOK
  <2>3. \A w \in Workers : pc[w] = "none"
    BY <1>2, <2>2 DEF IInv, UnpublishedIdle, Workers
  <2>4. \A t \in All : pc[t] \in {"none", "idle"}
    BY <2>1, <2>3 DEF IInv, ThreadsAgree, All
  <2>5. queue = <<>>
    BY <1>2 DEF IInv, UnpublishedIdle
  <2> QED
    BY <2>4, <2>5 DEF NotFreedInUse, AcceptedTasksDone, IInv, TypeOK,
       StatusAgrees, Status, All
<1>3. CASE Published
  <2>1. \A w \in Workers : pc[w] = "exited"
    BY <1>1, <1>3 DEF Published, Workers
  <2>2. queue = <<>> /\ sent = N
    BY <1>3, <2>1 DEF IInv, ThreadsAgree, OwnerProgress, Published, Workers
  <2>3. In("exited") = 1..N
    BY <2>1, ClientsAssumption DEF In, IInv, ThreadsAgree, Workers
  <2>4. Cardinality(In("exited")) = N
    BY <2>3, FS_Interval
  <2>5. In("signal") = {}
    <3>1. /\ Cardinality(In("lock")) \in Nat
          /\ Cardinality(In("signal")) \in Nat
      BY CountedSets
    <3>2. Len(queue) = 0 /\ sem \in Nat
      BY <2>2 DEF IInv, TypeOK
    <3>3. TokensBalance
      BY DEF IInv
    <3>4. Cardinality(In("signal")) = 0
      BY <2>2, <2>4, <3>1, <3>2, <3>3 DEF TokensBalance
    <3> QED
      BY <3>4, CountedSets
  <2>6. \A t \in All : pc[t] \in {"idle", "exited"}
    BY <2>1, <2>5 DEF IInv, ThreadsAgree, In, All
  <2> QED
    BY <2>2, <2>6 DEF NotFreedInUse, AcceptedTasksDone, IInv, TypeOK,
       StatusAgrees, Status, All
<1> QED
  BY <1>2, <1>3

\* "Destroy a thread pool, waiting for all tasks to be invoked."
THEOREM AcceptedTasksDoneHolds == Spec => []AcceptedTasksDone
  BY FreedPool, InitIInv, NextIInv, PTL DEF Spec

\* No thread signals, locks or waits on a pool that has been freed.
THEOREM NotFreedInUseHolds == Spec => []NotFreedInUse
  BY FreedPool, InitIInv, NextIInv, PTL DEF Spec
-----------------------------------------------------------------------------
(***************************************************************************)
(* The semaphore of the pool, where the system has none the library can    *)
(* use: the emulation of module Semaphore, for any finite set of threads   *)
(* and any initial count.                                                  *)
(*                                                                         *)
(* The invariant SemInv is inductive as it stands: a signal adds one to    *)
(* the counter and one to the woken threads, or finds nobody asleep; a     *)
(* woken thread takes one from both, or finds the counter zero.            *)
(***************************************************************************)
CONSTANTS SemThreads, SemInitial, SemMax
VARIABLES counter, waiters, sem_pc

S == INSTANCE Semaphore WITH Threads <- SemThreads, initial_count <- SemInitial,
                             MaxCounter <- SemMax, pc <- sem_pc

\* What module Semaphore assumes of its constants.
SemConstants == IsFiniteSet(SemThreads) /\ SemInitial \in Nat

\* The module counts its threads as this one does.
LEMMA SemCardinality == \A X : S!Cardinality(X) = Cardinality(X)
  BY DEF S!Cardinality, Cardinality

SemInv == S!TypeOK /\ S!NoLostWakeup /\ S!WaitersExact

SemInside == S!In("cond") \cup S!In("woken")

\* The threads at each place can be counted, ...
LEMMA SemFinite ==
  ASSUME SemConstants
  PROVE  /\ \A s : IsFiniteSet(S!In(s)) /\ Cardinality(S!In(s)) \in Nat
         /\ IsFiniteSet(SemInside) /\ Cardinality(SemInside) \in Nat
<1>1. \A s : IsFiniteSet(S!In(s)) /\ Cardinality(S!In(s)) \in Nat
  BY FS_Subset, FS_CardinalityType DEF SemConstants, S!In
<1>2. IsFiniteSet(SemInside)
  BY FS_Subset DEF SemConstants, S!In, SemInside
<1> QED
  BY <1>1, <1>2, FS_CardinalityType

\* ... also after a step.
LEMMA SemFiniteNext ==
  ASSUME SemConstants
  PROVE  /\ \A s : IsFiniteSet(S!In(s)') /\ Cardinality(S!In(s)') \in Nat
         /\ IsFiniteSet(SemInside') /\ Cardinality(SemInside') \in Nat
<1>1. \A s : IsFiniteSet(S!In(s)') /\ Cardinality(S!In(s)') \in Nat
  BY FS_Subset, FS_CardinalityType DEF SemConstants, S!In
<1>2. IsFiniteSet(SemInside')
  BY FS_Subset DEF SemConstants, S!In, SemInside
<1> QED
  BY <1>1, <1>2, FS_CardinalityType

\* Waking a sleeping thread: it changes queue, and nobody leaves the loop.
LEMMA SemWake ==
  ASSUME SemConstants, S!TypeOK, NEW t \in S!In("cond"),
         sem_pc' = [sem_pc EXCEPT ![t] = "woken"]
  PROVE  /\ sem_pc' \in [SemThreads -> {"idle", "cond", "woken"}]
         /\ SemInside' = SemInside
         /\ Cardinality(S!In("woken")') = Cardinality(S!In("woken")) + 1
<1>1. sem_pc' \in [SemThreads -> {"idle", "cond", "woken"}]
  BY DEF S!TypeOK, S!In
<1>2. S!In("cond")' = S!In("cond") \ {t} /\ S!In("woken")' = S!In("woken") \cup {t}
  BY DEF S!TypeOK, S!In
<1>3. t \notin S!In("woken")
  BY DEF S!In
<1>4. SemInside' = SemInside
  BY <1>2 DEF SemInside
<1>5. Cardinality(S!In("woken")') = Cardinality(S!In("woken")) + 1
  BY <1>2, <1>3, SemFinite, FS_AddElement
<1> QED
  BY <1>1, <1>4, <1>5

\* The semaphore starts with nobody in it.
LEMMA SemInit ==
  ASSUME SemConstants
  PROVE  S!Init => SemInv
<1> SUFFICES ASSUME S!Init PROVE SemInv
  OBVIOUS
<1>1. S!TypeOK
  BY DEF SemConstants, S!Init, S!TypeOK
<1>2. S!In("cond") = {} /\ S!In("cond") \cup S!In("woken") = {}
  BY DEF S!Init, S!In
<1> QED
  BY <1>1, <1>2, FS_EmptySet, SemCardinality DEF S!Init, SemInv, S!NoLostWakeup, S!WaitersExact

\* A signal adds a unit and wakes a sleeper if there is one.
LEMMA SemSignal ==
  ASSUME SemConstants
  PROVE  SemInv /\ S!semaphore_signal => SemInv'
<1> SUFFICES ASSUME SemInv, S!semaphore_signal PROVE SemInv'
  OBVIOUS
<1>1. counter' = counter + 1 /\ waiters' = waiters /\ counter \in Nat
  BY DEF S!semaphore_signal, SemInv, S!TypeOK
<1>2. CASE S!In("cond") = {}
  <2>1. sem_pc' = sem_pc
    BY <1>2 DEF S!semaphore_signal, S!WakeOne
  <2>2. S!In("cond")' = {} /\ SemInside' = SemInside
    BY <1>2, <2>1 DEF S!In, SemInside
  <2>3. S!TypeOK'
    BY <1>1, <2>1 DEF SemInv, S!TypeOK
  <2>4. S!NoLostWakeup' /\ S!WaitersExact'
    BY <1>1, <2>2, SemCardinality DEF SemInv, S!NoLostWakeup, S!WaitersExact, SemInside
  <2> QED
    BY <2>3, <2>4 DEF SemInv
<1>3. CASE S!In("cond") # {}
  <2>1. waiters > 0
    <3>1. SemInside # {}
      BY <1>3 DEF SemInside
    <3>2. Cardinality(SemInside) # 0
      BY <3>1, SemFinite, FS_EmptySet
    <3> QED
      BY <3>2, SemFinite, SemCardinality DEF SemInv, S!WaitersExact, SemInside
  <2>2. PICK t \in S!In("cond") : sem_pc' = [sem_pc EXCEPT ![t] = "woken"]
    BY <1>3, <2>1 DEF S!semaphore_signal, S!WakeOne
  <2>3. /\ sem_pc' \in [SemThreads -> {"idle", "cond", "woken"}]
        /\ SemInside' = SemInside
        /\ Cardinality(S!In("woken")') = Cardinality(S!In("woken")) + 1
    BY <2>2, SemWake DEF SemInv
  <2>4. S!TypeOK'
    BY <1>1, <2>3 DEF SemInv, S!TypeOK
  <2>5. counter <= Cardinality(S!In("woken"))
    BY <1>3, SemCardinality DEF SemInv, S!NoLostWakeup
  <2>6. S!NoLostWakeup'
    BY <1>1, <2>3, <2>5, SemFinite, SemCardinality DEF S!NoLostWakeup
  <2>7. S!WaitersExact'
    BY <1>1, <2>3, SemCardinality DEF SemInv, S!WaitersExact, SemInside
  <2> QED
    BY <2>4, <2>6, <2>7 DEF SemInv
<1> QED
  BY <1>2, <1>3

\* A new wait takes a unit or becomes a waiter.
LEMMA SemWait ==
  ASSUME SemConstants, SemInv, NEW t \in SemThreads,
         S!semaphore_wait_take(t) \/ S!semaphore_wait_block(t)
  PROVE  SemInv'
<1>1. CASE S!semaphore_wait_take(t)
  <2>1. counter' = counter - 1 /\ counter' \in Nat /\ UNCHANGED <<waiters, sem_pc>>
    BY <1>1 DEF S!semaphore_wait_take, SemInv, S!TypeOK
  <2>2. \A s : S!In(s)' = S!In(s)
    BY <2>1 DEF S!In
  <2>3. S!NoLostWakeup'
    BY <2>1, <2>2, SemFinite, SemCardinality DEF SemInv, S!TypeOK, S!NoLostWakeup
  <2> QED
    BY <2>1, <2>2, <2>3, SemCardinality DEF SemInv, S!TypeOK, S!WaitersExact
<1>2. CASE S!semaphore_wait_block(t)
  <2>1. /\ counter = 0 /\ counter' = 0 /\ waiters' = waiters + 1
        /\ sem_pc[t] = "idle" /\ sem_pc' = [sem_pc EXCEPT ![t] = "cond"]
    BY <1>2 DEF S!semaphore_wait_block
  <2>2. SemInside' = SemInside \cup {t} /\ t \notin SemInside
    BY <2>1 DEF SemInv, S!TypeOK, S!In, SemInside
  <2>3. Cardinality(SemInside') = Cardinality(SemInside) + 1
    BY <2>2, SemFinite, FS_AddElement
  <2>4. S!WaitersExact'
    BY <2>1, <2>3, SemCardinality DEF SemInv, S!WaitersExact, SemInside
  <2>5. S!NoLostWakeup'
    BY <2>1, SemFiniteNext, SemCardinality DEF S!NoLostWakeup
  <2>6. S!TypeOK'
    BY <2>1 DEF SemInv, S!TypeOK
  <2> QED
    BY <2>4, <2>5, <2>6 DEF SemInv
<1> QED
  BY <1>1, <1>2

\* A woken thread takes a unit or sleeps again.
LEMMA SemRetest ==
  ASSUME SemConstants, SemInv, NEW t \in SemThreads, S!semaphore_wait_retest(t)
  PROVE  SemInv'
<1>1. sem_pc[t] = "woken" /\ t \in S!In("woken")
  BY DEF S!semaphore_wait_retest, S!In
<1>2. CASE counter = 0
  <2>1. sem_pc' = [sem_pc EXCEPT ![t] = "cond"] /\ UNCHANGED <<counter, waiters>>
    BY <1>2 DEF S!semaphore_wait_retest
  <2>2. SemInside' = SemInside
    BY <1>1, <2>1 DEF SemInv, S!TypeOK, S!In, SemInside
  <2>3. S!WaitersExact'
    BY <2>1, <2>2, SemCardinality DEF SemInv, S!WaitersExact, SemInside
  <2>4. S!NoLostWakeup'
    BY <1>2, <2>1, SemFiniteNext, SemCardinality DEF S!NoLostWakeup
  <2>5. S!TypeOK'
    BY <2>1 DEF SemInv, S!TypeOK
  <2> QED
    BY <2>3, <2>4, <2>5 DEF SemInv
<1>3. CASE counter # 0
  <2>1. /\ counter' = counter - 1 /\ waiters' = waiters - 1
        /\ sem_pc' = [sem_pc EXCEPT ![t] = "idle"]
    BY <1>3 DEF S!semaphore_wait_retest
  <2>2. /\ S!In("cond")' = S!In("cond") /\ S!In("woken")' = S!In("woken") \ {t}
        /\ SemInside' = SemInside \ {t} /\ t \in SemInside
    BY <1>1, <2>1 DEF SemInv, S!TypeOK, S!In, SemInside
  <2>3. /\ Cardinality(S!In("woken")') = Cardinality(S!In("woken")) - 1
        /\ Cardinality(SemInside') = Cardinality(SemInside) - 1
    BY <1>1, <2>2, SemFinite, FS_RemoveElement
  <2>4. S!WaitersExact'
    BY <2>1, <2>3, SemCardinality DEF SemInv, S!WaitersExact, SemInside
  <2>5. S!NoLostWakeup'
    BY <2>1, <2>2, <2>3, SemFinite, SemCardinality DEF SemInv, S!TypeOK, S!NoLostWakeup
  <2>6. counter' \in Nat
    BY <1>3, <2>1 DEF SemInv, S!TypeOK
  <2>7. waiters' \in Nat
    BY <2>4, SemFiniteNext, SemCardinality DEF S!WaitersExact, SemInside
  <2>8. S!TypeOK'
    BY <2>1, <2>6, <2>7 DEF SemInv, S!TypeOK
  <2> QED
    BY <2>4, <2>5, <2>8 DEF SemInv
<1> QED
  BY <1>2, <1>3

\* A spurious wake-up takes nobody's unit.
LEMMA SemSpurious ==
  ASSUME SemConstants, SemInv, NEW t \in SemThreads, S!SpuriousWakeup(t)
  PROVE  SemInv'
<1>1. t \in S!In("cond") /\ sem_pc' = [sem_pc EXCEPT ![t] = "woken"]
  BY DEF S!SpuriousWakeup, S!In
<1>2. UNCHANGED <<counter, waiters>>
  BY DEF S!SpuriousWakeup
<1>3. /\ sem_pc' \in [SemThreads -> {"idle", "cond", "woken"}]
      /\ SemInside' = SemInside
      /\ Cardinality(S!In("woken")') = Cardinality(S!In("woken")) + 1
  BY <1>1, SemWake DEF SemInv
<1>4. counter <= Cardinality(S!In("woken"))
  BY <1>1, SemCardinality DEF SemInv, S!NoLostWakeup
<1>5. S!NoLostWakeup'
  BY <1>2, <1>3, <1>4, SemFinite, SemCardinality DEF SemInv, S!TypeOK, S!NoLostWakeup
<1>6. S!TypeOK' /\ S!WaitersExact'
  BY <1>2, <1>3, SemCardinality DEF SemInv, S!TypeOK, S!WaitersExact, SemInside
<1> QED
  BY <1>5, <1>6 DEF SemInv

\* The invariant holds in every reachable state of the emulation.
LEMMA SemInductive ==
  ASSUME SemConstants
  PROVE  S!SafeSpec => []SemInv
<1>1. S!Init => SemInv
  BY SemInit
<1>2. SemInv /\ [S!Next]_S!vars => SemInv'
  <2> SUFFICES ASSUME SemInv, [S!Next]_S!vars PROVE SemInv'
    OBVIOUS
  <2>1. CASE UNCHANGED S!vars
    BY <2>1 DEF S!vars, SemInv, S!TypeOK, S!NoLostWakeup, S!WaitersExact, S!In
  <2>2. CASE S!semaphore_signal
    BY <2>2, SemSignal
  <2>3. CASE \E t \in SemThreads : \/ S!semaphore_wait_take(t)
                                \/ S!semaphore_wait_block(t)
                                \/ S!semaphore_wait_retest(t)
                                \/ S!SpuriousWakeup(t)
    BY <2>3, SemWait, SemRetest, SemSpurious
  <2> QED
    BY <2>1, <2>2, <2>3 DEF S!Next
<1> QED
  BY <1>1, <1>2, PTL DEF S!SafeSpec

\* The counter, which the code declares as a signed integer, never becomes
\* negative, and neither does the number of waiters.
THEOREM SemaphoreTypeCorrect ==
  ASSUME SemConstants
  PROVE  S!SafeSpec => []S!TypeOK
<1>1. SemInv => S!TypeOK
  BY DEF SemInv
<1> QED
  BY <1>1, SemInductive, PTL

\* H5TS_semaphore_signal never leaves a thread asleep that its unit was for.
THEOREM SemaphoreNoLostWakeup ==
  ASSUME SemConstants
  PROVE  S!SafeSpec => []S!NoLostWakeup
<1>1. SemInv => S!NoLostWakeup
  BY DEF SemInv
<1> QED
  BY <1>1, SemInductive, PTL

\* The emulation refines the abstract semaphore, whatever wakes its threads:
\* no wait returns without a unit of its own.
THEOREM SemaphoreRefinement ==
  ASSUME SemConstants
  PROVE  S!SafeSpec => S!Sem!SafeSpec
<1>1. S!Init => S!Sem!Init
  BY DEF S!Init, S!Sem!Init, S!In
<1>2. SemInv /\ [S!Next]_S!vars => [S!Sem!Next]_S!Sem!vars
  <2> SUFFICES ASSUME SemInv, [S!Next]_S!vars PROVE [S!Sem!Next]_S!Sem!vars
    OBVIOUS
  <2> USE DEF S!Sem!Next, S!Sem!vars
  <2>1. CASE UNCHANGED S!vars
    BY <2>1 DEF S!vars, S!In
  <2>2. CASE S!semaphore_signal
    <3>1. counter' = counter + 1
      BY <2>2 DEF S!semaphore_signal
    <3>2. CASE sem_pc' = sem_pc
      BY <3>1, <3>2 DEF S!Sem!Signal, S!In
    <3>3. ASSUME NEW t \in S!In("cond"), sem_pc' = [sem_pc EXCEPT ![t] = "woken"]
          PROVE  S!Sem!Signal
      BY <3>1, <3>3, SemWake DEF SemInv, S!Sem!Signal, SemInside
    <3> QED
      BY <2>2, <3>2, <3>3 DEF S!semaphore_signal, S!WakeOne
  <2>3. ASSUME NEW t \in SemThreads, S!semaphore_wait_take(t)
        PROVE  S!Sem!Take(t)
    BY <2>3 DEF S!semaphore_wait_take, S!Sem!Take, S!In
  <2>4. ASSUME NEW t \in SemThreads, S!semaphore_wait_block(t)
        PROVE  S!Sem!Block(t)
    BY <2>4 DEF S!semaphore_wait_block, S!Sem!Block, S!In, SemInv, S!TypeOK
  <2>5. ASSUME NEW t \in SemThreads, S!semaphore_wait_retest(t)
        PROVE  S!Sem!Take(t) \/ UNCHANGED S!Sem!vars
    <3>1. CASE counter = 0
      BY <2>5, <3>1 DEF S!semaphore_wait_retest, S!In, SemInv, S!TypeOK
    <3>2. CASE counter # 0
      BY <2>5, <3>2 DEF S!semaphore_wait_retest, S!Sem!Take, S!In, SemInv, S!TypeOK
    <3> QED
      BY <3>1, <3>2
  <2>6. ASSUME NEW t \in SemThreads, S!SpuriousWakeup(t)
        PROVE  UNCHANGED S!Sem!vars
    BY <2>6 DEF S!SpuriousWakeup, S!In, SemInv, S!TypeOK
  <2> QED
    BY <2>1, <2>2, <2>3, <2>4, <2>5, <2>6 DEF S!Next
<1> QED
  BY <1>1, <1>2, SemInductive, PTL DEF S!SafeSpec, S!Sem!SafeSpec
=============================================================================
