----------------------------- MODULE RWLockSpec -----------------------------
(***************************************************************************)
(* What the recursive readers / writer lock of the H5TS package promises   *)
(* its callers: any number of threads may hold read locks, or one thread   *)
(* may hold write locks, each to any recursion depth.  How threads wait    *)
(* and wake is not visible here; RecRWLock, the model of                   *)
(* H5TSrec_rwlock.c, implements this specification.                        *)
(***************************************************************************)
EXTENDS Naturals

CONSTANT Threads

VARIABLES rd_held,    \* rd_held[t]: read locks granted to t and not released
          wr_held     \* wr_held[t]: write locks granted to t and not released

vars == <<rd_held, wr_held>>

Init == /\ rd_held = [t \in Threads |-> 0]
        /\ wr_held = [t \in Threads |-> 0]

AcquireRead(t) ==
    /\ \A u \in Threads : wr_held[u] = 0
    /\ rd_held' = [rd_held EXCEPT ![t] = @ + 1]
    /\ UNCHANGED wr_held

ReleaseRead(t) ==
    /\ rd_held[t] > 0
    /\ rd_held' = [rd_held EXCEPT ![t] = @ - 1]
    /\ UNCHANGED wr_held

AcquireWrite(t) ==
    /\ \A u \in Threads : rd_held[u] = 0
    /\ \A u \in Threads \ {t} : wr_held[u] = 0
    /\ wr_held' = [wr_held EXCEPT ![t] = @ + 1]
    /\ UNCHANGED rd_held

ReleaseWrite(t) ==
    /\ wr_held[t] > 0
    /\ wr_held' = [wr_held EXCEPT ![t] = @ - 1]
    /\ UNCHANGED rd_held

Next == \E t \in Threads : \/ AcquireRead(t)
                           \/ ReleaseRead(t)
                           \/ AcquireWrite(t)
                           \/ ReleaseWrite(t)

Spec == Init /\ [][Next]_vars
=============================================================================
