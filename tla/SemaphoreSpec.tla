---------------------------- MODULE SemaphoreSpec ----------------------------
(***************************************************************************)
(* What a counting semaphore of the H5TS package promises: a wait takes    *)
(* one from the value and blocks while it is zero.  How threads sleep and  *)
(* wake is not visible.  Semaphore, the model of the emulation in          *)
(* H5TSsemaphore.h, implements this specification.                         *)
(***************************************************************************)
EXTENDS Naturals

CONSTANTS Threads,        \* the threads that use the semaphore
          initial_count   \* its value at first

VARIABLES value,     \* what can be taken
          blocked    \* the threads whose wait has not returned

vars == <<value, blocked>>

Init == value = initial_count /\ blocked = {}

Signal == value' = value + 1 /\ UNCHANGED blocked

Block(t) == /\ value = 0 /\ t \notin blocked
            /\ blocked' = blocked \cup {t}
            /\ UNCHANGED value

Take(t) == /\ value > 0
           /\ value' = value - 1
           /\ blocked' = blocked \ {t}

Next == Signal \/ \E t \in Threads : Block(t) \/ Take(t)

SafeSpec == Init /\ [][Next]_vars

\* Some blocked thread goes on if the value stays positive.
Spec == SafeSpec /\ WF_vars(\E t \in blocked : Take(t))
=============================================================================
