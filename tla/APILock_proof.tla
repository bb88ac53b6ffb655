---------------------------- MODULE APILock_proof ----------------------------
(***************************************************************************)
(* Proofs about APILock, for any finite set of threads and any depth of    *)
(* calls and callbacks.                                                    *)
(*                                                                         *)
(* InsideOwnsLock and CountRestored speak of the top of a thread's stack   *)
(* only; a function or a callback that returns uncovers the frame below,   *)
(* so the invariant says of every frame with which disable count the code  *)
(* in it runs (RunsWith), and that the frame above was entered with that   *)
(* count (Nested).  Nothing has to be said of the lock below the top: who  *)
(* owns it follows from the count a function returns with.                 *)
(***************************************************************************)
EXTENDS APILock, FiniteSetTheorems, SequenceTheorems, TLAPS

Api   == [code : {"api"}, dlftt : Nat]
User  == [code : {"user"}, saved : Nat]
Frame == Api \cup User

\* A stack of frames, the outermost one user code, the kinds in turn.
Stack(f) ==
  /\ f \in Seq(Frame)
  /\ Len(f) >= 1
  /\ \A i \in 1..Len(f) : f[i] \in IF i % 2 = 1 THEN User ELSE Api

\* The code in frame i of f runs with the disable count c, whenever it is
\* on top: a function with the count it read, a callback with one more, user
\* code that gave the lock up with zero.  The application's outermost code
\* may have any count.
RunsWith(f, i, c) ==
  IF f[i].code = "api" THEN c = f[i].dlftt
  ELSE IF f[i].saved > 0 THEN c = 0
  ELSE i > 1 => c = f[i - 1].dlftt + 1

\* A function read the count that its caller ran with, and what a callback
\* keeps of a lock it gave up is the count it was called with.
Entered(f, i) ==
  IF f[i].code = "api" THEN RunsWith(f, i - 1, f[i].dlftt)
  ELSE f[i].saved > 0 => f[i].saved = f[i - 1].dlftt + 1

Nested(f) == \A i \in 2..Len(f) : Entered(f, i)

Well(f, c) == Stack(f) /\ Nested(f) /\ RunsWith(f, Len(f), c)

\* One owner at most, and lock->writers counts it.
LockOK ==
  /\ writers \in 0..1
  /\ wr_held \in [Threads -> 0..1]
  /\ \A t, v \in Threads : wr_held[t] = 1 /\ wr_held[v] = 1 => t = v
  /\ writers = 1 <=> \E t \in Threads : wr_held[t] = 1

Waiting == {t \in Threads : at[t] # "run"}

\* lock->write_waiters counts the threads in the loop of wrlock.
WaitOK ==
  /\ at \in [Threads -> {"run", "write_cv", "woken"}]
  /\ write_waiters = Cardinality(Waiting)

\* A thread owns the lock when it runs library code, and when the disable
\* count of the user code it runs is positive; it waits with count zero.
ThreadOK(t) ==
  /\ Well(frames[t], dlftt[t])
  /\ wr_held[t] = 1 <=> (Top(t).code = "api" \/ dlftt[t] > 0)
  /\ at[t] # "run" => Top(t).code = "user" /\ dlftt[t] = 0

DataOK ==
  /\ dlftt \in [Threads -> Nat]
  /\ frames \in [Threads -> Seq(Frame)]
  /\ calls \in 0..MaxCalls

IInv == LockOK /\ WaitOK /\ DataOK /\ \A t \in Threads : ThreadOK(t)
-----------------------------------------------------------------------------
(***************************************************************************)
(* Stacks of frames                                                        *)
(***************************************************************************)

\* What kind of frame is on top, and what is below it.
LEMMA TopFrame ==
  ASSUME NEW f, Stack(f)
  PROVE  /\ Len(f) \in Nat \ {0} /\ (Len(f) = 1 \/ Len(f) > 1)
         /\ Last(f) = f[Len(f)] /\ Last(f) \in Frame
         /\ Last(f).code = "user" => Last(f) \in User /\ Len(f) % 2 = 1
         /\ Last(f).code = "api" => Last(f) \in Api /\ Len(f) % 2 = 0 /\ Len(f) > 1
<1>1. Len(f) \in Nat \ {0}
  BY DEF Stack
<1>2. Last(f) = f[Len(f)]
  BY DEF Last
<1>3. f[Len(f)] \in IF Len(f) % 2 = 1 THEN User ELSE Api
  BY <1>1 DEF Stack
<1>4. Len(f) = 1 \/ Len(f) > 1
  <2>1. \A n \in Nat \ {0} : n = 1 \/ n > 1
    OBVIOUS
  <2> QED
    BY <1>1, <2>1
<1>5. CASE Len(f) % 2 = 1
  BY <1>1, <1>2, <1>3, <1>4, <1>5 DEF User, Frame
<1>6. CASE Len(f) % 2 # 1
  BY <1>1, <1>2, <1>3, <1>4, <1>6 DEF Api, Frame
<1> QED
  BY <1>5, <1>6

\* A stack read entry by entry after a frame is pushed, ...
LEMMA PushShape ==
  ASSUME NEW f, Stack(f), NEW x \in Frame
  PROVE  LET g == Append(f, x)
         IN  /\ g \in Seq(Frame) /\ Len(g) = Len(f) + 1
             /\ g[Len(f) + 1] = x /\ Last(g) = x
             /\ \A i \in 1..Len(f) : g[i] = f[i]
BY DEF Stack, Last

\* ... and after the top one is popped.
LEMMA PopShape ==
  ASSUME NEW f, Stack(f)
  PROVE  LET g == Front(f)
         IN  /\ g \in Seq(Frame) /\ Len(g) = Len(f) - 1
             /\ \A i \in 1..Len(g) : g[i] = f[i]
<1> DEFINE g == Front(f)
<1>1. g = SubSeq(f, 1, Len(f) - 1)
  BY DEF Front
<1>2. f \in Seq(Frame) /\ Len(f) \in Nat /\ Len(f) >= 1
  BY DEF Stack
<1>3. /\ g \in Seq(Frame) /\ Len(g) = Len(f) - 1
      /\ \A i \in 1..(Len(f) - 1) : g[i] = f[i]
  <2> DEFINE n == Len(f) - 1
  <2>1. n \in Nat /\ \A i \in 1..n : f[i] \in Frame
    BY <1>2
  <2>2. /\ SubSeq(f, 1, n) \in Seq(Frame)
        /\ Len(SubSeq(f, 1, n)) = IF 1 <= n THEN n - 1 + 1 ELSE 0
        /\ \A i \in 1..(n - 1 + 1) : SubSeq(f, 1, n)[i] = f[1 + i - 1]
    <3> HIDE DEF n
    <3> QED
      BY <2>1, SubSeqProperties
  <2>3. (IF 1 <= n THEN n - 1 + 1 ELSE 0) = n /\ n - 1 + 1 = n
    <3> HIDE DEF n
    <3> QED
      BY <2>1
  <2>4. \A i \in 1..(Len(f) - 1) : 1 + i - 1 = i
    OBVIOUS
  <2> QED
    BY <1>1, <2>2, <2>3, <2>4
<1> QED
  BY <1>3

\* What is said of a frame depends on it and the frames below.
LEMMA SameBelow ==
  ASSUME NEW f, NEW g, NEW m \in Nat, \A j \in 1..m : g[j] = f[j],
         NEW i \in 1..m
  PROVE  /\ \A c : RunsWith(g, i, c) <=> RunsWith(f, i, c)
         /\ i > 1 => (Entered(g, i) <=> Entered(f, i))
<1>1. g[i] = f[i] /\ (i > 1 => g[i - 1] = f[i - 1])
  OBVIOUS
<1>2. \A c : RunsWith(g, i, c) <=> RunsWith(f, i, c)
  BY <1>1 DEF RunsWith
<1>3. ASSUME i > 1
      PROVE  Entered(g, i) <=> Entered(f, i)
  <2>1. g[i - 1] = f[i - 1] /\ (i - 1 > 1 => g[i - 1 - 1] = f[i - 1 - 1])
    BY <1>3
  <2>2. \A c : RunsWith(g, i - 1, c) <=> RunsWith(f, i - 1, c)
    BY <2>1 DEF RunsWith
  <2> QED
    BY <1>1, <2>1, <2>2 DEF Entered
<1> QED
  BY <1>2, <1>3

\* A frame x pushed on a stack of the other kind: what it must satisfy.
LEMMA PushWell ==
  ASSUME NEW f, Stack(f), Nested(f), NEW x \in Frame, NEW c,
         x \in IF Len(f) % 2 = 0 THEN User ELSE Api,
         LET g == Append(f, x)
         IN  Entered(g, Len(f) + 1) /\ RunsWith(g, Len(f) + 1, c)
  PROVE  Well(Append(f, x), c)
<1> DEFINE g == Append(f, x)
<1>1. /\ g \in Seq(Frame) /\ Len(g) = Len(f) + 1
      /\ g[Len(f) + 1] = x
      /\ \A i \in 1..Len(f) : g[i] = f[i]
  BY PushShape
<1>2. Len(f) \in Nat \ {0}
  BY TopFrame
<1>3. Entered(g, Len(f) + 1) /\ RunsWith(g, Len(f) + 1, c)
  OBVIOUS
<1> HIDE DEF g
<1>4. Stack(g)
  <2>1. \A i \in 1..Len(g) : i \in 1..Len(f) \/ i = Len(f) + 1
    BY <1>1, <1>2
  <2>2. (Len(f) + 1) % 2 = 1 <=> Len(f) % 2 = 0
    BY <1>2
  <2>3. g[Len(f) + 1] \in IF (Len(f) + 1) % 2 = 1 THEN User ELSE Api
    BY <1>1, <2>2
  <2>4. \A i \in 1..Len(f) : g[i] \in IF i % 2 = 1 THEN User ELSE Api
    BY <1>1 DEF Stack
  <2>5. Len(g) >= 1
    BY <1>1, <1>2
  <2> QED
    BY <1>1, <2>1, <2>3, <2>4, <2>5 DEF Stack
<1>5. Nested(g)
  <2> SUFFICES ASSUME NEW i \in 2..Len(g) PROVE Entered(g, i)
    BY DEF Nested
  <2>1. CASE i = Len(f) + 1
    BY <1>3, <2>1
  <2>2. CASE i # Len(f) + 1
    <3>1. i \in 2..Len(f) /\ i \in 1..Len(f) /\ i > 1
      BY <1>1, <1>2, <2>2
    <3>2. Entered(f, i)
      BY <3>1 DEF Nested
    <3> QED
      BY <1>1, <1>2, <3>1, <3>2, SameBelow
  <2> QED
    BY <2>1, <2>2
<1>6. Well(g, c)
  BY <1>1, <1>3, <1>4, <1>5 DEF Well
<1> QED
  BY <1>6 DEF g

\* What is left of a stack when its top is popped.
LEMMA PopWell ==
  ASSUME NEW f, Stack(f), Nested(f), Len(f) > 1
  PROVE  LET g == Front(f)
         IN  Stack(g) /\ Nested(g) /\ g \in Seq(Frame) /\ Len(g) = Len(f) - 1
             /\ Last(g) = f[Len(f) - 1]
             /\ \A c : RunsWith(f, Len(f) - 1, c) => Well(g, c)
<1> DEFINE g == Front(f)
<1>1. /\ g \in Seq(Frame) /\ Len(g) = Len(f) - 1
      /\ \A i \in 1..Len(g) : g[i] = f[i]
  BY PopShape
<1>2. Len(f) \in Nat \ {0} /\ Len(g) \in Nat /\ Len(g) >= 1
  BY <1>1, TopFrame
<1> HIDE DEF g
<1>3. Stack(g)
  <2>1. 1..Len(g) \subseteq 1..Len(f)
    BY <1>1, <1>2
  <2> QED
    BY <1>1, <1>2, <2>1 DEF Stack
<1>4. Nested(g)
  <2> SUFFICES ASSUME NEW i \in 2..Len(g) PROVE Entered(g, i)
    BY DEF Nested
  <2>1. i \in 2..Len(f) /\ i \in 1..Len(g) /\ i > 1
    BY <1>1, <1>2
  <2> QED
    BY <1>1, <1>2, <2>1, SameBelow DEF Nested
<1>5. Len(g) \in 1..Len(g)
  BY <1>2
<1>6. \A c : RunsWith(g, Len(g), c) <=> RunsWith(f, Len(g), c)
  BY <1>1, <1>2, <1>5, SameBelow
<1>7. Last(g) = f[Len(f) - 1]
  BY <1>1, <1>5 DEF Last
<1>8. \A c : RunsWith(f, Len(f) - 1, c) => Well(g, c)
  BY <1>1, <1>3, <1>4, <1>6 DEF Well
<1> QED
  BY <1>1, <1>3, <1>4, <1>7, <1>8 DEF g

\* A function is called with the count c of its caller, ...
LEMMA CallLemma ==
  ASSUME NEW f, NEW c \in Nat, Well(f, c), Last(f).code = "user"
  PROVE  Well(Append(f, ApiFrame(c)), c)
<1> DEFINE g == Append(f, ApiFrame(c))
<1>1. /\ ApiFrame(c) \in Api /\ ApiFrame(c) \in Frame
      /\ ApiFrame(c).code = "api" /\ ApiFrame(c).dlftt = c
  BY DEF ApiFrame, Api, Frame
<1>2. /\ g[Len(f) + 1] = ApiFrame(c)
      /\ \A i \in 1..Len(f) : g[i] = f[i]
  BY <1>1, PushShape DEF Well
<1>3. Len(f) \in Nat \ {0} /\ Len(f) % 2 = 1
  BY TopFrame DEF Well
<1> HIDE DEF g
<1>4. RunsWith(g, Len(f), c)
  BY <1>2, <1>3, SameBelow DEF Well
<1>5. Entered(g, Len(f) + 1) /\ RunsWith(g, Len(f) + 1, c)
  <2>1. Len(f) + 1 - 1 = Len(f)
    BY <1>3
  <2> QED
    BY <1>1, <1>2, <1>4, <2>1 DEF Entered, RunsWith
<1> QED
  BY <1>1, <1>3, <1>5, PushWell DEF g, Well

\* ... a callback with one more than the function that calls it.
LEMMA CallbackLemma ==
  ASSUME NEW f, NEW c \in Nat, Well(f, c), Last(f).code = "api"
  PROVE  Well(Append(f, UserFrame(0)), c + 1)
<1> DEFINE g == Append(f, UserFrame(0))
<1>1. /\ UserFrame(0) \in User /\ UserFrame(0) \in Frame
      /\ UserFrame(0).code = "user" /\ UserFrame(0).saved = 0
  BY DEF UserFrame, User, Frame
<1>2. /\ g[Len(f) + 1] = UserFrame(0)
      /\ \A i \in 1..Len(f) : g[i] = f[i]
  BY <1>1, PushShape DEF Well
<1>3. /\ Len(f) \in Nat \ {0} /\ Len(f) % 2 = 0 /\ Last(f) = f[Len(f)]
      /\ Last(f).dlftt = c
  BY TopFrame DEF Well, RunsWith
<1> HIDE DEF g
<1>4. Entered(g, Len(f) + 1) /\ RunsWith(g, Len(f) + 1, c + 1)
  <2>1. Len(f) + 1 - 1 = Len(f) /\ Len(f) \in 1..Len(f)
    BY <1>3
  <2>2. g[Len(f)].dlftt = c
    BY <1>2, <1>3, <2>1
  <2> QED
    BY <1>1, <1>2, <2>1, <2>2 DEF Entered, RunsWith
<1> QED
  BY <1>1, <1>3, <1>4, PushWell DEF g, Well

\* A function returns with the count it read, with which its caller ran.
LEMMA ReturnLemma ==
  ASSUME NEW f, NEW c \in Nat, Well(f, c), Last(f).code = "api"
  PROVE  /\ Last(f).dlftt = c
         /\ Well(Front(f), c) /\ Last(Front(f)).code = "user"
<1>1. /\ Len(f) \in Nat \ {0} /\ Len(f) > 1 /\ Len(f) % 2 = 0
      /\ Last(f) = f[Len(f)]
  BY TopFrame DEF Well
<1>2. Last(f).dlftt = c
  BY <1>1 DEF Well, RunsWith
<1>3. Entered(f, Len(f))
  BY <1>1 DEF Well, Nested
<1>4. RunsWith(f, Len(f) - 1, c)
  BY <1>1, <1>2, <1>3 DEF Entered
<1>5. Well(Front(f), c) /\ Last(Front(f)) = f[Len(f) - 1]
  BY <1>1, <1>4, PopWell DEF Well
<1>6. f[Len(f) - 1] \in User
  <2>1. (Len(f) - 1) % 2 = 1 /\ Len(f) - 1 \in 1..Len(f)
    BY <1>1
  <2> QED
    BY <2>1 DEF Well, Stack
<1> QED
  BY <1>2, <1>5, <1>6 DEF User

\* A callback that holds what it was called with returns to a function whose
\* count is one less.
LEMMA CallbackReturnLemma ==
  ASSUME NEW f, NEW c \in Nat, Well(f, c), Last(f).code = "user", Len(f) > 1,
         Last(f).saved = 0
  PROVE  /\ c > 0
         /\ Well(Front(f), c - 1) /\ Last(Front(f)).code = "api"
<1>1. /\ Len(f) \in Nat \ {0} /\ Len(f) % 2 = 1 /\ Last(f) = f[Len(f)]
  BY TopFrame DEF Well
<1>2. c = f[Len(f) - 1].dlftt + 1
  BY <1>1 DEF Well, RunsWith
<1>3. f[Len(f) - 1] \in Api
  <2>1. (Len(f) - 1) % 2 # 1 /\ Len(f) - 1 \in 1..Len(f)
    BY <1>1
  <2> QED
    BY <2>1 DEF Well, Stack
<1>4. f[Len(f) - 1].code = "api" /\ f[Len(f) - 1].dlftt \in Nat
  BY <1>3 DEF Api
<1>5. RunsWith(f, Len(f) - 1, c - 1)
  BY <1>2, <1>4 DEF RunsWith
<1> QED
  BY <1>1, <1>2, <1>4, <1>5, PopWell DEF Well

\* User code that gives the lock up keeps the count v it had and runs with
\* zero; when it takes the lock back it runs with v and keeps nothing.
LEMMA SavedLemma ==
  ASSUME NEW f, NEW c \in Nat, Well(f, c), Last(f).code = "user",
         NEW v \in Nat, NEW d \in Nat,
         \/ c > 0 /\ v = c /\ d = 0
         \/ Last(f).saved > 0 /\ v = 0 /\ d = Last(f).saved
         \/ Len(f) = 1 /\ v = 0
  PROVE  LET g == Append(Front(f), UserFrame(v))
         IN  /\ Well(g, d) /\ g \in Seq(Frame) /\ Len(g) = Len(f)
             /\ Last(g) = UserFrame(v)
<1> DEFINE h == Front(f)
           g == Append(h, UserFrame(v))
<1> SUFFICES /\ Well(g, d) /\ g \in Seq(Frame) /\ Len(g) = Len(f)
             /\ Last(g) = UserFrame(v)
  OBVIOUS
<1>1. /\ Len(f) \in Nat \ {0} /\ Len(f) % 2 = 1 /\ Last(f) = f[Len(f)]
      /\ f[Len(f)] \in User
  BY TopFrame DEF Well
<1>2. /\ UserFrame(v) \in User /\ UserFrame(v) \in Frame
      /\ UserFrame(v).code = "user" /\ UserFrame(v).saved = v
  BY DEF UserFrame, User, Frame
<1>3. CASE Len(f) = 1
  <2>1. h = << >>
    BY <1>3, PopShape, EmptySeq DEF Well
  <2>2. g = <<UserFrame(v)>>
    BY <2>1
  <2>3. g \in Seq(Frame) /\ Len(g) = 1 /\ g[1] = UserFrame(v) /\ Last(g) = UserFrame(v)
    BY <1>2, <2>2 DEF Last
  <2>4. Stack(g) /\ Nested(g)
    BY <1>2, <2>3 DEF Stack, Nested
  <2>5. RunsWith(g, 1, d)
    BY <1>1, <1>2, <1>3, <2>3 DEF RunsWith, User
  <2> QED
    BY <1>3, <2>3, <2>4, <2>5 DEF Well
<1>4. CASE Len(f) > 1
  <2>1. /\ Stack(h) /\ Nested(h) /\ Len(h) = Len(f) - 1
        /\ Last(h) = f[Len(f) - 1]
    BY <1>4, PopWell DEF Well
  <2>2. h[Len(h)] = f[Len(f) - 1]
    BY <2>1, TopFrame
  <2> HIDE DEF h
  <2>3. /\ g \in Seq(Frame) /\ Len(g) = Len(f) /\ Last(g) = UserFrame(v)
        /\ g[Len(f)] = UserFrame(v) /\ g[Len(f) - 1] = f[Len(f) - 1]
    <3>1. Len(h) + 1 = Len(f) /\ Len(h) \in 1..Len(h)
      BY <1>1, <1>4, <2>1
    <3> QED
      BY <1>2, <2>1, <2>2, <3>1, PushShape
  <2>4. f[Len(f) - 1].dlftt \in Nat
    <3>1. (Len(f) - 1) % 2 # 1 /\ Len(f) - 1 \in 1..Len(f)
      BY <1>1, <1>4
    <3> QED
      BY <3>1 DEF Well, Stack, Api
  <2>5. /\ v > 0 => v = f[Len(f) - 1].dlftt + 1 /\ d = 0
        /\ v = 0 => d = f[Len(f) - 1].dlftt + 1
    <3>1. RunsWith(f, Len(f), c) /\ Entered(f, Len(f))
      BY <1>1, <1>4 DEF Well, Nested
    <3>2. f[Len(f)].code = "user" /\ f[Len(f)].saved \in Nat
      BY <1>1 DEF User
    <3> QED
      BY <1>1, <1>4, <2>4, <3>1, <3>2 DEF RunsWith, Entered
  <2> HIDE DEF g
  <2>6. Entered(g, Len(h) + 1) /\ RunsWith(g, Len(h) + 1, d)
    <3>1. Len(h) + 1 = Len(f)
      BY <1>1, <2>1
    <3> QED
      BY <1>2, <1>4, <2>3, <2>5, <3>1 DEF Entered, RunsWith
  <2>7. Len(h) % 2 = 0
    BY <1>1, <2>1
  <2>8. Well(g, d)
    BY <1>2, <2>1, <2>6, <2>7, PushWell DEF g
  <2> QED
    BY <2>3, <2>8 DEF g, h
<1>5. \A n \in Nat \ {0} : n = 1 \/ n > 1
  OBVIOUS
<1> HIDE DEF g
<1> QED
  BY <1>1, <1>3, <1>4, <1>5
-----------------------------------------------------------------------------
(***************************************************************************)
(* The lock                                                                *)
(***************************************************************************)

\* A thread that finds lock->writers zero becomes the only owner.
LEMMA TakeLemma ==
  ASSUME LockOK, NEW t \in Threads, writers = 0, TakeWrite(t)
  PROVE  /\ LockOK' /\ wr_held[t] = 0 /\ wr_held'[t] = 1
         /\ \A v \in Threads : wr_held[v] = 0
         /\ \A v \in Threads \ {t} : wr_held'[v] = wr_held[v]
<1>1. writers' = 1 /\ wr_held' = [wr_held EXCEPT ![t] = @ + 1]
  BY DEF TakeWrite
<1>2. \A v \in Threads : wr_held[v] = 0
  BY DEF LockOK
<1> QED
  BY <1>1, <1>2 DEF LockOK

\* The owner leaves the lock free.
LEMMA ReleaseLemma ==
  ASSUME LockOK, WaitOK, NEW t \in Threads, wr_held[t] = 1, wrunlock(t)
  PROVE  /\ LockOK' /\ wr_held'[t] = 0
         /\ \A v \in Threads \ {t} : wr_held'[v] = wr_held[v]
         /\ WaitOK' /\ \A v \in Threads : at'[v] = "run" <=> at[v] = "run"
<1>1. writers' = writers - 1 /\ wr_held' = [wr_held EXCEPT ![t] = @ - 1]
  BY DEF wrunlock
<1>2. writers = 1 /\ \A v \in Threads \ {t} : wr_held[v] = 0
  BY DEF LockOK
<1>3. LockOK' /\ wr_held'[t] = 0 /\ \A v \in Threads \ {t} : wr_held'[v] = wr_held[v]
  BY <1>1, <1>2 DEF LockOK
<1>4. \/ at' = at
      \/ \E v \in Threads : at[v] = "write_cv" /\ at' = [at EXCEPT ![v] = "woken"]
  BY DEF wrunlock
<1>5. /\ at' \in [Threads -> {"run", "write_cv", "woken"}]
      /\ \A v \in Threads : at'[v] = "run" <=> at[v] = "run"
  BY <1>4 DEF WaitOK
<1>6. WaitOK'
  <2>1. Waiting' = Waiting /\ write_waiters' = write_waiters
    BY <1>5 DEF Waiting, wrunlock
  <2> QED
    BY <1>5, <2>1 DEF WaitOK
<1> QED
  BY <1>3, <1>5, <1>6

\* The waiters can be counted, and a thread that starts or stops waiting
\* changes their number by one.
LEMMA WaitersCounted ==
  ASSUME WaitOK, NEW t \in Threads, NEW s \in {"run", "write_cv", "woken"},
         at' = [at EXCEPT ![t] = s],
         write_waiters' = IF at[t] = "run" /\ s # "run" THEN write_waiters + 1
                          ELSE IF at[t] # "run" /\ s = "run" THEN write_waiters - 1
                          ELSE write_waiters
  PROVE  WaitOK' /\ \A v \in Threads \ {t} : at'[v] = at[v]
<1>1. /\ at' \in [Threads -> {"run", "write_cv", "woken"}]
      /\ at'[t] = s /\ \A v \in Threads \ {t} : at'[v] = at[v]
  BY DEF WaitOK
<1>2. IsFiniteSet(Waiting)
  BY ThreadsAssumption, FS_Subset DEF Waiting
<1>3. write_waiters' = Cardinality(Waiting')
  <2>1. CASE at[t] = "run" /\ s # "run"
    <3>1. Waiting' = Waiting \cup {t} /\ t \notin Waiting
      BY <1>1, <2>1 DEF Waiting
    <3> QED
      BY <1>2, <2>1, <3>1, FS_AddElement DEF WaitOK
  <2>2. CASE at[t] # "run" /\ s = "run"
    <3>1. Waiting' = Waiting \ {t} /\ t \in Waiting
      BY <1>1, <2>2 DEF Waiting
    <3> QED
      BY <1>2, <2>2, <3>1, FS_RemoveElement DEF WaitOK
  <2>3. CASE (at[t] = "run") = (s = "run")
    <3>1. Waiting' = Waiting
      BY <1>1, <2>3 DEF Waiting
    <3> QED
      BY <2>3, <3>1 DEF WaitOK
  <2> QED
    BY <2>1, <2>2, <2>3
<1> QED
  BY <1>1, <1>3 DEF WaitOK
-----------------------------------------------------------------------------
(***************************************************************************)
(* The invariant                                                           *)
(***************************************************************************)

\* At first every thread runs its own code, without the lock.
LEMMA InitLemma == Init => IInv
<1> SUFFICES ASSUME Init PROVE IInv
  OBVIOUS
<1>1. LockOK
  BY DEF Init, LockOK
<1>2. WaitOK
  <2>1. Waiting = {}
    BY DEF Init, Waiting
  <2> QED
    BY <2>1, FS_EmptySet DEF Init, WaitOK
<1>3. /\ UserFrame(0) \in User /\ UserFrame(0) \in Frame
      /\ UserFrame(0).code = "user" /\ UserFrame(0).saved = 0
  BY DEF UserFrame, User, Frame
<1>4. DataOK
  BY <1>3, BoundsAssumption DEF Init, DataOK
<1>5. ASSUME NEW t \in Threads PROVE ThreadOK(t)
  <2> DEFINE f == <<UserFrame(0)>>
  <2>1. frames[t] = f /\ dlftt[t] = 0 /\ at[t] = "run" /\ wr_held[t] = 0
    BY DEF Init
  <2>2. f \in Seq(Frame) /\ Len(f) = 1 /\ f[1] = UserFrame(0) /\ Last(f) = UserFrame(0)
    BY <1>3 DEF Last
  <2> HIDE DEF f
  <2>3. Well(f, 0)
    BY <1>3, <2>2 DEF Well, Stack, Nested, RunsWith
  <2> QED
    BY <1>3, <2>1, <2>2, <2>3 DEF ThreadOK, Top
<1> QED
  BY <1>1, <1>2, <1>4, <1>5 DEF IInv

\* A step of a thread t is harmless if it leaves the lock, the waiters and t
\* in order and takes nothing from the other threads.
LEMMA StepLemma ==
  ASSUME IInv, LockOK', WaitOK', NEW t \in Threads,
         calls' \in 0..MaxCalls,
         NEW d \in Nat, dlftt' = [dlftt EXCEPT ![t] = d],
         NEW g \in Seq(Frame), frames' = [frames EXCEPT ![t] = g],
         \A v \in Threads \ {t} : /\ wr_held'[v] = wr_held[v]
                                  /\ at'[v] # "run" => at[v] # "run",
         Well(g, d),
         wr_held'[t] = 1 <=> (Last(g).code = "api" \/ d > 0),
         at'[t] # "run" => Last(g).code = "user" /\ d = 0
  PROVE  IInv'
<1>1. DataOK'
  BY DEF IInv, DataOK
<1>2. ASSUME NEW v \in Threads, v # t PROVE ThreadOK(v)'
  <2>1. /\ dlftt'[v] = dlftt[v] /\ frames'[v] = frames[v]
        /\ wr_held'[v] = wr_held[v]
        /\ at'[v] # "run" => at[v] # "run"
    BY <1>2 DEF IInv, DataOK
  <2>2. ThreadOK(v)
    BY DEF IInv
  <2> QED
    BY <2>1, <2>2 DEF ThreadOK, Top
<1>3. ThreadOK(t)'
  <2>1. dlftt'[t] = d /\ frames'[t] = g
    BY DEF IInv, DataOK
  <2> QED
    BY <2>1 DEF ThreadOK, Top
<1> QED
  BY <1>1, <1>2, <1>3 DEF IInv

\* Calls into the library: the count of the caller decides whether the lock
\* is taken, and is what the function keeps.
LEMMA LockStep ==
  ASSUME IInv, NEW t \in Threads,
         api_lock_skip(t) \/ api_lock_take(t) \/ api_lock_wait(t) \/ api_lock_retest(t)
  PROVE  IInv'
<1> DEFINE f == frames[t]
           c == dlftt[t]
           g == Append(f, ApiFrame(c))
<1>1. /\ LockOK /\ WaitOK /\ DataOK /\ ThreadOK(t) /\ Well(f, c)
      /\ c \in Nat /\ f \in Seq(Frame) /\ Stack(f)
  BY DEF IInv, DataOK, ThreadOK, Well
<1>2. ApiFrame(c) \in Frame /\ ApiFrame(c).code = "api"
  BY <1>1 DEF ApiFrame, Api, Frame
<1>3. ASSUME Last(f).code = "user"
      PROVE  Well(g, c) /\ g \in Seq(Frame) /\ Last(g).code = "api"
  BY <1>1, <1>2, <1>3, CallLemma, PushShape
<1>4. dlftt = [dlftt EXCEPT ![t] = c] /\ frames = [frames EXCEPT ![t] = f]
  BY <1>1 DEF DataOK
<1>5. ASSUME NEW s PROVE  at[t] = s => at = [at EXCEPT ![t] = s]
  BY <1>1 DEF WaitOK
<1>6. Counted \/ calls' = calls => calls' \in 0..MaxCalls
  BY <1>1, BoundsAssumption DEF Counted, DataOK
<1>7. ASSUME api_lock_skip(t) PROVE IInv'
  <2>1. /\ at[t] = "run" /\ Last(f).code = "user" /\ c > 0 /\ Counted
        /\ dlftt' = dlftt /\ frames' = [frames EXCEPT ![t] = g]
        /\ UNCHANGED <<writers, write_waiters, at, wr_held>>
    BY <1>1, <1>7 DEF api_lock_skip, InUserCode, Top, Push, lockVars, DataOK
  <2>2. LockOK' /\ WaitOK'
    BY <1>1, <2>1 DEF LockOK, WaitOK, Waiting
  <2>3. wr_held'[t] = 1 /\ at'[t] = "run"
    BY <1>1, <2>1 DEF ThreadOK
  <2> HIDE DEF g, f, c
  <2> QED
    BY <1>1, <1>3, <1>4, <1>6, <2>1, <2>2, <2>3, StepLemma
<1>8. ASSUME api_lock_take(t) PROVE IInv'
  <2>1. /\ at[t] = "run" /\ Last(f).code = "user" /\ c = 0 /\ Counted
        /\ dlftt' = dlftt /\ frames' = [frames EXCEPT ![t] = g]
        /\ writers = 0 /\ TakeWrite(t) /\ UNCHANGED <<write_waiters, at>>
    BY <1>1, <1>8 DEF api_lock_take, InUserCode, Top, Push, wrlock_take
  <2>2. WaitOK'
    BY <1>1, <2>1 DEF WaitOK, Waiting
  <2> HIDE DEF g, f, c
  <2> QED
    BY <1>1, <1>3, <1>4, <1>6, <2>1, <2>2, TakeLemma, StepLemma
<1>9. ASSUME api_lock_wait(t) PROVE IInv'
  <2>1. /\ at[t] = "run" /\ Last(f).code = "user" /\ c = 0 /\ Counted
        /\ dlftt' = dlftt /\ frames' = frames
        /\ write_waiters' = write_waiters + 1
        /\ at' = [at EXCEPT ![t] = "write_cv"] /\ UNCHANGED <<writers, wr_held>>
    BY <1>9 DEF api_lock_wait, InUserCode, Top, wrlock_wait
  <2>2. WaitOK' /\ \A v \in Threads \ {t} : at'[v] = at[v]
    BY <1>1, <2>1, WaitersCounted
  <2>3. LockOK'
    BY <1>1, <2>1 DEF LockOK
  <2>4. wr_held'[t] # 1
    BY <1>1, <2>1 DEF ThreadOK, Top
  <2> HIDE DEF f, c
  <2> QED
    BY <1>1, <1>4, <1>6, <2>1, <2>2, <2>3, <2>4, StepLemma
<1>10. ASSUME api_lock_retest(t) PROVE IInv'
  <2>1. /\ at[t] = "woken" /\ dlftt' = dlftt /\ calls' = calls
        /\ Last(f).code = "user" /\ c = 0 /\ wr_held[t] # 1
    BY <1>1, <1>10 DEF api_lock_retest, ThreadOK, Top
  <2>2. CASE writers > 0
    <3>1. /\ at' = [at EXCEPT ![t] = "write_cv"]
          /\ UNCHANGED <<writers, write_waiters, wr_held>>
          /\ frames' = frames
      BY <1>10, <2>2 DEF api_lock_retest
    <3>2. WaitOK' /\ \A v \in Threads \ {t} : at'[v] = at[v]
      BY <1>1, <2>1, <3>1, WaitersCounted
    <3>3. LockOK'
      BY <1>1, <3>1 DEF LockOK
    <3> HIDE DEF f, c
    <3> QED
      BY <1>1, <1>4, <1>6, <2>1, <3>1, <3>2, <3>3, StepLemma
  <2>3. CASE ~(writers > 0)
    <3>1. /\ at' = [at EXCEPT ![t] = "run"]
          /\ write_waiters' = write_waiters - 1
          /\ TakeWrite(t)
          /\ frames' = [frames EXCEPT ![t] = g]
      BY <1>10, <2>1, <2>3 DEF api_lock_retest, Push
    <3>2. WaitOK' /\ \A v \in Threads \ {t} : at'[v] = at[v]
      BY <1>1, <2>1, <3>1, WaitersCounted
    <3>3. writers = 0 /\ at'[t] = "run"
      BY <1>1, <2>3, <3>1 DEF LockOK, WaitOK
    <3> HIDE DEF f, c, g
    <3> QED
      BY <1>1, <1>3, <1>4, <1>6, <2>1, <3>1, <3>2, <3>3, TakeLemma, StepLemma
  <2> QED
    BY <2>2, <2>3
<1> QED
  BY <1>7, <1>8, <1>9, <1>10

\* Returns, callbacks and their returns.
LEMMA FrameStep ==
  ASSUME IInv, NEW t \in Threads,
         api_unlock(t) \/ user_cb_prepare(t) \/ user_cb_restore(t)
  PROVE  IInv'
<1> DEFINE f == frames[t]
           c == dlftt[t]
<1>1. /\ LockOK /\ WaitOK /\ DataOK /\ ThreadOK(t) /\ Well(f, c)
      /\ c \in Nat /\ f \in Seq(Frame) /\ Stack(f) /\ Nested(f)
  BY DEF IInv, DataOK, ThreadOK, Well
<1>2. dlftt = [dlftt EXCEPT ![t] = c]
  BY <1>1 DEF DataOK
<1>3. Counted \/ calls' = calls => calls' \in 0..MaxCalls
  BY <1>1, BoundsAssumption DEF Counted, DataOK
<1>4. UNCHANGED <<writers, write_waiters, at, wr_held>> => LockOK' /\ WaitOK'
  BY <1>1 DEF LockOK, WaitOK, Waiting
<1>5. ASSUME api_unlock(t) PROVE IInv'
  <2> DEFINE g == Front(f)
  <2>1. /\ at[t] = "run" /\ Last(f).code = "api"
        /\ dlftt' = dlftt /\ calls' = calls
        /\ frames' = [frames EXCEPT ![t] = g]
    BY <1>5 DEF api_unlock, InLibrary, Top, Pop
  <2>2. wr_held[t] = 1
    BY <1>1, <2>1 DEF ThreadOK, Top
  <2>3. Last(f).dlftt = c /\ Well(g, c) /\ Last(g).code = "user"
    BY <1>1, <2>1, ReturnLemma
  <2>4. g \in Seq(Frame)
    BY <1>1, PopShape
  <2>5. /\ LockOK' /\ WaitOK' /\ at'[t] = "run"
        /\ wr_held'[t] = 1 <=> c > 0
        /\ \A v \in Threads \ {t} : /\ wr_held'[v] = wr_held[v]
                                    /\ at'[v] # "run" => at[v] # "run"
    <3>1. CASE c = 0
      <4>1. wrunlock(t)
        BY <1>5, <2>3, <3>1 DEF api_unlock, Top
      <4> QED
        BY <1>1, <2>1, <2>2, <3>1, <4>1, ReleaseLemma
    <3>2. CASE c # 0
      <4>1. UNCHANGED <<writers, write_waiters, at, wr_held>>
        BY <1>5, <2>3, <3>2 DEF api_unlock, Top, lockVars
      <4> QED
        BY <1>1, <1>4, <2>1, <2>2, <3>2, <4>1
    <3> QED
      BY <3>1, <3>2
  <2> HIDE DEF f, c, g
  <2> QED
    BY <1>1, <1>2, <1>3, <2>1, <2>3, <2>4, <2>5, StepLemma
<1>6. ASSUME user_cb_prepare(t) PROVE IInv'
  <2> DEFINE g == Append(f, UserFrame(0))
             d == c + 1
  <2>1. /\ at[t] = "run" /\ Last(f).code = "api" /\ Counted
        /\ dlftt' = [dlftt EXCEPT ![t] = d]
        /\ frames' = [frames EXCEPT ![t] = g]
        /\ UNCHANGED <<writers, write_waiters, at, wr_held>>
    BY <1>1, <1>6 DEF user_cb_prepare, InLibrary, Top, Push, lockVars, DataOK
  <2>2. Well(g, d) /\ d \in Nat /\ d > 0
    BY <1>1, <2>1, CallbackLemma
  <2>3. g \in Seq(Frame)
    BY <2>2 DEF Well, Stack
  <2>4. wr_held'[t] = 1
    BY <1>1, <2>1 DEF ThreadOK, Top
  <2> HIDE DEF f, c, g, d
  <2> QED
    BY <1>1, <1>3, <1>4, <2>1, <2>2, <2>3, <2>4, StepLemma
<1>7. ASSUME user_cb_restore(t) PROVE IInv'
  <2> DEFINE g == Front(f)
             d == c - 1
  <2>1. /\ at[t] = "run" /\ Last(f).code = "user" /\ Len(f) > 1
        /\ Last(f).saved = 0 /\ calls' = calls
        /\ dlftt' = [dlftt EXCEPT ![t] = d]
        /\ frames' = [frames EXCEPT ![t] = g]
        /\ UNCHANGED <<writers, write_waiters, at, wr_held>>
    BY <1>1, <1>7 DEF user_cb_restore, InCallback, InUserCode, Top, Pop, lockVars, DataOK
  <2>2. c > 0 /\ Well(g, d) /\ Last(g).code = "api"
    BY <1>1, <2>1, CallbackReturnLemma
  <2>3. g \in Seq(Frame) /\ d \in Nat
    BY <1>1, <2>2, PopShape
  <2>4. wr_held'[t] = 1
    BY <1>1, <2>1, <2>2 DEF ThreadOK, Top
  <2> HIDE DEF f, c, g, d
  <2> QED
    BY <1>1, <1>3, <1>4, <2>1, <2>2, <2>3, <2>4, StepLemma
<1> QED
  BY <1>5, <1>6, <1>7

\* H5TSmutex_acquire and _release: what is kept and what the thread runs
\* with change places, and the lock goes with them.
LEMMA MutexStep ==
  ASSUME IInv, NEW t \in Threads,
         app_acquire(t) \/ app_release(t) \/ cb_release(t) \/ reacquire(t)
  PROVE  IInv'
<1> DEFINE f == frames[t]
           c == dlftt[t]
           s == Last(f).saved
           g(v) == Append(Front(f), UserFrame(v))
<1>1. /\ LockOK /\ WaitOK /\ DataOK /\ ThreadOK(t) /\ Well(f, c)
      /\ c \in Nat /\ f \in Seq(Frame) /\ Stack(f)
  BY DEF IInv, DataOK, ThreadOK, Well
<1>2. Counted \/ calls' = calls => calls' \in 0..MaxCalls
  BY <1>1, BoundsAssumption DEF Counted, DataOK
<1>3. \A v : UserFrame(v).code = "user"
  BY DEF UserFrame
<1>4. /\ at[t] = "run" /\ Last(f).code = "user" /\ s \in Nat
      /\ Len(f) \in Nat \ {0} /\ (Len(f) = 1 \/ Len(f) > 1)
  <2>1. at[t] = "run" /\ Last(f).code = "user"
    BY DEF app_acquire, app_release, cb_release, reacquire, InCallback, InUserCode, Top
  <2>2. Last(f) \in User /\ Len(f) \in Nat \ {0} /\ (Len(f) = 1 \/ Len(f) > 1)
    BY <1>1, <2>1, TopFrame
  <2> QED
    BY <2>1, <2>2 DEF User
<1>5. ASSUME NEW n \in Nat, n > 0, mutex_acquire(t, n), Counted \/ calls' = calls,
             Len(f) = 1 \/ (s > 0 /\ n = s)
      PROVE  IInv'
  <2>1. s > 0 /\ Len(f) > 1 => c = 0
    BY <1>1, <1>4, TopFrame DEF Well, RunsWith
  <2> DEFINE d == c + n
  <2>2. /\ dlftt' = [dlftt EXCEPT ![t] = d] /\ d \in Nat /\ d > 0
        /\ frames' = [frames EXCEPT ![t] = g(0)]
    BY <1>1, <1>5 DEF mutex_acquire, SetSaved, DataOK
  <2>3. Well(g(0), d) /\ g(0) \in Seq(Frame) /\ Last(g(0)).code = "user"
    <3>1. (Last(f).saved > 0 /\ d = Last(f).saved) \/ Len(f) = 1
      <4>1. s > 0 /\ n = s /\ Len(f) > 1 => c = 0 /\ d = s
        BY <1>4, <2>1
      <4> QED
        BY <1>4, <1>5, <4>1
    <3> HIDE DEF d
    <3> QED
      BY <1>1, <1>3, <1>4, <2>2, <3>1, SavedLemma
  <2>4. /\ LockOK' /\ WaitOK' /\ wr_held'[t] = 1
        /\ \A v \in Threads \ {t} : /\ wr_held'[v] = wr_held[v]
                                    /\ at'[v] # "run" => at[v] # "run"
        /\ at'[t] = "run"
    <3>1. CASE c = 0
      <4>1. writers = 0 /\ TakeWrite(t) /\ UNCHANGED <<write_waiters, at>>
        BY <1>5, <3>1 DEF mutex_acquire, trywrlock, wrlock_take
      <4>2. WaitOK'
        BY <1>1, <4>1 DEF WaitOK, Waiting
      <4> QED
        BY <1>1, <1>4, <4>1, <4>2, TakeLemma
    <3>2. CASE c # 0
      <4>1. UNCHANGED <<writers, write_waiters, at, wr_held>>
        BY <1>5, <3>2 DEF mutex_acquire, lockVars
      <4> QED
        BY <1>1, <1>4, <3>2, <4>1 DEF LockOK, WaitOK, Waiting, ThreadOK
    <3> QED
      BY <3>1, <3>2
  <2> HIDE DEF f, c, s, g, d
  <2> QED
    BY <1>1, <1>2, <1>5, <2>2, <2>3, <2>4, StepLemma
<1>6. ASSUME mutex_release(t), Counted \/ calls' = calls
      PROVE  IInv'
  <2>1. /\ c > 0 /\ dlftt' = [dlftt EXCEPT ![t] = 0]
        /\ frames' = [frames EXCEPT ![t] = g(c)] /\ wrunlock(t)
    BY <1>6 DEF mutex_release, SetSaved
  <2>2. wr_held[t] = 1
    BY <1>1, <2>1 DEF ThreadOK
  <2>3. Well(g(c), 0) /\ g(c) \in Seq(Frame) /\ Last(g(c)).code = "user"
    BY <1>1, <1>3, <1>4, <2>1, SavedLemma
  <2>4. /\ LockOK' /\ WaitOK' /\ wr_held'[t] = 0
        /\ \A v \in Threads \ {t} : wr_held'[v] = wr_held[v]
        /\ \A v \in Threads : at'[v] = "run" <=> at[v] = "run"
    BY <1>1, <2>1, <2>2, ReleaseLemma
  <2>5. /\ \A v \in Threads \ {t} : /\ wr_held'[v] = wr_held[v]
                                    /\ at'[v] # "run" => at[v] # "run"
        /\ wr_held'[t] # 1
    BY <2>4
  <2> DEFINE h == g(c)
  <2> HIDE DEF f, c, s, g, h
  <2>6. /\ calls' \in 0..MaxCalls /\ frames' = [frames EXCEPT ![t] = h]
        /\ Well(h, 0) /\ h \in Seq(Frame) /\ Last(h).code = "user"
    BY <1>2, <1>6, <2>1, <2>3 DEF h
  <2>7. /\ wr_held'[t] = 1 <=> (Last(h).code = "api" \/ 0 > 0)
        /\ at'[t] # "run" => Last(h).code = "user" /\ 0 = 0
        /\ 0 \in Nat
    BY <2>5, <2>6
  <2> QED
    BY <2>1, <2>4, <2>5, <2>6, <2>7, StepLemma
<1>7. ASSUME app_acquire(t) PROVE IInv'
  <2>1. mutex_acquire(t, 1) /\ Counted /\ Len(f) = 1
    BY <1>4, <1>7 DEF app_acquire, InCallback
  <2> QED
    BY <1>5, <2>1
<1>8. ASSUME reacquire(t) PROVE IInv'
  <2>1. mutex_acquire(t, s) /\ s > 0 /\ (Counted \/ calls' = calls)
    BY <1>8 DEF reacquire, Top
  <2> QED
    BY <1>4, <1>5, <2>1
<1>9. ASSUME app_release(t) \/ cb_release(t) PROVE IInv'
  BY <1>6, <1>9 DEF app_release, cb_release
<1> QED
  BY <1>7, <1>8, <1>9

\* A spurious wake-up moves a waiter, and nothing else.
LEMMA SpuriousStep ==
  ASSUME IInv, NEW t \in Threads, SpuriousWakeup(t)
  PROVE  IInv'
<1>1. /\ at[t] = "write_cv" /\ at' = [at EXCEPT ![t] = "woken"]
      /\ UNCHANGED <<writers, write_waiters, wr_held, dlftt, frames, calls>>
  BY DEF SpuriousWakeup
<1>2. WaitOK' /\ \A v \in Threads \ {t} : at'[v] = at[v]
  BY <1>1, WaitersCounted DEF IInv
<1>3. LockOK' /\ DataOK'
  BY <1>1 DEF IInv, LockOK, DataOK
<1>4. ASSUME NEW v \in Threads PROVE ThreadOK(v)'
  BY <1>1, <1>2 DEF IInv, ThreadOK, Top
<1> QED
  BY <1>2, <1>3, <1>4 DEF IInv

\* A step that changes none of the variables keeps the invariant.
LEMMA StutterStep == IInv /\ UNCHANGED vars => IInv'
BY DEF vars, lockVars, IInv, LockOK, WaitOK, Waiting, DataOK, ThreadOK, Top

\* The invariant holds in every reachable state.
LEMMA Inductive == Spec => []IInv
<1>1. Init => IInv
  BY InitLemma
<1>2. IInv /\ [Next]_vars => IInv'
  <2> SUFFICES ASSUME IInv, [Next]_vars PROVE IInv'
    OBVIOUS
  <2>1. CASE UNCHANGED vars
    BY <2>1, StutterStep
  <2>2. ASSUME NEW t \in Threads, Step(t) PROVE IInv'
    BY <2>2, LockStep, FrameStep, MutexStep, SpuriousStep DEF Step
  <2> QED
    BY <2>1, <2>2 DEF Next
<1> QED
  BY <1>1, <1>2, PTL DEF Spec
-----------------------------------------------------------------------------
\* The counters of the lock keep their types, for any number of threads:
\* none is decremented below zero, and no second write lock is granted.
THEOREM TypeCorrect == Spec => []TypeOK
<1>1. IInv => TypeOK
  <2> SUFFICES ASSUME IInv PROVE TypeOK
    OBVIOUS
  <2>1. write_waiters \in 0..Cardinality(Threads)
    <3>1. IsFiniteSet(Waiting) /\ Cardinality(Waiting) <= Cardinality(Threads)
      BY ThreadsAssumption, FS_Subset DEF Waiting
    <3> QED
      BY <3>1, ThreadsAssumption, FS_CardinalityType DEF IInv, WaitOK
  <2>2. \A t \in Threads : \A i \in 1..Len(frames[t]) :
          frames[t][i] \in IF i % 2 = 1 THEN User ELSE Api
    BY DEF IInv, ThreadOK, Well, Stack
  <2> QED
    BY <2>1, <2>2 DEF IInv, LockOK, WaitOK, DataOK, TypeOK, User, Api
<1> QED
  BY <1>1, Inductive, PTL

\* A thread that runs library code owns the API lock, however its calls,
\* callbacks and releases of the lock are nested.
THEOREM InsideOwnsLockHolds == Spec => []InsideOwnsLock
<1>1. IInv => InsideOwnsLock
  BY DEF IInv, ThreadOK, InsideOwnsLock, InLibrary
<1> QED
  BY <1>1, Inductive, PTL

\* Every function finds the disable count it started with when control
\* comes back to it, and user code a positive one exactly when its thread
\* owns the lock.
THEOREM CountRestoredHolds == Spec => []CountRestored
<1>1. IInv => CountRestored
  <2> SUFFICES ASSUME IInv, NEW t \in Threads
               PROVE  /\ InLibrary(t) => dlftt[t] = Top(t).dlftt
                      /\ InUserCode(t) => (dlftt[t] > 0) = (wr_held[t] = 1)
    BY DEF CountRestored
  <2>1. ThreadOK(t)
    BY DEF IInv
  <2>2. InLibrary(t) => dlftt[t] = Top(t).dlftt
    BY <2>1, ReturnLemma DEF IInv, DataOK, ThreadOK, InLibrary, Top
  <2>3. InUserCode(t) => (dlftt[t] > 0) = (wr_held[t] = 1)
    BY <2>1 DEF ThreadOK, InUserCode
  <2> QED
    BY <2>2, <2>3
<1> QED
  BY <1>1, Inductive, PTL

\* A step grants the free lock to one thread, takes it from its owner, or
\* leaves the owner alone.
LEMMA LockMoves ==
  ASSUME IInv, NEW t \in Threads, Step(t)
  PROVE  \/ wr_held' = wr_held
         \/ writers = 0 /\ TakeWrite(t)
         \/ wr_held[t] = 1 /\ wrunlock(t)
<1>1. LockOK /\ ThreadOK(t) /\ dlftt[t] \in Nat
  BY DEF IInv, DataOK
<1>2. ASSUME app_acquire(t) \/ reacquire(t), NEW n, mutex_acquire(t, n)
      PROVE  wr_held' = wr_held \/ (writers = 0 /\ TakeWrite(t))
  BY <1>2 DEF mutex_acquire, trywrlock, wrlock_take, lockVars
<1>3. ASSUME mutex_release(t)
      PROVE  wr_held[t] = 1 /\ wrunlock(t)
  BY <1>1, <1>3 DEF mutex_release, ThreadOK
<1>4. ASSUME api_unlock(t)
      PROVE  wr_held' = wr_held \/ (wr_held[t] = 1 /\ wrunlock(t))
  BY <1>1, <1>4 DEF api_unlock, InLibrary, ThreadOK, lockVars
<1>5. ASSUME api_lock_take(t) \/ api_lock_retest(t)
      PROVE  wr_held' = wr_held \/ (writers = 0 /\ TakeWrite(t))
  BY <1>1, <1>5 DEF api_lock_take, api_lock_retest, wrlock_take, LockOK
<1>6. ASSUME \/ api_lock_skip(t) \/ api_lock_wait(t) \/ user_cb_prepare(t)
             \/ user_cb_restore(t) \/ SpuriousWakeup(t)
      PROVE  wr_held' = wr_held
  BY <1>6 DEF api_lock_skip, api_lock_wait, wrlock_wait, user_cb_prepare,
              user_cb_restore, SpuriousWakeup, lockVars
<1> QED
  BY <1>2, <1>3, <1>4, <1>5, <1>6
     DEF Step, app_acquire, app_release, cb_release, reacquire

\* What the library sees is a lock with one owner at a time, whoever takes
\* it first, whatever wakes a thread, and wherever it is given up.
THEOREM Refinement == Spec => ImplementsRWLock
<1> DEFINE rd == [t \in Threads |-> 0]
<1>1. Init => RWLock!Init
  BY DEF Init, RWLock!Init
<1>2. IInv /\ [Next]_vars => [RWLock!Next]_RWLock!vars
  <2> SUFFICES ASSUME IInv, [Next]_vars PROVE [RWLock!Next]_RWLock!vars
    OBVIOUS
  <2> USE DEF RWLock!Next, RWLock!vars
  <2>1. CASE UNCHANGED vars
    BY <2>1 DEF vars, lockVars
  <2>2. ASSUME NEW t \in Threads, Step(t)
        PROVE  [RWLock!Next]_RWLock!vars
    <3>1. LockOK /\ \A v \in Threads : rd[v] = 0
      BY DEF IInv
    <3>2. CASE wr_held' = wr_held
      BY <3>2
    <3>3. CASE writers = 0 /\ TakeWrite(t)
      <4>1. wr_held' = [wr_held EXCEPT ![t] = @ + 1]
        BY <3>3 DEF TakeWrite
      <4>2. \A v \in Threads : wr_held[v] = 0
        BY <3>1, <3>3, TakeLemma
      <4>3. RWLock!AcquireWrite(t)
        BY <3>1, <4>1, <4>2 DEF RWLock!AcquireWrite
      <4> QED
        BY <4>3
    <3>4. CASE wr_held[t] = 1 /\ wrunlock(t)
      <4>1. wr_held' = [wr_held EXCEPT ![t] = @ - 1] /\ wr_held[t] > 0
        BY <3>4 DEF wrunlock
      <4>2. RWLock!ReleaseWrite(t)
        BY <4>1 DEF RWLock!ReleaseWrite
      <4> QED
        BY <4>2
    <3> QED
      BY <2>2, <3>2, <3>3, <3>4, LockMoves
  <2> QED
    BY <2>1, <2>2 DEF Next
<1> QED
  BY <1>1, <1>2, Inductive, PTL DEF Spec, RWLock!Spec, ImplementsRWLock
=============================================================================
