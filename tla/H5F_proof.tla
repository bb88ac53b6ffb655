------------------------------ MODULE H5F_proof ------------------------------
(***************************************************************************)
(* Proofs about H5F.                                                       *)
(*                                                                         *)
(* The protocol by which processes open a file keeps to the table of       *)
(* H5F_open, for any number of processes, as long as H5Fstart_swmr_write   *)
(* is called on files with a superblock of version 3 alone.                *)
(*                                                                         *)
(* The external file caches count their references correctly, and the      *)
(* release of a cache walks a list that changes under it by its own doing  *)
(* alone, for any number of files and any depth of the calls (EfcInv).     *)
(* The three passes of H5F__efc_try_close find the files that only caches  *)
(* keep open, all of them and no other, as long as no object is open by    *)
(* way of an entry (ReachInv).                                             *)
(***************************************************************************)
EXTENDS OpenProtocol, ExternalFileCache, FiniteSetTheorems, SequenceTheorems, TLAPS

(***************************************************************************)
(* The protocol of opening.                                                *)
(***************************************************************************)
\* The exclusive lock excludes every other lock.
LockExcludes == \A p, q \in Procs : p # q /\ lock[p] = "ex" => lock[q] = "none"

\* The lock a process holds by where it is.
LockHeld ==
  \A p \in Procs :
    /\ pc[p] \in {"locked", "checked", "clearing"} => lock[p] = Kind(mode[p])
    /\ pc[p] \in {"checked", "clearing"} => mode[p] \in Writing
    /\ pc[p] \in {"flushed", "relocked", "marked"} => mode[p] = "SW" /\ lock[p] = "ex"
    /\ pc[p] = "unlocked" => mode[p] = "SW"
    /\ pc[p] = "open" /\ mode[p] \notin Writing => lock[p] = "sh"

\* An owner of the flags keeps others out: by the flags if the superblock has
\* version 3, and else by the lock.
OwnerShown ==
  \A p \in Procs : Owns(p) =>
    /\ disk.version = 3 =>
         disk.flags = StatusFlags(IF pc[p] \in {"flushed", "open", "marked"} THEN mode[p] ELSE "W")
    /\ disk.version # 3 => disk.version = 2 /\ mode[p] = "W" /\ lock[p] = "ex"

\* An owner is alone but for SWMR readers, and these come when it has marked
\* the file and gone on.
OwnerAlone ==
  \A p, q \in Procs : p # q /\ Owns(p) =>
    /\ ~Owns(q)
    /\ pc[q] \notin {"checked", "clearing"}
    /\ pc[q] = "open" => mode[q] = "SR" /\ mode[p] = "SW" /\ pc[p] = "open"

\* What a dead owner leaves.
CrashedKept ==
  crashed => /\ \A p \in Procs : ~Owns(p)
             /\ disk.version = 3 => /\ disk.flags # {}
                                    /\ \A p \in Procs : pc[p] = "open" => mode[p] = "SR"

Rest == /\ LockExcludes
        /\ LockHeld
        /\ OwnerShown
        /\ OwnerAlone
        /\ CrashedKept
        /\ FlagsHaveOwner

IInv == TypeOK /\ Rest

\* No file is used by a process before it is opened.
LEMMA InitIInv == Init => IInv
<1> SUFFICES ASSUME Init PROVE IInv
  OBVIOUS
<1> USE VersionsAssumption, RefsAssumption DEF Init
<1>1. TypeOK
  <2>1. disk \in [version : {0} \cup Versions,
                  flags : SUBSET {"WRITE_ACCESS", "SWMR_WRITE_ACCESS"}]
    OBVIOUS
  <2>2. nrefs \in [Procs -> 0..MaxRefs]
    OBVIOUS
  <2>3. pc \in [Procs -> PCs] /\ mode \in [Procs -> Modes]
    BY DEF PCs, Modes
  <2>4. lock \in [Procs -> {"none", "sh", "ex"}] /\ crashed \in BOOLEAN
    OBVIOUS
  <2> HIDE DEF Init
  <2> QED
    BY <2>1, <2>2, <2>3, <2>4 DEF TypeOK
<1>2. LockExcludes /\ LockHeld /\ OwnerShown /\ OwnerAlone
  BY DEF LockExcludes, LockHeld, OwnerShown, OwnerAlone, Owns
<1>3. CrashedKept /\ FlagsHaveOwner
  BY DEF CrashedKept, FlagsHaveOwner
<1> QED
  BY <1>1, <1>2, <1>3 DEF IInv, Rest

\* Every step keeps the types.
LEMMA StepTypeOK == TypeOK /\ [Next]_vars => TypeOK'
<1> SUFFICES ASSUME TypeOK, [Next]_vars PROVE TypeOK'
  OBVIOUS
<1> USE VersionsAssumption, RefsAssumption
<1> USE DEF TypeOK, PCs, Modes, Writing, Goto, Lock, Mode, Refs, Kind, Closed, StatusFlags
<1>1. CASE UNCHANGED vars
  BY <1>1 DEF vars
<1>2. ASSUME NEW p \in Procs, NEW m \in Modes, truncate(p, m) PROVE TypeOK'
  BY <1>2 DEF truncate
<1>3. ASSUME NEW p \in Procs, NEW m \in Modes, lock_file(p, m) PROVE TypeOK'
  BY <1>3 DEF lock_file
<1>4. ASSUME NEW p \in Procs, NEW m \in Modes, reopen(p, m) PROVE TypeOK'
  BY <1>4 DEF reopen
<1>5. ASSUME NEW p \in Procs, lock_file_clear(p) \/ lock_fail(p) PROVE TypeOK'
  BY <1>5 DEF lock_file_clear, lock_fail
<1>6. ASSUME NEW p \in Procs, check_flags(p) \/ check_fail(p) PROVE TypeOK'
  BY <1>6 DEF check_flags, check_fail
<1>7. ASSUME NEW p \in Procs, flush_superblock(p) \/ unlock_swmr(p) PROVE TypeOK'
  <2>1. CASE flush_superblock(p)
    <3>1. disk' \in [version : {0} \cup Versions,
                     flags : SUBSET {"WRITE_ACCESS", "SWMR_WRITE_ACCESS"}]
      BY <2>1 DEF flush_superblock
    <3>2. pc' \in [Procs -> PCs] /\ nrefs' \in [Procs -> 0..MaxRefs]
      BY <2>1 DEF flush_superblock
    <3> QED
      BY <2>1, <3>1, <3>2 DEF flush_superblock
  <2>2. CASE unlock_swmr(p)
    BY <2>2 DEF unlock_swmr
  <2> QED
    BY <1>7, <2>1, <2>2
<1>8. ASSUME NEW p \in Procs,
             start_swmr_refused(p) \/ start_swmr_unlock(p) \/ start_swmr_lock(p)
               \/ start_swmr_fail(p) \/ start_swmr_mark(p) \/ start_swmr_done(p)
      PROVE TypeOK'
  BY <1>8 DEF start_swmr_refused, start_swmr_unlock, start_swmr_lock, start_swmr_fail,
              start_swmr_mark, start_swmr_done
<1>9. ASSUME NEW p \in Procs, close_ref(p) \/ clear_flags(p) \/ close_file(p) PROVE TypeOK'
  BY <1>9 DEF close_ref, clear_flags, close_file
<1>10. ASSUME NEW p \in Procs, crash(p) PROVE TypeOK'
  <2>1. crashed' \in BOOLEAN
    BY <1>10, Zenon DEF crash, TypeOK
  <2> QED
    BY <1>10, <2>1 DEF crash
<1> HIDE DEF TypeOK
<1> QED
  BY <1>1, <1>2, <1>3, <1>4, <1>5, <1>6, <1>7, <1>8, <1>9, <1>10, Zenon DEF Next

\* The check of the flags keeps the invariant: a file with an owner lets SWMR
\* readers in alone.
LEMMA CheckFlagsRest ==
  ASSUME IInv, TypeOK', NEW p \in Procs, check_flags(p)
  PROVE  Rest'
<1> USE DEF IInv, Goto, Lock, Mode, Refs, Rest
<1>t. TypeOK /\ TypeOK'
  OBVIOUS
<1> USE DEF TypeOK, Modes, Writing, Owns, Kind
<1>0. /\ pc[p] \in {"locked", "clearing"} /\ Readable(mode[p])
      /\ pc[p] = "clearing" \/ Consistent(mode[p])
      /\ pc' = [pc EXCEPT ![p] = IF mode[p] \in Writing THEN "checked" ELSE "open"]
      /\ lock[p] = Kind(mode[p]) /\ UNCHANGED <<lock, disk, mode, crashed>>
  BY <1>t DEF check_flags, Passes, LockHeld
<1>1. (LockExcludes /\ LockHeld)'
  BY <1>0, <1>t DEF LockExcludes, LockHeld
<1>2. \A q \in Procs : Owns(q)' <=> Owns(q)
  BY <1>0, <1>t
<1>3. (OwnerShown /\ FlagsHaveOwner)'
  BY <1>0, <1>2, <1>t DEF OwnerShown, FlagsHaveOwner
<1>4. ASSUME NEW q \in Procs, q # p, Owns(q)
      PROVE  mode[p] = "SR" /\ mode[q] = "SW" /\ pc[q] = "open"
  <2>1. pc[p] # "clearing"
    BY <1>4 DEF OwnerAlone
  <2>2. disk.version = 3
    BY <1>0, <1>4, <1>t DEF OwnerShown, LockExcludes
  <2>3. disk.flags # {}
    BY <1>4, <2>2 DEF OwnerShown, StatusFlags
  <2>4. mode[p] = "SR"
    BY <1>0, <2>1, <2>2, <2>3, <1>t DEF Consistent
  <2>5. "WRITE_ACCESS" \in disk.flags <=> "SWMR_WRITE_ACCESS" \in disk.flags
    BY <1>0, <2>1, <2>2, <2>4 DEF Consistent
  <2>6. mode[q] = "SW" /\ pc[q] \in {"flushed", "open", "marked"}
    BY <1>4, <2>2, <2>5 DEF OwnerShown, StatusFlags
  <2>7. lock[q] # "ex"
    BY <1>0, <1>4, <2>4 DEF LockExcludes
  <2> QED
    BY <2>4, <2>6, <2>7, <1>4 DEF LockHeld
<1>5. OwnerAlone'
  BY <1>0, <1>2, <1>4, <1>t DEF OwnerAlone
<1>6. CrashedKept'
  <2>1. crashed /\ disk.version = 3 /\ mode[p] \notin Writing => mode[p] = "SR"
    BY <1>0, <1>t DEF CrashedKept, Consistent, LockHeld
  <2> QED
    BY <1>0, <1>2, <2>1, <1>t DEF CrashedKept
<1> QED
  BY <1>1, <1>3, <1>5, <1>6

\* A crash keeps the invariant: no owner but the dead one was there.
LEMMA CrashRest ==
  ASSUME IInv, TypeOK', NEW p \in Procs, crash(p)
  PROVE  Rest'
<1> USE DEF IInv, Goto, Lock, Mode, Refs, Rest
<1>t. TypeOK /\ TypeOK'
  OBVIOUS
<1> USE DEF TypeOK, Writing, Owns, crash, Closed
<1>1. (LockExcludes /\ LockHeld)'
  BY <1>t DEF LockExcludes, LockHeld
<1>2. \A q \in Procs : Owns(q)' <=> Owns(q) /\ q # p
  BY <1>t
<1>3. OwnerShown'
  BY <1>2, <1>t DEF OwnerShown
<1>4. OwnerAlone'
  BY <1>2, <1>t DEF OwnerAlone
<1>5. CASE Owns(p)
  <2>1. crashed' /\ \A q \in Procs : ~Owns(q)'
    BY <1>2, <1>5 DEF OwnerAlone
  <2>2. disk.version = 3 => disk.flags # {}
    <3>1. \A m : StatusFlags(m) # {}
      BY DEF StatusFlags
    <3> QED
      BY <1>5, <3>1 DEF OwnerShown
  <2>3. ASSUME NEW q \in Procs, pc'[q] = "open" PROVE mode'[q] = "SR"
    <3>1. q # p /\ pc[q] = "open" /\ mode'[q] = mode[q]
      BY <2>3, <1>t
    <3> QED
      BY <1>5, <3>1 DEF OwnerAlone
  <2>4. CrashedKept'
    BY <2>1, <2>2, <2>3 DEF CrashedKept
  <2> QED
    BY <1>1, <1>3, <1>4, <2>1, <2>4 DEF FlagsHaveOwner
<1>6. CASE ~Owns(p)
  <2>1. crashed' = crashed
    BY <1>6, <1>t, Zenon
  <2>2. CrashedKept'
    BY <1>2, <2>1, <1>t DEF CrashedKept
  <2>3. FlagsHaveOwner'
    BY <1>2, <1>6, <2>1, <1>t DEF FlagsHaveOwner
  <2> QED
    BY <1>1, <1>3, <1>4, <2>2, <2>3
<1> QED
  BY <1>5, <1>6

\* No step of the protocol breaks the invariant.
LEMMA StepIInv ==
  ASSUME StartsOn \subseteq {3}, IInv, [Next]_vars
  PROVE  IInv'
<1>t. TypeOK /\ TypeOK'
  BY StepTypeOK DEF IInv
<1>1. ASSUME NEW p \in Procs, check_flags(p) PROVE Rest'
  BY <1>1, <1>t, CheckFlagsRest
<1>2. ASSUME NEW p \in Procs, crash(p) PROVE Rest'
  BY <1>2, <1>t, CrashRest
<1> USE VersionsAssumption
<1> USE DEF IInv, Rest, LockExcludes, LockHeld, OwnerShown, OwnerAlone, CrashedKept,
            FlagsHaveOwner, TypeOK, Owns, Writing, StatusFlags, Goto, Lock, Mode, Refs
<1>3. CASE UNCHANGED vars
  BY <1>3, <1>t DEF vars
<1>4. ASSUME NEW p \in Procs, NEW m \in Modes, truncate(p, m) PROVE Rest'
  BY <1>4, <1>t DEF truncate
<1>5. ASSUME NEW p \in Procs, NEW m \in Modes, lock_file(p, m) PROVE Rest'
  BY <1>5, <1>t DEF lock_file, CanLock, Kind
<1>6. ASSUME NEW p \in Procs, NEW m \in Modes, reopen(p, m) PROVE Rest'
  BY <1>6, <1>t DEF reopen
<1>7. ASSUME NEW p \in Procs, lock_file_clear(p) PROVE Rest'
  BY <1>7, <1>t DEF lock_file_clear, CanLock, Kind
<1>8. ASSUME NEW p \in Procs, lock_fail(p) PROVE Rest'
  BY <1>8, <1>t DEF lock_fail, Closed
<1>9. ASSUME NEW p \in Procs, check_fail(p) PROVE Rest'
  BY <1>9, <1>t DEF check_fail, Closed
<1>10. ASSUME NEW p \in Procs, flush_superblock(p) PROVE Rest'
  BY <1>10, <1>t DEF flush_superblock, Kind, Modes
<1>11. ASSUME NEW p \in Procs, unlock_swmr(p) PROVE Rest'
  BY <1>11, <1>t DEF unlock_swmr
<1>12. ASSUME NEW p \in Procs, start_swmr_refused(p) PROVE Rest'
  BY <1>12, <1>t DEF start_swmr_refused
<1>13. ASSUME NEW p \in Procs, start_swmr_unlock(p) PROVE Rest'
  BY <1>13, <1>t DEF start_swmr_unlock
<1>14. ASSUME NEW p \in Procs, start_swmr_lock(p) PROVE Rest'
  BY <1>14, <1>t DEF start_swmr_lock, CanLock
<1>15. ASSUME NEW p \in Procs, start_swmr_fail(p) PROVE Rest'
  BY <1>15, <1>t DEF start_swmr_fail
<1>16. ASSUME NEW p \in Procs, start_swmr_mark(p) PROVE Rest'
  BY <1>16, <1>t DEF start_swmr_mark
<1>17. ASSUME NEW p \in Procs, start_swmr_done(p) PROVE Rest'
  BY <1>17, <1>t DEF start_swmr_done
<1>18. ASSUME NEW p \in Procs, close_ref(p) PROVE Rest'
  BY <1>18, <1>t DEF close_ref
<1>19. ASSUME NEW p \in Procs, clear_flags(p) PROVE Rest'
  BY <1>19, <1>t DEF clear_flags
<1>20. ASSUME NEW p \in Procs, close_file(p) PROVE Rest'
  BY <1>20, <1>t DEF close_file, Closed
<1> HIDE DEF TypeOK, Rest
<1>21. Rest'
  BY <1>1, <1>2, <1>3, <1>4, <1>5, <1>6, <1>7, <1>8, <1>9, <1>10, <1>11, <1>12,
     <1>13, <1>14, <1>15, <1>16, <1>17, <1>18, <1>19, <1>20 DEF Next
<1> QED
  BY <1>21, <1>t DEF Rest

\* The invariant holds throughout.
THEOREM Invariant == StartsOn \subseteq {3} /\ Spec => []IInv
<1>1. ASSUME StartsOn \subseteq {3} PROVE Spec => []IInv
  <2>1. IInv /\ [Next]_vars => IInv'
    BY <1>1, StepIInv
  <2> QED
    BY InitIInv, <2>1, PTL DEF Spec
<1> QED
  BY <1>1

\* What the processes hold, what the file says and where each process is keep
\* their types (H5F_open, H5F__dest, H5F__start_swmr_write).
THEOREM TypeCorrect == Spec => []TypeOK
<1>1. Init => TypeOK
  BY InitIInv DEF IInv, Rest
<1> QED
  BY <1>1, StepTypeOK, PTL DEF Spec

\* The table of the comment of H5F_open is kept: two processes have the file
\* open at once to read, or one as the SWMR writer and the others as its
\* readers.
THEOREM ConcurrentAccessHolds == StartsOn \subseteq {3} /\ Spec => []ConcurrentAccess
<1>1. IInv => ConcurrentAccess
  BY DEF IInv, Rest, TypeOK, Modes, OwnerAlone, Owns, Writing, ConcurrentAccess, Compatible
<1> QED
  BY <1>1, Invariant, PTL

\* Nobody begins to write to a file that another process has open.
THEOREM WriterFirstHolds == StartsOn \subseteq {3} /\ Spec => WriterFirst
<1>1. IInv /\ IInv' /\ [Next]_vars =>
        [\A p, q \in Procs :
           p # q /\ pc[p] \in {"open", "unlocked"} /\ pc[q] # "open" /\ pc'[q] = "open"
             => mode'[q] \notin Writing]_vars
  <2> SUFFICES ASSUME IInv, Next, NEW p \in Procs, NEW q \in Procs,
                      p # q, pc[p] \in {"open", "unlocked"}, pc[q] # "open", pc'[q] = "open"
               PROVE  mode'[q] \notin Writing
    OBVIOUS
  <2> USE DEF IInv, Rest, TypeOK, Writing, Goto, Mode, Closed
  <2>1. pc[q] \notin {"checked", "flushed", "unlocked", "relocked", "marked"} \/ mode[q] \notin Writing
    <3>1. SUFFICES ASSUME pc[q] \in {"checked", "flushed", "unlocked", "relocked", "marked"}, mode[q] \in Writing
                   PROVE  FALSE
      OBVIOUS
    <3>2. ~Owns(p)
      BY <3>1 DEF OwnerAlone, Owns
    <3>3. pc[p] = "open" /\ lock[p] = "sh"
      BY <3>2 DEF Owns, LockHeld
    <3>4. pc[q] = "unlocked"
      BY <3>1, <3>3 DEF LockHeld, LockExcludes, Kind
    <3> QED
      BY <3>1, <3>3, <3>4 DEF OwnerAlone, Owns
  <2>2. check_flags(q) \/ flush_superblock(q) \/ unlock_swmr(q) \/ start_swmr_fail(q) \/ start_swmr_done(q)
    BY DEF Next, truncate, lock_file, reopen, lock_file_clear, lock_fail, check_flags, check_fail,
           flush_superblock, unlock_swmr, start_swmr_refused, start_swmr_unlock, start_swmr_lock,
           start_swmr_fail, start_swmr_mark, start_swmr_done, close_ref, clear_flags, close_file, crash
  <2>3. CASE check_flags(q)
    BY <2>3 DEF check_flags
  <2>4. CASE flush_superblock(q) \/ unlock_swmr(q) \/ start_swmr_fail(q) \/ start_swmr_done(q)
    BY <2>1, <2>4 DEF LockHeld, flush_superblock, unlock_swmr, start_swmr_fail, start_swmr_done
  <2> QED
    BY <2>2, <2>3, <2>4
<1> QED
  BY <1>1, Invariant, PTL DEF Spec, WriterFirst

\* The flags in the file always have an owner, dead or alive, so that without a
\* crash nobody is locked out of a closed file.
THEOREM FlagsHaveOwnerHolds == StartsOn \subseteq {3} /\ Spec => []FlagsHaveOwner
<1>1. IInv => FlagsHaveOwner
  BY DEF IInv, Rest
<1> QED
  BY <1>1, Invariant, PTL

\* A file whose writer died is open to SWMR readers alone.
THEOREM CrashedLeftAloneHolds == StartsOn \subseteq {3} /\ Spec => []CrashedLeftAlone
<1>1. IInv => CrashedLeftAlone
  BY DEF IInv, Rest, TypeOK, CrashedKept, CrashedLeftAlone, LockHeld, Owns, Writing
<1> QED
  BY <1>1, Invariant, PTL

(***************************************************************************)
(* The external file caches.                                               *)
(***************************************************************************)
\* The parts of the inductive invariant.

\* A cache has one entry for a file: they are found by name.
OneEntry ==
  \A p \in Files : \A i, j \in 1..Len(lru[p]) :
    lru[p][i].file = lru[p][j].file => i = j

\* Which call calls which.
Caller(i) ==
  LET fn == calls[i].fn IN
  /\ fn = "tag1" => i > 1 /\ calls[i - 1].fn \in {"pass1", "tag1"}
  /\ fn = "tag2" => i > 1 /\ calls[i - 1].fn \in {"pass2", "tag2"}
  /\ fn = "efc_open" => i = 1
  /\ fn \in Closing => i = 1 \/ calls[i - 1].fn \in {"efc_release_real", "efc_open"}
  /\ fn = "efc_release_real" =>
       \/ i = 1 /\ user[calls[i].file] > 0
       \/ /\ i > 1 /\ calls[i - 1].file = calls[i].file
          /\ calls[i - 1].fn \in {"cleanup", "H5F__dest", "efc_destroy"}

Callers == \A i \in 1..Len(calls) : Caller(i)

\* The passes close nothing.
PassesAlone ==
  \A i \in 1..Len(calls) :
    /\ calls[i].fn = "pass1" => \A j \in i + 1..Len(calls) : calls[j].fn = "tag1"
    /\ calls[i].fn = "pass2" => \A j \in i + 1..Len(calls) : calls[j].fn = "tag2"

\* A cache is released once at a time and locked meanwhile.
Locked ==
  /\ \A i \in 1..Len(calls) : Releasing(i) => tag[calls[i].file] = TAG_LOCK
  /\ \A i, j \in 1..Len(calls) :
       Releasing(i) /\ Releasing(j) /\ calls[i].file = calls[j].file => i = j

\* The passes leave locked files alone.
PassesUnlocked ==
  \A i \in 1..Len(calls) :
    /\ calls[i].fn \in {"pass1", "pass2"} => \A f \in found : tag[f] # TAG_LOCK
    /\ calls[i].fn = "cleanup" =>
         \A j \in 1..i - 1 : Releasing(j) => calls[j].file \notin calls[i].files

\* The entries a release has passed by have clients, ...
PassedByOpen ==
  \A i \in 1..Len(calls) : Releasing(i) =>
    \A k \in 1..Visited(i) : lru[calls[i].file][k].nopen > 0

\* ... for which the file is kept open.
ClientsHold == ~Idle => ParentsHeld(user)

\* A file that goes has its last top, and its cache is empty in the end.
LastTop ==
  \A i \in 1..Len(calls) : calls[i].fn = "efc_destroy" =>
    /\ shared_nrefs[calls[i].file] = 1
    /\ i = Len(calls) => lru[calls[i].file] = <<>>

\* The file whose cache is about to get an entry is not closed by the eviction,
\* and the cache has no entry for the same file yet.
Evictor(i) ==
  /\ \/ Held(calls[i].file)
     \/ Top.fn = "H5F_try_close" /\ Top.file = calls[i].file /\ Top.objs > 0
  /\ \A f \in calls[i].files : ~Cached(calls[i].file, f)

EvictorHeld == \A i \in 1..Len(calls) : calls[i].fn = "efc_open" => Evictor(i)

EfcInv == /\ EfcTypeOK /\ CountsAgree /\ ReleaseWalksList
          /\ OneEntry /\ Callers /\ PassesAlone /\ Locked /\ PassesUnlocked
          /\ PassedByOpen /\ ClientsHold /\ LastTop /\ EvictorHeld

-----------------------------------------------------------------------------
\* What is left of a sequence without its element i.
LEMMA RemoveAtFacts ==
  ASSUME NEW R, NEW s \in Seq(R), NEW i \in 1..Len(s)
  PROVE  /\ RemoveAt(s, i) \in Seq(R)
         /\ Len(RemoveAt(s, i)) = Len(s) - 1
         /\ \A k \in 1..Len(s) - 1 :
              RemoveAt(s, i)[k] = IF k < i THEN s[k] ELSE s[k + 1]
<1>1. SubSeq(s, 1, i - 1) \in Seq(R) /\ Len(SubSeq(s, 1, i - 1)) = i - 1
      /\ \A k \in 1..i - 1 : SubSeq(s, 1, i - 1)[k] = s[k]
  OBVIOUS
<1>2. SubSeq(s, i + 1, Len(s)) \in Seq(R) /\ Len(SubSeq(s, i + 1, Len(s))) = Len(s) - i
      /\ \A k \in 1..Len(s) - i : SubSeq(s, i + 1, Len(s))[k] = s[k + i]
  OBVIOUS
<1> DEFINE a == SubSeq(s, 1, i - 1)
           b == SubSeq(s, i + 1, Len(s))
<1>3. RemoveAt(s, i) = a \o b
  BY DEF RemoveAt
<1>0. i \in Nat /\ i >= 1 /\ i <= Len(s) /\ Len(s) \in Nat
  OBVIOUS
<1> HIDE DEF a, b
<1>4. a \in Seq(R) /\ Len(a) = i - 1 /\ \A k \in 1..i - 1 : a[k] = s[k]
  BY <1>1 DEF a
<1>5. b \in Seq(R) /\ Len(b) = Len(s) - i /\ \A k \in 1..Len(s) - i : b[k] = s[k + i]
  BY <1>2 DEF b
<1>6. a \o b \in Seq(R) /\ Len(a \o b) = Len(s) - 1
      /\ \A k \in 1..Len(s) - 1 : (a \o b)[k] = IF k <= i - 1 THEN a[k] ELSE b[k - (i - 1)]
  <2>1. /\ a \o b \in Seq(R)
        /\ Len(a \o b) = Len(a) + Len(b)
        /\ \A k \in 1..Len(a) + Len(b) :
             (a \o b)[k] = IF k <= Len(a) THEN a[k] ELSE b[k - Len(a)]
    BY <1>4, <1>5, ConcatProperties
  <2>2. Len(a) + Len(b) = Len(s) - 1
    BY <1>0, <1>4, <1>5
  <2> QED BY <2>1, <2>2, <1>4
<1>7. ASSUME NEW k \in 1..Len(s) - 1 PROVE (a \o b)[k] = IF k < i THEN s[k] ELSE s[k + 1]
  <2>1. CASE k < i
    <3>1. k \in 1..i - 1 /\ k <= i - 1
      BY <2>1
    <3> QED BY <3>1, <2>1, <1>4, <1>6
  <2>2. CASE ~(k < i)
    <3>1. k - (i - 1) \in 1..Len(s) - i /\ ~(k <= i - 1)
      BY <2>2
    <3>2. (k - (i - 1)) + i = k + 1
      BY <2>2
    <3> QED BY <3>1, <3>2, <2>2, <1>5, <1>6
  <2> QED BY <2>1, <2>2
<1> QED BY <1>3, <1>6, <1>7

\* The rest of a list.
LEMMA TailFacts ==
  ASSUME NEW R, NEW s \in Seq(R), s # <<>>
  PROVE  /\ Head(s) \in R /\ Head(s) = s[1] /\ Len(s) >= 1
         /\ Tail(s) \in Seq(R) /\ Len(Tail(s)) = Len(s) - 1
         /\ \A k \in 1..Len(s) - 1 : Tail(s)[k] = s[k + 1]
OBVIOUS

\* A sequence without its last element.
LEMMA FrontFacts ==
  ASSUME NEW R, NEW s \in Seq(R), s # <<>>
  PROVE  /\ Front(s) \in Seq(R)
         /\ Len(Front(s)) = Len(s) - 1
         /\ \A k \in 1..Len(s) - 1 : Front(s)[k] = s[k]
<1>1. Len(s) \in Nat /\ Len(s) >= 1
  OBVIOUS
<1> DEFINE m == Len(s) - 1
<1>2. m \in Nat /\ \A i \in 1..m : s[i] \in R
  BY <1>1
<1> HIDE DEF m
<1>3. /\ SubSeq(s, 1, m) \in Seq(R)
      /\ Len(SubSeq(s, 1, m)) = IF 1 <= m THEN m - 1 + 1 ELSE 0
      /\ \A i \in 1..m - 1 + 1 : SubSeq(s, 1, m)[i] = s[1 + i - 1]
  BY <1>2, SubSeqProperties
<1>4. Len(SubSeq(s, 1, m)) = m
  BY <1>2, <1>3
<1>5. \A i \in 1..m : SubSeq(s, 1, m)[i] = s[i]
  BY <1>2, <1>3
<1> QED BY <1>3, <1>4, <1>5 DEF m, Front

-----------------------------------------------------------------------------
\* How a step changes the stack.
Popped ==
  /\ Len(calls') = Len(calls) - 1
  /\ \A i \in 1..Len(calls) - 1 : calls'[i] = calls[i]

Replaced(frame) ==
  /\ Len(calls') = Len(calls)
  /\ \A i \in 1..Len(calls) - 1 : calls'[i] = calls[i]
  /\ calls'[Len(calls)] = frame

Pushed(callee, frame) ==
  /\ Len(calls') = Len(calls) + 1
  /\ \A i \in 1..Len(calls) - 1 : calls'[i] = calls[i]
  /\ calls'[Len(calls)] = frame
  /\ calls'[Len(calls) + 1] = callee

\* The running call is the last of the stack.
LEMMA TopFacts ==
  ASSUME EfcTypeOK, ~Idle
  PROVE  Len(calls) \in Nat \ {0} /\ Top \in FrameRecord
BY DEF EfcTypeOK, Idle, Top

\* The calls of the stack are for files.
LEMMA FramesTyped ==
  ASSUME EfcTypeOK, NEW i \in 1..Len(calls)
  PROVE  calls[i] \in FrameRecord /\ calls[i].file \in Files
<1>1. calls[i] \in FrameRecord
  BY DEF EfcTypeOK
<1> QED BY <1>1 DEF FrameRecord

\* A return takes the running call off the stack.
LEMMA ReturnFacts ==
  ASSUME EfcTypeOK, ~Idle, Return
  PROVE  calls' \in Seq(FrameRecord) /\ Popped
<1>1. calls \in Seq(FrameRecord) /\ Len(calls) >= 1
  BY DEF EfcTypeOK, Idle
<1>2. calls # <<>>
  BY DEF Idle
<1> QED BY <1>1, <1>2, FrontFacts DEF Return, Popped

\* A call that goes on changes its own frame alone.
LEMMA ContinueFacts ==
  ASSUME EfcTypeOK, ~Idle, NEW frame \in FrameRecord, Continue(frame)
  PROVE  calls' \in Seq(FrameRecord) /\ Replaced(frame)
<1>1. calls \in Seq(FrameRecord) /\ Len(calls) >= 1
  BY DEF EfcTypeOK, Idle
<1> QED BY <1>1 DEF Continue, Replaced

\* A call puts a frame on the stack, and leaves one to come back to.
LEMMA CallFacts ==
  ASSUME EfcTypeOK, ~Idle, NEW frame \in FrameRecord, NEW callee \in FrameRecord,
         Call(callee, frame)
  PROVE  calls' \in Seq(FrameRecord) /\ Pushed(callee, frame)
<1>1. calls \in Seq(FrameRecord) /\ Len(calls) >= 1
  BY DEF EfcTypeOK, Idle
<1> DEFINE c == [calls EXCEPT ![Len(calls)] = frame]
<1>2. c \in Seq(FrameRecord) /\ Len(c) = Len(calls)
      /\ (\A i \in 1..Len(calls) - 1 : c[i] = calls[i]) /\ c[Len(calls)] = frame
  BY <1>1
<1>3. calls' = Append(c, callee)
  BY DEF Call
<1> HIDE DEF c
<1> QED BY <1>1, <1>2, <1>3 DEF Pushed

\* The frames that the calls make are frames.
LEMMA FrameType ==
  ASSUME NEW fn \in Closing \cup Walking, NEW f \in Files,
         NEW entries \in Seq(EntryRecord), NEW files \in SUBSET Files, NEW objs \in Nat
  PROVE  /\ Frame(fn, f, entries, files, objs) \in FrameRecord
         /\ At(fn, f) \in FrameRecord
         /\ Over(fn, f, entries) \in FrameRecord
BY DEF Frame, At, Over, FrameRecord

\* What a frame is made of.
LEMMA FrameFields ==
  ASSUME NEW fn, NEW f, NEW entries, NEW files, NEW objs
  PROVE  LET frame == Frame(fn, f, entries, files, objs) IN
         /\ frame.fn = fn /\ frame.file = f /\ frame.entries = entries
         /\ frame.files = files /\ frame.objs = objs
BY DEF Frame

\* A call that goes on to its next entry.
LEMMA LaterFacts ==
  ASSUME EfcTypeOK, ~Idle, Top.entries # <<>>
  PROVE  /\ Later \in FrameRecord
         /\ Later.fn = Top.fn /\ Later.file = Top.file
         /\ Later.entries = Tail(Top.entries)
         /\ Later.files = Top.files /\ Later.objs = Top.objs
         /\ Head(Top.entries) \in EntryRecord
<1>1. Top \in FrameRecord
  BY TopFacts
<1>2. Top.entries \in Seq(EntryRecord)
  BY <1>1 DEF FrameRecord
<1>3. Tail(Top.entries) \in Seq(EntryRecord) /\ Head(Top.entries) \in EntryRecord
  BY <1>2
<1> QED BY <1>1, <1>3 DEF Later, FrameRecord

\* A call is under way and the stack moves.
Moves(stack) == ~Idle /\ Len(calls) \in Nat \ {0} /\ Top \in FrameRecord
                  /\ calls' \in Seq(FrameRecord) /\ stack

\* How the close of a top moves it, outside the passes.
LEMMA ClosingMoves ==
  ASSUME EfcTypeOK
  PROVE  /\ try_close_objects => Moves(Popped)
         /\ try_close_top => Moves(Replaced(At("H5F__dest", Top.file)))
         /\ try_close_reentered =>
              Moves(Pushed(Over("efc_release_real", Top.file, lru[Top.file]),
                           At("H5F__dest", Top.file)))
         /\ try_close_root =>
              Moves(Pushed(Over("tag1", Top.file, lru[Top.file]), At("pass1", Top.file)))
         /\ try_close_cleanup => Moves(Replaced(At("H5F__dest", Top.file)))
<1> USE DEF Closing, Walking, EfcTypeOK
<1>1. ASSUME ~Idle
      PROVE  /\ Top \in FrameRecord /\ Top.file \in Files /\ lru[Top.file] \in Seq(EntryRecord)
             /\ Len(calls) \in Nat \ {0}
  BY <1>1, TopFacts DEF FrameRecord
<1>2. ASSUME ~Idle
      PROVE  /\ At("H5F__dest", Top.file) \in FrameRecord
             /\ At("pass1", Top.file) \in FrameRecord
             /\ Over("tag1", Top.file, lru[Top.file]) \in FrameRecord
             /\ Over("efc_release_real", Top.file, lru[Top.file]) \in FrameRecord
  <2>1. /\ "H5F__dest" \in Closing \cup Walking /\ "pass1" \in Closing \cup Walking
        /\ "tag1" \in Closing \cup Walking /\ "efc_release_real" \in Closing \cup Walking
    OBVIOUS
  <2> QED BY <2>1, <1>1, <1>2, FrameType DEF At, Over, Frame, FrameRecord
<1>3. try_close_objects => Moves(Popped)
  BY <1>1, ReturnFacts DEF try_close_objects, Running, Moves
<1>4. try_close_top => Moves(Replaced(At("H5F__dest", Top.file)))
  BY <1>1, <1>2, ContinueFacts DEF try_close_top, Running, Moves
<1>5. try_close_reentered =>
        Moves(Pushed(Over("efc_release_real", Top.file, lru[Top.file]), At("H5F__dest", Top.file)))
  BY <1>1, <1>2, CallFacts DEF try_close_reentered, Running, Moves, Release
<1>6. try_close_root =>
        Moves(Pushed(Over("tag1", Top.file, lru[Top.file]), At("pass1", Top.file)))
  BY <1>1, <1>2, CallFacts DEF try_close_root, Running, Moves
<1>7. try_close_cleanup => Moves(Replaced(At("H5F__dest", Top.file)))
  BY <1>1, <1>2, ContinueFacts DEF try_close_cleanup, Running, Moves
<1> QED BY <1>3, <1>4, <1>5, <1>6, <1>7

\* How the passes move the stack.
LEMMA PassMoves ==
  ASSUME EfcTypeOK
  PROVE  /\ tag1_return \/ tag2_return => Moves(Popped)
         /\ tag1_entry =>
              Moves(\/ Replaced(Later)
                    \/ LET esf == Head(Top.entries).file
                       IN Pushed(Over("tag1", esf, lru[esf]), Later))
         /\ pass1_keep => Moves(Replaced(At("H5F__dest", Top.file)))
         /\ pass1_mark =>
              Moves(Replaced(Frame("pass2", Top.file, <<>>, {g \in found : tag[g] > 0}, 0)))
         /\ pass2_file =>
              Moves(\E g \in Top.files :
                      Pushed(Over("tag2", g, lru[g]), [Top EXCEPT !.files = @ \ {g}]))
         /\ tag2_entry =>
              Moves(\/ Replaced(Later)
                    \/ LET esf == Head(Top.entries).file
                       IN Pushed(Over("tag2", esf, lru[esf]), Later))
         /\ pass2_done =>
              LET cleanup == Frame("cleanup", Top.file, <<>>, found, 0)
              IN Moves(IF tag[Top.file] = TAG_CLOSE
                       THEN Pushed(Over("efc_release_real", Top.file, lru[Top.file]), cleanup)
                       ELSE Replaced(cleanup))
<1> USE DEF Closing, Walking, EfcTypeOK
<1>0. /\ "tag1" \in Closing \cup Walking /\ "tag2" \in Closing \cup Walking
      /\ "pass2" \in Closing \cup Walking /\ "cleanup" \in Closing \cup Walking
      /\ "H5F__dest" \in Closing \cup Walking /\ "efc_release_real" \in Closing \cup Walking
  OBVIOUS
<1>1. ASSUME ~Idle
      PROVE  /\ Top \in FrameRecord /\ Top.file \in Files /\ Top.files \in SUBSET Files
             /\ Len(calls) \in Nat \ {0}
             /\ \A f \in Files : lru[f] \in Seq(EntryRecord)
             /\ \A files \in SUBSET Files :
                  [Top EXCEPT !.files = files] \in FrameRecord
  BY <1>1, TopFacts DEF FrameRecord
<1>2. ASSUME NEW fn \in Closing \cup Walking, NEW f \in Files
      PROVE  /\ At(fn, f) \in FrameRecord
             /\ lru[f] \in Seq(EntryRecord) => Over(fn, f, lru[f]) \in FrameRecord
             /\ \A files \in SUBSET Files : Frame(fn, f, <<>>, files, 0) \in FrameRecord
  BY FrameType DEF At, Over, Frame, FrameRecord
<1>3. tag1_return \/ tag2_return => Moves(Popped)
  BY <1>1, ReturnFacts DEF tag1_return, tag2_return, Running, Moves
<1>4. ASSUME tag1_entry \/ tag2_entry
      PROVE  /\ ~Idle /\ Later \in FrameRecord /\ Head(Top.entries).file \in Files
             /\ lru[Head(Top.entries).file] \in Seq(EntryRecord)
  <2>1. ~Idle /\ Top.entries # <<>>
    BY <1>4 DEF tag1_entry, tag2_entry, Running
  <2> QED BY <2>1, <1>1, LaterFacts DEF EntryRecord
<1>5. ASSUME tag1_entry
      PROVE  LET esf == Head(Top.entries).file
             IN Moves(Replaced(Later) \/ Pushed(Over("tag1", esf, lru[esf]), Later))
  <2> DEFINE esf == Head(Top.entries).file
  <2>1. Over("tag1", esf, lru[esf]) \in FrameRecord
    BY <1>0, <1>2, <1>4, <1>5
  <2>2. Continue(Later) \/ Call(Over("tag1", esf, lru[esf]), Later)
    BY <1>5 DEF tag1_entry
  <2> QED BY <2>1, <2>2, <1>1, <1>4, <1>5, ContinueFacts, CallFacts DEF Moves
<1>6. pass1_keep => Moves(Replaced(At("H5F__dest", Top.file)))
  BY <1>0, <1>1, <1>2, ContinueFacts DEF pass1_keep, Running, Moves
<1>7. ASSUME pass1_mark
      PROVE  Moves(Replaced(Frame("pass2", Top.file, <<>>, {g \in found : tag[g] > 0}, 0)))
  <2>1. {g \in found : tag[g] > 0} \in SUBSET Files
    OBVIOUS
  <2>2. ~Idle /\ Continue(Frame("pass2", Top.file, <<>>, {g \in found : tag[g] > 0}, 0))
    BY <1>7 DEF pass1_mark, Running
  <2> QED BY <1>0, <1>1, <1>2, <2>1, <2>2, ContinueFacts DEF Moves
<1>8. ASSUME pass2_file
      PROVE  Moves(\E g \in Top.files :
                     Pushed(Over("tag2", g, lru[g]), [Top EXCEPT !.files = @ \ {g}]))
  <2>1. ~Idle
    BY <1>8 DEF pass2_file, Running
  <2>2. PICK g \in Top.files : Call(Over("tag2", g, lru[g]), [Top EXCEPT !.files = @ \ {g}])
    BY <1>8 DEF pass2_file
  <2>3. g \in Files /\ [Top EXCEPT !.files = @ \ {g}] \in FrameRecord
    BY <1>1, <2>1
  <2>4. Over("tag2", g, lru[g]) \in FrameRecord
    BY <1>0, <1>1, <1>2, <2>1, <2>3
  <2> QED BY <1>1, <2>1, <2>2, <2>3, <2>4, CallFacts DEF Moves
<1>9. ASSUME tag2_entry
      PROVE  LET esf == Head(Top.entries).file
             IN Moves(Replaced(Later) \/ Pushed(Over("tag2", esf, lru[esf]), Later))
  <2> DEFINE esf == Head(Top.entries).file
  <2>1. Over("tag2", esf, lru[esf]) \in FrameRecord
    BY <1>0, <1>2, <1>4, <1>9
  <2>2. Continue(Later) \/ Call(Over("tag2", esf, lru[esf]), Later)
    BY <1>9 DEF tag2_entry
  <2> QED BY <2>1, <2>2, <1>1, <1>4, <1>9, ContinueFacts, CallFacts DEF Moves
<1>10. ASSUME pass2_done
       PROVE  LET cleanup == Frame("cleanup", Top.file, <<>>, found, 0)
              IN Moves(IF tag[Top.file] = TAG_CLOSE
                       THEN Pushed(Over("efc_release_real", Top.file, lru[Top.file]), cleanup)
                       ELSE Replaced(cleanup))
  <2>1. ~Idle
    BY <1>10 DEF pass2_done, Running
  <2> DEFINE cleanup == Frame("cleanup", Top.file, <<>>, found, 0)
             callee == Over("efc_release_real", Top.file, lru[Top.file])
  <2>2. cleanup \in FrameRecord /\ callee \in FrameRecord
    BY <1>0, <1>1, <1>2, <2>1
  <2>3. IF tag[Top.file] = TAG_CLOSE THEN Call(callee, cleanup) ELSE Continue(cleanup)
    BY <1>10 DEF pass2_done, Release
  <2> HIDE DEF cleanup, callee
  <2>4. Moves(IF tag[Top.file] = TAG_CLOSE THEN Pushed(callee, cleanup) ELSE Replaced(cleanup))
    BY <1>1, <2>1, <2>2, <2>3, ContinueFacts, CallFacts DEF Moves
  <2> QED BY <2>4 DEF cleanup, callee
<1> QED BY <1>3, <1>5, <1>6, <1>7, <1>8, <1>9, <1>10

\* How releases, H5F__dest and the end of an eviction move it.
LEMMA OtherMoves ==
  ASSUME EfcTypeOK
  PROVE  /\ release_entry =>
              LET ent == Head(Top.entries)
              IN Moves(Pushed(Frame("H5F_try_close", ent.file, <<>>, {}, ent.objs), Later))
         /\ release_skip => Moves(Replaced(Later))
         /\ release_return \/ dest_top \/ dest_shared \/ efc_open_evicted => Moves(Popped)
         /\ dest_efc =>
              Moves(Pushed(Over("efc_release_real", Top.file, lru[Top.file]),
                           At("efc_destroy", Top.file)))
<1> USE DEF Closing, Walking, EfcTypeOK
<1>0. /\ "H5F_try_close" \in Closing \cup Walking /\ "efc_destroy" \in Closing \cup Walking
      /\ "efc_release_real" \in Closing \cup Walking
  OBVIOUS
<1>1. ASSUME ~Idle
      PROVE  /\ Top \in FrameRecord /\ Top.file \in Files
             /\ Len(calls) \in Nat \ {0}
             /\ lru[Top.file] \in Seq(EntryRecord)
  BY <1>1, TopFacts DEF FrameRecord
<1>2. ASSUME release_entry
      PROVE  LET ent == Head(Top.entries)
             IN Moves(Pushed(Frame("H5F_try_close", ent.file, <<>>, {}, ent.objs), Later))
  <2> DEFINE ent == Head(Top.entries)
             callee == Frame("H5F_try_close", ent.file, <<>>, {}, ent.objs)
  <2>1. ~Idle /\ Top.entries # <<>>
    BY <1>2 DEF release_entry, Running
  <2>2. Later \in FrameRecord /\ ent.file \in Files /\ ent.objs \in Nat
    BY <2>1, LaterFacts DEF EntryRecord
  <2>3. callee \in FrameRecord
    BY <1>0, <2>2, FrameType DEF Frame, FrameRecord
  <2>4. Call(callee, Later)
    BY <1>2 DEF release_entry
  <2> HIDE DEF callee
  <2>5. Moves(Pushed(callee, Later))
    BY <1>1, <2>1, <2>2, <2>3, <2>4, CallFacts DEF Moves
  <2> QED BY <2>5 DEF callee
<1>3. ASSUME release_skip PROVE Moves(Replaced(Later))
  <2>1. ~Idle /\ Top.entries # <<>> /\ Continue(Later)
    BY <1>3 DEF release_skip, Running
  <2> QED BY <1>1, <2>1, LaterFacts, ContinueFacts DEF Moves
<1>4. release_return \/ dest_top \/ dest_shared \/ efc_open_evicted => Moves(Popped)
  BY <1>1, ReturnFacts
     DEF release_return, dest_top, dest_shared, efc_open_evicted, Running, Moves
<1>5. ASSUME dest_efc
      PROVE  Moves(Pushed(Over("efc_release_real", Top.file, lru[Top.file]),
                          At("efc_destroy", Top.file)))
  <2>1. ~Idle
    BY <1>5 DEF dest_efc, Running
  <2>2. /\ Over("efc_release_real", Top.file, lru[Top.file]) \in FrameRecord
        /\ At("efc_destroy", Top.file) \in FrameRecord
    BY <1>0, <1>1, <2>1, FrameType DEF At, Over, Frame, FrameRecord
  <2> QED BY <1>1, <1>5, <2>1, <2>2, CallFacts DEF dest_efc, Release, Moves
<1> QED BY <1>2, <1>3, <1>4, <1>5
-----------------------------------------------------------------------------
\* The running call goes on as one of its own kind, or ends, and calls only
\* what it may.
SameKind(frame) ==
  /\ frame.file = Top.file
  /\ frame.fn = Top.fn \/ (frame.fn \in Closing /\ Top.fn \in Closing)

MayCall(callee, frame) ==
  \/ callee.fn = "tag1" /\ frame.fn \in {"pass1", "tag1"}
  \/ callee.fn = "tag2" /\ frame.fn \in {"pass2", "tag2"}
  \/ callee.fn \in Closing /\ frame.fn = "efc_release_real"
  \/ /\ callee.fn = "efc_release_real" /\ callee.file = frame.file
     /\ frame.fn \in {"cleanup", "H5F__dest", "efc_destroy"}

Stays(frame) == SameKind(frame) /\ Replaced(frame)
Nests(callee, frame) ==
  SameKind(frame) /\ MayCall(callee, frame) /\ Pushed(callee, frame)

StackStep == \/ Popped
             \/ \E frame \in FrameRecord : Stays(frame)
             \/ \E callee, frame \in FrameRecord : Nests(callee, frame)

\* Every step of a call moves the stack like that.
LEMMA StepMoves ==
  ASSUME EfcTypeOK, Step PROVE Moves(StackStep)
<1> USE DEF Closing, Walking, SameKind, MayCall
<1>0. ASSUME ~Idle
      PROVE  /\ Top \in FrameRecord /\ Top.file \in Files /\ lru[Top.file] \in Seq(EntryRecord)
             /\ Top.files \in SUBSET Files
             /\ \A f \in Files : lru[f] \in Seq(EntryRecord)
  BY <1>0, TopFacts DEF FrameRecord, EfcTypeOK
<1>a. ASSUME NEW fn \in Closing \cup Walking, NEW f \in Files
      PROVE  /\ At(fn, f) \in FrameRecord /\ At(fn, f).fn = fn /\ At(fn, f).file = f
             /\ \A files \in SUBSET Files, objs \in Nat :
                  /\ Frame(fn, f, <<>>, files, objs) \in FrameRecord
                  /\ Frame(fn, f, <<>>, files, objs).fn = fn
                  /\ Frame(fn, f, <<>>, files, objs).file = f
             /\ \A entries \in Seq(EntryRecord) :
                  /\ Over(fn, f, entries) \in FrameRecord
                  /\ Over(fn, f, entries).fn = fn /\ Over(fn, f, entries).file = f
  BY DEF At, Over, Frame, FrameRecord
<1>b. ASSUME ~Idle, Top.entries # <<>>
      PROVE  /\ Later \in FrameRecord /\ Later.fn = Top.fn /\ Later.file = Top.file
             /\ Head(Top.entries).file \in Files /\ Head(Top.entries).objs \in Nat
  BY <1>b, LaterFacts DEF EntryRecord
<1>1. ASSUME TryClose PROVE Moves(StackStep)
  <2>1. CASE try_close_objects
    BY <2>1, ClosingMoves DEF Moves, StackStep
  <2>2. CASE try_close_top \/ try_close_cleanup
    <3>1. Moves(Replaced(At("H5F__dest", Top.file))) /\ Top.fn \in Closing
      BY <2>2, ClosingMoves DEF try_close_top, try_close_cleanup, Running
    <3> QED BY <3>1, <1>0, <1>a DEF Moves, StackStep, Stays
  <2>3. CASE try_close_reentered
    <3>1. Moves(Pushed(Over("efc_release_real", Top.file, lru[Top.file]), At("H5F__dest", Top.file)))
          /\ Top.fn \in Closing
      BY <2>3, ClosingMoves DEF try_close_reentered, Running
    <3> QED BY <3>1, <1>0, <1>a DEF Moves, StackStep, Nests
  <2>4. CASE try_close_root
    <3>1. Moves(Pushed(Over("tag1", Top.file, lru[Top.file]), At("pass1", Top.file)))
          /\ Top.fn \in Closing
      BY <2>4, ClosingMoves DEF try_close_root, Running
    <3> QED BY <3>1, <1>0, <1>a DEF Moves, StackStep, Nests
  <2> QED BY <1>1, <2>1, <2>2, <2>3, <2>4 DEF TryClose
<1>2. ASSUME Pass1 PROVE Moves(StackStep)
  <2>1. CASE tag1_return
    BY <2>1, PassMoves DEF Moves, StackStep
  <2>2. CASE tag1_entry
    <3> DEFINE esf == Head(Top.entries).file
    <3>1. Moves(Replaced(Later) \/ Pushed(Over("tag1", esf, lru[esf]), Later))
      BY <2>2, PassMoves
    <3>2. Top.fn = "tag1" /\ Top.entries # <<>>
      BY <2>2 DEF tag1_entry, Running
    <3> DEFINE callee == Over("tag1", esf, lru[esf])
    <3>3. /\ Later \in FrameRecord /\ Later.fn = "tag1" /\ Later.file = Top.file
          /\ callee \in FrameRecord /\ callee.fn = "tag1"
      BY <3>1, <3>2, <1>0, <1>a, <1>b DEF Moves
    <3>4. Moves(Replaced(Later) \/ Pushed(callee, Later))
      BY <3>1
    <3> HIDE DEF callee
    <3> QED BY <3>2, <3>3, <3>4 DEF Moves, StackStep, Stays, Nests
  <2>3. CASE pass1_keep
    <3>1. Moves(Replaced(At("H5F__dest", Top.file))) /\ Top.fn \in Closing
      BY <2>3, PassMoves DEF pass1_keep, Running
    <3> QED BY <3>1, <1>0, <1>a DEF Moves, StackStep, Stays
  <2>4. CASE pass1_mark
    <3> DEFINE left == {g \in found : tag[g] > 0}
    <3>1. Moves(Replaced(Frame("pass2", Top.file, <<>>, left, 0))) /\ Top.fn \in Closing
      BY <2>4, PassMoves DEF pass1_mark, Running
    <3>2. left \in SUBSET Files
      BY DEF EfcTypeOK
    <3> QED BY <3>1, <3>2, <1>0, <1>a DEF Moves, StackStep, Stays
  <2> QED BY <1>2, <2>1, <2>2, <2>3, <2>4 DEF Pass1
<1>3. ASSUME Pass2 PROVE Moves(StackStep)
  <2>1. CASE tag2_return
    BY <2>1, PassMoves DEF Moves, StackStep
  <2>2. CASE tag2_entry
    <3> DEFINE esf == Head(Top.entries).file
    <3>1. Moves(Replaced(Later) \/ Pushed(Over("tag2", esf, lru[esf]), Later))
      BY <2>2, PassMoves
    <3>2. Top.fn = "tag2" /\ Top.entries # <<>>
      BY <2>2 DEF tag2_entry, Running
    <3> DEFINE callee == Over("tag2", esf, lru[esf])
    <3>3. /\ Later \in FrameRecord /\ Later.fn = "tag2" /\ Later.file = Top.file
          /\ callee \in FrameRecord /\ callee.fn = "tag2"
      BY <3>1, <3>2, <1>0, <1>a, <1>b DEF Moves
    <3>4. Moves(Replaced(Later) \/ Pushed(callee, Later))
      BY <3>1
    <3> HIDE DEF callee
    <3> QED BY <3>2, <3>3, <3>4 DEF Moves, StackStep, Stays, Nests
  <2>3. CASE pass2_file
    <3>1. Moves(\E g \in Top.files :
                  Pushed(Over("tag2", g, lru[g]), [Top EXCEPT !.files = @ \ {g}]))
          /\ Top.fn = "pass2"
      BY <2>3, PassMoves DEF pass2_file, Running
    <3>2. PICK g \in Top.files : Pushed(Over("tag2", g, lru[g]), [Top EXCEPT !.files = @ \ {g}])
      BY <3>1 DEF Moves
    <3> DEFINE frame  == [Top EXCEPT !.files = @ \ {g}]
               callee == Over("tag2", g, lru[g])
    <3>a. frame \in FrameRecord /\ frame.fn = Top.fn /\ frame.file = Top.file
      <4>1. Top \in FrameRecord
        BY <3>1 DEF Moves
      <4> QED BY <4>1 DEF FrameRecord
    <3>b. g \in Files /\ lru[g] \in Seq(EntryRecord)
      BY <1>0, <3>1 DEF Moves
    <3>c. callee \in FrameRecord /\ callee.fn = "tag2"
      BY <1>a, <3>b
    <3>3. /\ frame \in FrameRecord /\ frame.fn = Top.fn /\ frame.file = Top.file
          /\ callee \in FrameRecord /\ callee.fn = "tag2"
      BY <3>a, <3>c
    <3> HIDE DEF frame, callee
    <3>4. Pushed(callee, frame)
      BY <3>2 DEF frame, callee
    <3> QED BY <3>1, <3>3, <3>4 DEF Moves, StackStep, Nests
  <2>4. CASE pass2_done
    <3> DEFINE cleanup == Frame("cleanup", Top.file, <<>>, found, 0)
               callee  == Over("efc_release_real", Top.file, lru[Top.file])
    <3>1. Moves(IF tag[Top.file] = TAG_CLOSE THEN Pushed(callee, cleanup)
                                             ELSE Replaced(cleanup))
          /\ Top.fn \in Closing
      BY <2>4, PassMoves DEF pass2_done, Running
    <3>2. found \in SUBSET Files
      BY DEF EfcTypeOK
    <3>3. cleanup \in FrameRecord /\ cleanup.fn = "cleanup" /\ cleanup.file = Top.file
          /\ callee \in FrameRecord /\ callee.fn = "efc_release_real" /\ callee.file = Top.file
      BY <3>1, <3>2, <1>0, <1>a DEF Moves
    <3> HIDE DEF cleanup, callee
    <3> QED BY <3>1, <3>3 DEF Moves, StackStep, Stays, Nests
  <2> QED BY <1>3, <2>1, <2>2, <2>3, <2>4 DEF Pass2
<1>4. ASSUME ReleaseStep PROVE Moves(StackStep)
  <2>1. CASE release_entry
    <3> DEFINE ent == Head(Top.entries)
               callee == Frame("H5F_try_close", ent.file, <<>>, {}, ent.objs)
    <3>1. Moves(Pushed(callee, Later)) /\ Top.fn = "efc_release_real" /\ Top.entries # <<>>
      BY <2>1, OtherMoves DEF release_entry, Running
    <3>2. ent.file \in Files /\ ent.objs \in Nat
      BY <3>1, <1>b DEF Moves
    <3>3. callee \in FrameRecord /\ callee.fn = "H5F_try_close"
      BY <3>2, <1>a
    <3> HIDE DEF callee
    <3> QED BY <3>1, <3>3, <1>b DEF Moves, StackStep, Nests
  <2>2. CASE release_skip
    <3>1. Moves(Replaced(Later)) /\ Top.entries # <<>>
      BY <2>2, OtherMoves DEF release_skip
    <3> QED BY <3>1, <1>b DEF Moves, StackStep, Stays
  <2>3. CASE release_return
    BY <2>3, OtherMoves DEF Moves, StackStep
  <2> QED BY <1>4, <2>1, <2>2, <2>3 DEF ReleaseStep
<1>5. ASSUME Dest PROVE Moves(StackStep)
  <2>1. CASE dest_top \/ dest_shared
    BY <2>1, OtherMoves DEF Moves, StackStep
  <2>2. CASE dest_efc
    <3>1. Moves(Pushed(Over("efc_release_real", Top.file, lru[Top.file]), At("efc_destroy", Top.file)))
          /\ Top.fn \in Closing
      BY <2>2, OtherMoves DEF dest_efc, Running
    <3> QED BY <3>1, <1>0, <1>a DEF Moves, StackStep, Nests
  <2> QED BY <1>5, <2>1, <2>2 DEF Dest
<1>6. ASSUME efc_open_evicted PROVE Moves(StackStep)
  BY <1>6, OtherMoves DEF Moves, StackStep
<1> QED BY <1>1, <1>2, <1>3, <1>4, <1>5, <1>6 DEF Step

\* Such steps keep who calls whom.
LEMMA NestingKept ==
  ASSUME Callers, PassesAlone, Moves(StackStep), user' = user
  PROVE  Callers' /\ PassesAlone'
<1> USE DEF Closing, SameKind, MayCall
<1>1. Len(calls) \in Nat \ {0} /\ Top = calls[Len(calls)]
  BY DEF Moves, Top
<1>2. CASE Popped
  BY <1>1, <1>2 DEF Popped, Callers, Caller, PassesAlone
<1>3. ASSUME NEW frame \in FrameRecord, Stays(frame) PROVE Callers' /\ PassesAlone'
  <2>1. Callers'
    BY <1>1, <1>3 DEF Stays, Replaced, Callers, Caller
  <2>2. PassesAlone'
    BY <1>1, <1>3 DEF Stays, Replaced, PassesAlone
  <2> QED BY <2>1, <2>2
<1>4. ASSUME NEW callee \in FrameRecord, NEW frame \in FrameRecord, Nests(callee, frame)
      PROVE  Callers' /\ PassesAlone'
  <2>n. PICK n \in Nat \ {0} : n = Len(calls)
    BY <1>1
  <2>0. /\ n \in Nat \ {0} /\ Len(calls') = n + 1
        /\ \A i \in 1..n - 1 : calls'[i] = calls[i]
        /\ calls'[n] = frame /\ calls'[n + 1] = callee
        /\ SameKind(frame) /\ MayCall(callee, frame) /\ Top = calls[n]
    BY <1>1, <1>4, <2>n DEF Nests, Pushed
  <2>a. ASSUME NEW i \in 1..n - 1 PROVE Caller(i)'
    <3>1. i \in 1..Len(calls) /\ (i > 1 => i - 1 \in 1..n - 1)
      BY <2>n, <2>0
    <3> QED BY <2>0, <3>1 DEF Callers, Caller
  <2>b. Caller(n)
    BY <2>n, <2>0 DEF Callers
  <2>c. Caller(n)'
    <3>1. n = 1 \/ n - 1 \in 1..n - 1
      BY <2>0
    <3>2. n > 1 => calls'[n - 1] = calls[n - 1]
      BY <2>0, <3>1
    <3> QED BY <2>0, <2>b, <3>1, <3>2 DEF Caller
  <2>d. Caller(n + 1)'
    <3>1. n + 1 > 1 /\ (n + 1) - 1 = n
      BY <2>0
    <3> QED BY <2>0, <3>1 DEF Caller
  <2>e. \A i \in 1..n + 1 : i \in 1..n - 1 \/ i = n \/ i = n + 1
    BY <2>0
  <2>1. Callers'
    BY <2>0, <2>a, <2>c, <2>d, <2>e DEF Callers
  <2>2. PassesAlone'
    BY <1>1, <1>4 DEF Nests, Pushed, PassesAlone
  <2> QED BY <2>1, <2>2
<1> QED BY <1>2, <1>3, <1>4 DEF Moves, StackStep
-----------------------------------------------------------------------------
\* The entries of a cache are those at the places of its list.
LEMMA EntriesFacts ==
  ASSUME EfcTypeOK, NEW p \in Files
  PROVE  /\ lru[p] \in Seq(EntryRecord) /\ Len(lru[p]) \in Nat
         /\ \A i \in 1..Len(lru[p]) :
              /\ lru[p][i] \in EntryRecord /\ lru[p][i] \in Entries(p)
              /\ lru[p][i].file \in Files /\ Cached(p, lru[p][i].file)
         /\ \A e \in Entries(p) :
              /\ e \in EntryRecord /\ Cached(p, e.file)
              /\ \E i \in 1..Len(lru[p]) : e = lru[p][i]
<1>1. lru[p] \in Seq(EntryRecord)
  BY DEF EfcTypeOK
<1> DEFINE s == lru[p]
<1>2. s \in Seq(EntryRecord) /\ Entries(p) = {s[i] : i \in DOMAIN s}
  BY <1>1 DEF Entries, ToSet
<1> HIDE DEF s
<1>3. DOMAIN s = 1..Len(s) /\ Len(s) \in Nat /\ \A i \in 1..Len(s) : s[i] \in EntryRecord
  BY <1>2
<1>4. \A e \in Entries(p) : \E i \in 1..Len(s) : e = s[i]
  BY <1>2, <1>3
<1>5. \A i \in 1..Len(s) : s[i] \in Entries(p)
  BY <1>2, <1>3
<1>6. \A e \in Entries(p) : Cached(p, e.file)
  BY DEF Cached
<1>7. \A e \in EntryRecord : e.file \in Files
  BY DEF EntryRecord
<1> QED BY <1>1, <1>3, <1>4, <1>5, <1>6, <1>7 DEF s

\* The caches that hold a file and the calls that close it can be counted.
LEMMA CountsFacts ==
  ASSUME EfcTypeOK, NEW f
  PROVE  /\ IsFiniteSet(Parents(f)) /\ Cardinality(Parents(f)) \in Nat
         /\ IsFiniteSet(TopsClosing(f)) /\ Cardinality(TopsClosing(f)) \in Nat
<1>1. IsFiniteSet(Parents(f))
  <2>1. Parents(f) \subseteq Files
    BY DEF Parents
  <2> QED BY <2>1, FilesAssumption, FS_Subset
<1>2. IsFiniteSet(TopsClosing(f))
  <2>1. TopsClosing(f) \subseteq 1..Len(calls) /\ Len(calls) \in Nat
    BY DEF TopsClosing, EfcTypeOK
  <2>2. IsFiniteSet(1..Len(calls))
    BY <2>1, FS_Interval
  <2> QED BY <2>1, <2>2, FS_Subset
<1> QED BY <1>1, <1>2, FS_CardinalityType

\* A set of two.
LEMMA TwoElements ==
  ASSUME NEW a, NEW b, a # b PROVE Cardinality({a, b}) = 2
<1>1. IsFiniteSet({a}) /\ Cardinality({a}) = 1
  BY FS_Singleton
<1>2. b \notin {a}
  OBVIOUS
<1>3. Cardinality({a} \cup {b}) = Cardinality({a}) + 1
  BY <1>1, <1>2, FS_AddElement
<1>4. 1 + 1 = 2 /\ {a, b} = {a} \cup {b}
  OBVIOUS
<1>5. Cardinality({a} \cup {b}) = 2
  BY <1>1, <1>3, <1>4
<1> QED BY <1>4, <1>5

\* A file of which two tops are being closed, or one besides an identifier, has
\* more references than the close of its last top takes it to have.
LEMMA NotReleased ==
  ASSUME EfcTypeOK, CountsAgree, Callers, ~Idle, Top.fn \in Closing,
         \/ shared_nrefs[Top.file] <= 1
         \/ HasEFC(Top.file) /\ shared_nrefs[Top.file] = efc_nrefs[Top.file] + 1,
         NEW j, Releasing(j)
  PROVE  calls[j].file # Top.file
<1> SUFFICES ASSUME calls[j].file = Top.file PROVE FALSE
  OBVIOUS
<1>n. PICK n \in Nat \ {0} : n = Len(calls)
  BY TopFacts
<1>f. PICK f \in Files : f = Top.file
  BY TopFacts DEF FrameRecord
<1>1. j \in 1..n /\ calls[j].fn = "efc_release_real" /\ calls[j].file = f
  BY <1>n, <1>f DEF Releasing
<1>2. n \in TopsClosing(f)
  BY <1>n, <1>f DEF TopsClosing, Top
<1>3. j # n
  BY <1>n, <1>1 DEF Top, Closing
<1>4. user[f] > 0 \/ (j - 1 \in TopsClosing(f) /\ j - 1 # n)
  <2>1. Caller(j)
    BY <1>n, <1>1 DEF Callers
  <2>2. CASE j = 1
    BY <2>1, <2>2, <1>1 DEF Caller
  <2>3. CASE j # 1
    <3>1. j - 1 \in 1..Len(calls) /\ calls[j - 1].file = f
          /\ calls[j - 1].fn \in {"cleanup", "H5F__dest", "efc_destroy"}
      BY <2>1, <2>3, <1>1, <1>n DEF Caller
    <3> QED BY <3>1, <1>1, <1>n DEF TopsClosing, Closing
  <2> QED BY <2>2, <2>3
<1>5. /\ IsFiniteSet(TopsClosing(f)) /\ Cardinality(TopsClosing(f)) \in Nat
      /\ Cardinality(Parents(f)) \in Nat
  BY CountsFacts
<1>6. user[f] + Cardinality(TopsClosing(f)) >= 2
  <2>1. user[f] \in Nat
    BY DEF EfcTypeOK
  <2>2. CASE user[f] > 0
    <3>1. Cardinality(TopsClosing(f)) >= 1
      BY <1>2, <1>5, FS_EmptySet
    <3> QED BY <3>1, <2>1, <2>2, <1>5
  <2>3. CASE j - 1 \in TopsClosing(f) /\ j - 1 # n
    <3>1. Cardinality({n, j - 1}) = 2
      BY <2>3, TwoElements
    <3>2. {n, j - 1} \subseteq TopsClosing(f)
      BY <2>3, <1>2
    <3>3. Cardinality({n, j - 1}) <= Cardinality(TopsClosing(f))
      BY <3>2, <1>5, FS_Subset
    <3> QED BY <3>1, <3>3, <2>1, <1>5
  <2> QED BY <1>4, <2>2, <2>3
<1>7. /\ user[f] \in Nat /\ loose[f] \in Nat /\ orphaned[f] \in Nat
      /\ shared_nrefs[f] = user[f] + loose[f] + orphaned[f]
                           + Cardinality(Parents(f)) + Cardinality(TopsClosing(f))
      /\ HasEFC(f) => efc_nrefs[f] = Cardinality(Parents(f))
  BY DEF EfcTypeOK, CountsAgree
<1> QED BY <1>5, <1>6, <1>7, <1>f
-----------------------------------------------------------------------------
\* A call that is not part of a pass is not made from one.
LEMMA NoPassBelow ==
  ASSUME EfcTypeOK, PassesAlone, ~Idle, Top.fn \notin {"tag1", "tag2"},
         NEW i \in 1..Len(calls), calls[i].fn \in {"pass1", "pass2"}
  PROVE  i = Len(calls)
<1>1. Len(calls) \in Nat \ {0}
  BY TopFacts
<1> QED BY <1>1 DEF PassesAlone, Top

\* A release is locked; what is locked was not found by the passes.
LEMMA ReleasingLocked ==
  ASSUME EfcTypeOK, Locked, NEW j, Releasing(j)
  PROVE  /\ calls[j].file \in Files /\ j \in 1..Len(calls)
         /\ tag[calls[j].file] = TAG_LOCK
<1>1. j \in 1..Len(calls)
  BY DEF Releasing
<1>2. calls[j] \in FrameRecord
  BY <1>1 DEF EfcTypeOK
<1> QED BY <1>1, <1>2 DEF Locked, FrameRecord

\* A step leaves the tags of the files alone whose caches are being released, but
\* for the one whose release it ends.
LEMMA TagsKept ==
  ASSUME EfcInv, Step, NEW j, Releasing(j), j < Len(calls) \/ ~release_return
  PROVE  tag'[calls[j].file] = tag[calls[j].file]
<1> USE DEF TAG_DEFAULT, TAG_LOCK, TAG_CLOSE, TAG_DONTCLOSE
<1>0. EfcTypeOK /\ CountsAgree /\ Callers /\ PassesAlone /\ Locked /\ PassesUnlocked /\ LastTop
  BY DEF EfcInv
<1>1. ~Idle /\ Len(calls) \in Nat \ {0} /\ Top \in FrameRecord
  BY <1>0, StepMoves DEF Moves
<1>p. PICK p \in Files : p = calls[j].file
  BY <1>0, ReleasingLocked
<1>2. tag[p] = TAG_LOCK /\ j \in 1..Len(calls) /\ calls[j].fn = "efc_release_real"
  BY <1>0, <1>p, ReleasingLocked DEF Releasing
<1>3. tag \in [Files -> Int] /\ Top.file \in Files
  BY <1>0, <1>1 DEF EfcTypeOK, FrameRecord
<1>4. Top.fn \in {"pass1", "pass2"} => p \notin found
  BY <1>0, <1>1, <1>2 DEF PassesUnlocked, Top
<1> SUFFICES tag'[p] = tag[p]
  BY <1>p
<1>5. CASE TryClose
  <2>1. CASE try_close_objects \/ try_close_top
    BY <2>1 DEF try_close_objects, try_close_top
  <2>2. CASE try_close_reentered
    BY <2>2, <1>2, <1>3 DEF try_close_reentered, Release
  <2>3. CASE try_close_root
    <3>1. /\ Top.fn \in Closing /\ HasEFC(Top.file)
          /\ shared_nrefs[Top.file] = efc_nrefs[Top.file] + 1
          /\ tag' = [tag EXCEPT ![Top.file] = efc_nrefs[Top.file]]
      BY <2>3 DEF try_close_root, EntersEFC, NothingToDo, Running, Closing
    <3>2. p # Top.file
      BY <3>1, <1>0, <1>1, <1>p, NotReleased
    <3> QED BY <3>1, <3>2, <1>3
  <2>4. CASE try_close_cleanup
    <3>1. Top.fn = "cleanup"
      BY <2>4 DEF try_close_cleanup, Running
    <3>2. j \in 1..Len(calls) - 1
      BY <3>1, <1>1, <1>2 DEF Top
    <3>3. p \notin Top.files
      BY <3>1, <3>2, <1>0, <1>1, <1>p DEF PassesUnlocked, Top
    <3> QED BY <2>4, <3>3 DEF try_close_cleanup, ResetTags
  <2> QED BY <1>5, <2>1, <2>2, <2>3, <2>4 DEF TryClose
<1>6. CASE Pass1
  <2>1. CASE tag1_return
    BY <2>1 DEF tag1_return
  <2>2. CASE tag1_entry
    BY <2>2, <1>2, <1>3 DEF tag1_entry
  <2>3. CASE pass1_keep
    <3>1. Top.fn = "pass1" /\ ResetTags(found)
      BY <2>3 DEF pass1_keep, Running
    <3> QED BY <3>1, <1>4 DEF ResetTags
  <2>4. CASE pass1_mark
    <3>1. /\ Top.fn = "pass1"
          /\ tag' = [g \in Files |-> IF g \notin found THEN tag[g]
                      ELSE IF tag[g] > 0 THEN TAG_DONTCLOSE ELSE TAG_CLOSE]
      BY <2>4 DEF pass1_mark, Running
    <3> QED BY <3>1, <1>4
  <2> QED BY <1>6, <2>1, <2>2, <2>3, <2>4 DEF Pass1
<1>7. CASE Pass2
  <2>1. CASE tag2_return \/ pass2_file
    BY <2>1 DEF tag2_return, pass2_file
  <2>2. CASE tag2_entry
    BY <2>2, <1>2, <1>3 DEF tag2_entry
  <2>3. CASE pass2_done
    BY <2>3, <1>2, <1>3 DEF pass2_done, Release
  <2> QED BY <1>7, <2>1, <2>2, <2>3 DEF Pass2
<1>8. CASE ReleaseStep
  <2>1. CASE release_entry \/ release_skip
    BY <2>1 DEF release_entry, release_skip
  <2>2. CASE release_return
    <3>1. Top.fn = "efc_release_real" /\ tag' = [tag EXCEPT ![Top.file] = TAG_DEFAULT]
      BY <2>2 DEF release_return, Running
    <3>2. j < Len(calls) /\ Releasing(Len(calls))
      BY <2>2, <3>1, <1>1 DEF Releasing, Top
    <3>3. p # Top.file
      BY <3>2, <1>0, <1>1, <1>2, <1>p DEF Locked, Top
    <3> QED BY <3>1, <3>3, <1>3
  <2> QED BY <1>8, <2>1, <2>2 DEF ReleaseStep
<1>9. CASE Dest
  <2>1. CASE dest_top
    BY <2>1 DEF dest_top
  <2>2. CASE dest_efc \/ dest_shared
    <3>1. Top.fn \in Closing /\ shared_nrefs[Top.file] <= 1
      <4>1. CASE dest_efc
        BY <4>1 DEF dest_efc, Running, Closing
      <4>2. CASE dest_shared
        <5>1. \/ Top.fn = "H5F__dest" /\ shared_nrefs[Top.file] <= 1
              \/ Top.fn = "efc_destroy"
          BY <4>2 DEF dest_shared, Running
        <5>2. Top.fn = "efc_destroy" => shared_nrefs[Top.file] = 1
          BY <1>0, <1>1 DEF LastTop, Top
        <5> QED BY <5>1, <5>2 DEF Closing
      <4> QED BY <2>2, <4>1, <4>2
    <3>2. p # Top.file
      BY <3>1, <1>0, <1>1, <1>p, NotReleased
    <3>3. \E t \in Int : tag' = [tag EXCEPT ![Top.file] = t]
      <4>1. tag' = [tag EXCEPT ![Top.file] = TAG_LOCK] \/ tag' = [tag EXCEPT ![Top.file] = TAG_DEFAULT]
        BY <2>2 DEF dest_efc, dest_shared, Release
      <4> QED BY <4>1
    <3> QED BY <3>2, <3>3, <1>3
  <2> QED BY <1>9, <2>1, <2>2 DEF Dest
<1>10. CASE efc_open_evicted
  BY <1>10 DEF efc_open_evicted
<1> QED BY <1>5, <1>6, <1>7, <1>8, <1>9, <1>10 DEF Step
-----------------------------------------------------------------------------
\* Only a release itself goes on with its list.
LEMMA ReleaseSteps ==
  ASSUME EfcTypeOK, Step, Top.fn = "efc_release_real"
  PROVE  \/ release_return /\ Popped
         \/ release_skip /\ Replaced(Later) /\ lru' = lru
         \/ /\ release_entry /\ Later \in FrameRecord /\ Head(Top.entries).nopen = 0
            /\ \E callee \in FrameRecord :
                 callee.fn = "H5F_try_close" /\ Pushed(callee, Later)
<1>1. ReleaseStep
  <2>1. ~TryClose
    BY DEF TryClose, try_close_objects, try_close_top, try_close_reentered, try_close_root,
           try_close_cleanup, Running
  <2>2. ~Pass1 /\ ~Pass2
    BY DEF Pass1, Pass2, tag1_return, tag1_entry, pass1_keep, pass1_mark, tag2_return,
           tag2_entry, pass2_file, pass2_done, Running
  <2>3. ~Dest /\ ~efc_open_evicted
    BY DEF Dest, dest_top, dest_efc, dest_shared, efc_open_evicted, Running
  <2> QED BY <2>1, <2>2, <2>3 DEF Step
<1>2. CASE release_return
  BY <1>2, OtherMoves DEF Moves
<1>3. CASE release_skip
  BY <1>3, OtherMoves DEF Moves, release_skip, UNCHANGED_COUNTS
<1>4. CASE release_entry
  <2> DEFINE ent == Head(Top.entries)
             callee == Frame("H5F_try_close", ent.file, <<>>, {}, ent.objs)
  <2>1. Moves(Pushed(callee, Later)) /\ ent.nopen = 0 /\ Top.entries # <<>>
    BY <1>4, OtherMoves DEF release_entry
  <2>2. Later \in FrameRecord /\ ent.file \in Files /\ ent.objs \in Nat
    BY <2>1, LaterFacts DEF Moves, EntryRecord
  <2>3. callee \in FrameRecord /\ callee.fn = "H5F_try_close"
    <3>1. "H5F_try_close" \in Closing \cup Walking /\ <<>> \in Seq(EntryRecord)
      BY DEF Closing
    <3>2. callee \in FrameRecord
      BY <2>2, <3>1, FrameType
    <3> QED BY <3>2 DEF Frame
  <2> HIDE DEF callee
  <2> QED BY <1>4, <2>1, <2>2, <2>3 DEF Moves
<1> QED BY <1>1, <1>2, <1>3, <1>4 DEF ReleaseStep

\* How a release starts in the course of a call.
Starts ==
  /\ Top.fn \in Closing /\ lru' = lru
  /\ tag' = [tag EXCEPT ![Top.file] = TAG_LOCK]
  /\ calls'[Len(calls) + 1] = Over("efc_release_real", Top.file, lru[Top.file])
  /\ tag[Top.file] = TAG_CLOSE \/ shared_nrefs[Top.file] <= 1

\* That is the only way a release is called.
LEMMA ReleaseStarts ==
  ASSUME EfcTypeOK, Step, Len(calls') = Len(calls) + 1,
         calls'[Len(calls) + 1].fn = "efc_release_real"
  PROVE  Starts
<1>0. ASSUME NEW fn, NEW f, NEW entries
      PROVE  Over(fn, f, entries).fn = fn
  BY DEF Over, Frame
<1>1. ASSUME TryClose PROVE Starts
  <2>1. ~try_close_objects /\ ~try_close_top /\ ~try_close_cleanup
    BY ClosingMoves DEF Moves, Popped, Replaced
  <2>2. ~try_close_root
    BY ClosingMoves, <1>0 DEF Moves, Pushed
  <2>3. ASSUME try_close_reentered PROVE Starts
    BY <2>3, ClosingMoves
       DEF Moves, Pushed, Starts, try_close_reentered, Running, Closing, Release, UNCHANGED_COUNTS
  <2> QED BY <1>1, <2>1, <2>2, <2>3 DEF TryClose
<1>2. ~Pass1
  <2>1. ~tag1_return /\ ~pass1_keep /\ ~pass1_mark
    BY PassMoves DEF Moves, Popped, Replaced
  <2>2. ~tag1_entry
    BY PassMoves, <1>0 DEF Moves, Pushed, Replaced
  <2> QED BY <2>1, <2>2 DEF Pass1
<1>3. ASSUME Pass2 PROVE Starts
  <2>1. ~tag2_return
    BY PassMoves DEF Moves, Popped
  <2>2. ~tag2_entry
    BY PassMoves, <1>0 DEF Moves, Pushed, Replaced
  <2>4. ~pass2_file
    <3> SUFFICES ASSUME pass2_file PROVE FALSE
      OBVIOUS
    <3>1. \E g \in Top.files :
            Pushed(Over("tag2", g, lru[g]), [Top EXCEPT !.files = @ \ {g}])
      BY PassMoves DEF Moves
    <3> QED BY <3>1, <1>0 DEF Pushed
  <2>3. ASSUME pass2_done PROVE Starts
    <3> DEFINE cleanup == Frame("cleanup", Top.file, <<>>, found, 0)
               callee == Over("efc_release_real", Top.file, lru[Top.file])
    <3>1. Moves(IF tag[Top.file] = TAG_CLOSE THEN Pushed(callee, cleanup) ELSE Replaced(cleanup))
      BY <2>3, PassMoves
    <3> HIDE DEF callee, cleanup
    <3>2. tag[Top.file] = TAG_CLOSE /\ calls'[Len(calls) + 1] = callee
      BY <3>1 DEF Moves, Pushed, Replaced
    <3>3. Top.fn \in Closing /\ tag' = [tag EXCEPT ![Top.file] = TAG_LOCK] /\ lru' = lru
      BY <2>3, <3>2 DEF pass2_done, Running, Closing, Release, UNCHANGED_COUNTS
    <3> QED BY <3>2, <3>3 DEF callee, Starts
  <2> QED BY <1>3, <2>1, <2>2, <2>3, <2>4 DEF Pass2
<1>4. ~ReleaseStep
  <2>1. ~release_return /\ ~release_skip
    BY OtherMoves DEF Moves, Popped, Replaced
  <2>2. ~release_entry
    BY OtherMoves DEF Moves, Pushed, Frame
  <2> QED BY <2>1, <2>2 DEF ReleaseStep
<1>5. ASSUME Dest PROVE Starts
  <2>1. ~dest_top /\ ~dest_shared
    BY OtherMoves DEF Moves, Popped
  <2>2. ASSUME dest_efc PROVE Starts
    BY <2>2, OtherMoves
       DEF Moves, Pushed, Starts, dest_efc, Running, Closing, Release, UNCHANGED_COUNTS
  <2> QED BY <1>5, <2>1, <2>2 DEF Dest
<1>6. ~efc_open_evicted
  BY OtherMoves DEF Moves, Popped
<1> QED BY <1>1, <1>2, <1>3, <1>4, <1>5, <1>6 DEF Step

\* The releases under way after a step.
LEMMA ReleasingAfter ==
  ASSUME EfcTypeOK, Step, NEW i, Releasing(i)'
  PROVE  /\ i \in Nat \ {0}
         /\ \/ i < Len(calls) /\ Releasing(i) /\ calls'[i] = calls[i]
            \/ /\ i = Len(calls) /\ Releasing(i) /\ (release_entry \/ release_skip)
               /\ calls'[i] = Later /\ Top.entries # <<>>
            \/ i = Len(calls) + 1 /\ Starts
<1>n. PICK n \in Nat \ {0} : n = Len(calls)
  BY StepMoves DEF Moves
<1>1. Moves(StackStep)
  BY StepMoves
<1>2. /\ i \in 1..Len(calls') /\ calls'[i].fn = "efc_release_real"
      /\ calls' \in Seq(FrameRecord)
  BY <1>1 DEF Releasing, Moves
<1>3. i \in Nat \ {0}
  BY <1>2
<1>4. ASSUME i < n, \A k \in 1..n - 1 : calls'[k] = calls[k]
      PROVE  Releasing(i) /\ calls'[i] = calls[i]
  BY <1>2, <1>3, <1>4, <1>n DEF Releasing
<1>5. CASE Popped
  BY <1>5, <1>2, <1>3, <1>4, <1>n DEF Popped
<1>6. ASSUME i = n, NEW frame \in FrameRecord, SameKind(frame), calls'[n] = frame, ~Popped
      PROVE  /\ Releasing(n) /\ (release_entry \/ release_skip)
             /\ calls'[n] = Later /\ Top.entries # <<>>
  <2>1. Top.fn = "efc_release_real"
    BY <1>2, <1>6 DEF SameKind, Closing
  <2>2. \/ release_skip /\ Replaced(Later)
        \/ release_entry /\ \E callee : Pushed(callee, Later)
    BY <2>1, <1>6, ReleaseSteps
  <2>3. calls'[n] = Later
    BY <2>2, <1>n DEF Replaced, Pushed
  <2>4. Top.entries # <<>>
    BY <2>2 DEF release_skip, release_entry
  <2> QED BY <2>1, <2>2, <2>3, <2>4, <1>n DEF Releasing, Top
<1>7. ASSUME NEW frame \in FrameRecord, Stays(frame)
      PROVE  \/ i < n /\ Releasing(i) /\ calls'[i] = calls[i]
             \/ /\ i = n /\ Releasing(i) /\ (release_entry \/ release_skip)
                /\ calls'[i] = Later /\ Top.entries # <<>>
  <2>1. SameKind(frame) /\ calls'[n] = frame /\ Len(calls') = n /\ ~Popped
        /\ \A k \in 1..n - 1 : calls'[k] = calls[k]
    BY <1>7, <1>n DEF Stays, Replaced, Popped
  <2>2. i < n \/ i = n
    BY <1>2, <2>1
  <2> QED BY <2>1, <2>2, <1>4, <1>6
<1>8. ASSUME NEW callee \in FrameRecord, NEW frame \in FrameRecord, Nests(callee, frame)
      PROVE  \/ i < n /\ Releasing(i) /\ calls'[i] = calls[i]
             \/ /\ i = n /\ Releasing(i) /\ (release_entry \/ release_skip)
                /\ calls'[i] = Later /\ Top.entries # <<>>
             \/ i = n + 1 /\ Starts
  <2>1. SameKind(frame) /\ calls'[n] = frame /\ Len(calls') = n + 1 /\ ~Popped
        /\ \A k \in 1..n - 1 : calls'[k] = calls[k]
    BY <1>8, <1>n DEF Nests, Pushed, Popped
  <2>2. i < n \/ i = n \/ i = n + 1
    BY <1>2, <2>1
  <2>3. i = n + 1 => Starts
    BY <1>2, <2>1, <1>n, ReleaseStarts
  <2> QED BY <2>1, <2>2, <2>3, <1>4, <1>6
<1> QED BY <1>1, <1>3, <1>5, <1>7, <1>8, <1>n DEF Moves, StackStep

\* A cache is locked while it is released, and released once at a time.
LEMMA LockedKept ==
  ASSUME EfcInv, Step PROVE Locked'
<1> USE DEF TAG_DEFAULT, TAG_LOCK, TAG_CLOSE, TAG_DONTCLOSE
<1>0. EfcTypeOK /\ CountsAgree /\ Callers /\ Locked
  BY DEF EfcInv
<1>n. PICK n \in Nat \ {0} : n = Len(calls)
  BY <1>0, StepMoves DEF Moves
<1>t. ~Idle /\ Top \in FrameRecord /\ Top.file \in Files /\ tag \in [Files -> Int]
  BY <1>0, StepMoves DEF Moves, FrameRecord, EfcTypeOK
<1>1. ASSUME NEW i, Releasing(i)'
      PROVE  \/ /\ i \in 1..n /\ Releasing(i) /\ calls'[i].file = calls[i].file
                /\ tag'[calls[i].file] = tag[calls[i].file]
             \/ i = n + 1 /\ Starts /\ calls'[i].file = Top.file
  <2>1. CASE i < Len(calls) /\ Releasing(i) /\ calls'[i] = calls[i]
    BY <2>1, <1>n, TagsKept DEF Releasing
  <2>2. CASE /\ i = Len(calls) /\ Releasing(i) /\ (release_entry \/ release_skip)
             /\ calls'[i] = Later /\ Top.entries # <<>>
    <3>1. ~release_return
      BY <2>2 DEF release_return, release_entry, release_skip
    <3>2. Later.file = Top.file
      BY <2>2, <1>0, <1>t, LaterFacts
    <3> QED BY <2>2, <3>1, <3>2, <1>n, TagsKept DEF Releasing, Top
  <2>3. CASE i = Len(calls) + 1 /\ Starts
    BY <2>3, <1>n DEF Starts, Over, Frame
  <2> QED BY <1>0, <1>1, <2>1, <2>2, <2>3, ReleasingAfter
<1>2. ASSUME NEW i, Releasing(i)' PROVE tag'[calls'[i].file] = TAG_LOCK
  <2>1. CASE i \in 1..n /\ Releasing(i) /\ calls'[i].file = calls[i].file
             /\ tag'[calls[i].file] = tag[calls[i].file]
    BY <2>1, <1>0 DEF Locked, Releasing
  <2>2. CASE Starts /\ calls'[i].file = Top.file
    BY <2>2, <1>t DEF Starts
  <2> QED BY <1>1, <1>2, <2>1, <2>2
<1>3. ASSUME Starts, NEW j, Releasing(j) PROVE calls[j].file # Top.file
  <2>1. CASE tag[Top.file] = TAG_CLOSE
    BY <2>1, <1>0, <1>3, ReleasingLocked
  <2>2. CASE shared_nrefs[Top.file] <= 1
    BY <2>2, <1>0, <1>3, <1>t, NotReleased DEF Starts
  <2> QED BY <1>3, <2>1, <2>2 DEF Starts
<1>4. ASSUME NEW i, NEW j, Releasing(i)', Releasing(j)', calls'[i].file = calls'[j].file
      PROVE  i = j
  BY <1>1, <1>3, <1>4, <1>0 DEF Locked, Releasing
<1>5. \A i \in 1..Len(calls') : Releasing(i)' => tag'[calls'[i].file] = TAG_LOCK
  BY <1>2
<1>6. \A i, j \in 1..Len(calls') :
        Releasing(i)' /\ Releasing(j)' /\ calls'[i].file = calls'[j].file => i = j
  BY <1>4
<1> QED BY <1>5, <1>6 DEF Locked
-----------------------------------------------------------------------------
\* H5F__efc_remove_ent finds the entry it is given and takes nothing else.
LEMMA PositionFacts ==
  ASSUME EfcTypeOK, OneEntry, NEW p \in Files, NEW i \in 1..Len(lru[p])
  PROVE  Position(p, lru[p][i].file) = i
<1> DEFINE P(k) == k \in 1..Len(lru[p]) /\ lru[p][k].file = lru[p][i].file
<1>1. \A k \in 1..Len(lru[p]) : lru[p][k].file = lru[p][i].file => k = i
  BY DEF OneEntry
<1> QED BY <1>1 DEF Position

\* H5F__efc_remove_ent takes one entry from the list it is in.
LEMMA RemoveEntFacts ==
  ASSUME EfcTypeOK, OneEntry, NEW p \in Files, NEW i \in 1..Len(lru[p]),
         remove_ent(p, lru[p][i].file)
  PROVE  /\ lru' \in [Files -> Seq(EntryRecord)]
         /\ Len(lru'[p]) = Len(lru[p]) - 1 /\ Len(lru[p]) \in Nat
         /\ \A k \in 1..Len(lru[p]) - 1 :
              lru'[p][k] = IF k < i THEN lru[p][k] ELSE lru[p][k + 1]
         /\ \A q \in Files : q # p => lru'[q] = lru[q]
<1>1. lru \in [Files -> Seq(EntryRecord)] /\ lru[p] \in Seq(EntryRecord)
  BY DEF EfcTypeOK
<1>2. lru' = [lru EXCEPT ![p] = RemoveAt(@, i)]
  BY PositionFacts DEF remove_ent
<1>3. /\ RemoveAt(lru[p], i) \in Seq(EntryRecord)
      /\ Len(RemoveAt(lru[p], i)) = Len(lru[p]) - 1
      /\ \A k \in 1..Len(lru[p]) - 1 :
           RemoveAt(lru[p], i)[k] = IF k < i THEN lru[p][k] ELSE lru[p][k + 1]
  BY <1>1, RemoveAtFacts
<1>4. lru'[p] = RemoveAt(lru[p], i) /\ \A q \in Files : q # p => lru'[q] = lru[q]
  BY <1>1, <1>2
<1>5. lru' \in [Files -> Seq(EntryRecord)]
  <2> DEFINE t == RemoveAt(lru[p], i)
  <2>1. t \in Seq(EntryRecord) /\ lru' = [lru EXCEPT ![p] = t]
    BY <1>2, <1>3
  <2> HIDE DEF t
  <2> QED BY <1>1, <2>1
<1> QED BY <1>1, <1>3, <1>4, <1>5

\* The entry a release is at is the next one of the list.
LEMMA AtEntry ==
  ASSUME EfcTypeOK, ReleaseWalksList, ~Idle, Top.fn = "efc_release_real", Top.entries # <<>>
  PROVE  LET p == Top.file
             v == Visited(Len(calls))
         IN /\ p \in Files /\ v \in Nat /\ v + 1 \in 1..Len(lru[p])
            /\ Top.entries \in Seq(EntryRecord) /\ Len(Top.entries) \in Nat \ {0}
            /\ v = Len(lru[p]) - Len(Top.entries)
            /\ Head(Top.entries) = lru[p][v + 1]
            /\ \A k \in 1..Len(Top.entries) : Top.entries[k] = lru[p][v + k]
<1>1. Top \in FrameRecord /\ Len(calls) \in Nat \ {0} /\ Top = calls[Len(calls)]
  BY TopFacts DEF Top
<1>2. Top.file \in Files /\ Top.entries \in Seq(EntryRecord)
  BY <1>1 DEF FrameRecord
<1>3. Len(Top.entries) \in Nat \ {0} /\ Head(Top.entries) = Top.entries[1]
  BY <1>2
<1>4. Len(lru[Top.file]) \in Nat
  BY <1>2, EntriesFacts
<1>5. Visited(Len(calls)) = Len(lru[Top.file]) - Len(Top.entries)
  BY <1>1 DEF Visited
<1>6. /\ Visited(Len(calls)) >= 0
      /\ \A k \in 1..Len(Top.entries) : Top.entries[k] = lru[Top.file][Visited(Len(calls)) + k]
  BY <1>1 DEF ReleaseWalksList, Releasing
<1>p. PICK p \in Files : p = Top.file
  BY <1>2
<1>m. PICK m \in Nat : m = Len(lru[p])
  BY <1>4, <1>p
<1>l. PICK l \in Nat \ {0} : l = Len(Top.entries)
  BY <1>3
<1>a. PICK v \in Int : v = m - l
  OBVIOUS
<1>v. v = Visited(Len(calls))
  BY <1>5, <1>m, <1>l, <1>p, <1>a
<1>7. v = m - l /\ v >= 0
  BY <1>6, <1>v, <1>a
<1>8. v \in Nat /\ v + 1 \in 1..m /\ 1 \in 1..l
  BY <1>7
<1>9. Head(Top.entries) = lru[p][v + 1]
  BY <1>3, <1>6, <1>8, <1>l, <1>p, <1>v
<1> QED BY <1>2, <1>3, <1>6, <1>7, <1>8, <1>9, <1>p, <1>m, <1>l, <1>v

\* In the course of a call the caches change in two ways only.
LEMMA CacheSteps ==
  ASSUME EfcTypeOK, Callers, Step
  PROVE  \/ lru' = lru
         \/ release_entry /\ Top.fn = "efc_release_real"
         \/ efc_open_evicted /\ Len(calls) = 1 /\ calls' = <<>>
<1>1. TryClose => lru' = lru
  BY DEF TryClose, try_close_objects, try_close_top, try_close_reentered, try_close_root,
         try_close_cleanup, UNCHANGED_COUNTS
<1>2. Pass1 \/ Pass2 => lru' = lru
  BY DEF Pass1, Pass2, tag1_return, tag1_entry, pass1_keep, pass1_mark, tag2_return,
         tag2_entry, pass2_file, pass2_done, UNCHANGED_COUNTS
<1>3. Dest => lru' = lru
  BY DEF Dest, dest_top, dest_efc, dest_shared, UNCHANGED_COUNTS
<1>4. ReleaseStep => lru' = lru \/ release_entry
  BY DEF ReleaseStep, release_skip, release_return, UNCHANGED_COUNTS
<1>5. release_entry => Top.fn = "efc_release_real"
  BY DEF release_entry, Running
<1>6. ASSUME efc_open_evicted PROVE Len(calls) = 1 /\ calls' = <<>>
  <2>1. Moves(Popped) /\ Top.fn = "efc_open"
    BY <1>6, OtherMoves DEF efc_open_evicted, Running
  <2>2. Len(calls) \in Nat \ {0} /\ Top = calls[Len(calls)]
    BY <2>1 DEF Moves, Top
  <2>3. Len(calls) = 1
    <3>1. Len(calls) \in 1..Len(calls)
      BY <2>2
    <3>2. Caller(Len(calls))
      BY <3>1 DEF Callers
    <3> QED BY <2>1, <2>2, <3>2 DEF Caller
  <2>4. Len(calls') = 0 /\ calls' \in Seq(FrameRecord)
    BY <2>1, <2>3 DEF Moves, Popped
  <2> QED BY <2>3, <2>4
<1> QED BY <1>1, <1>2, <1>3, <1>4, <1>5, <1>6 DEF Step

\* What a release has before it and behind it, at index i of the stack.
Walks(i) ==
  LET list == lru[calls[i].file] IN
  /\ Visited(i) >= 0
  /\ \A k \in 1..Len(calls[i].entries) : calls[i].entries[k] = list[Visited(i) + k]
  /\ \A k \in 1..Visited(i) : list[k].nopen > 0

\* A release that takes an entry, or passes it by, goes on to the next one.
LEMMA EntryTaken ==
  ASSUME EfcInv, release_entry, NEW n \in Nat, n = Len(calls), calls'[n] = Later
  PROVE  Walks(n)'
<1>0. EfcTypeOK /\ ReleaseWalksList /\ OneEntry /\ PassedByOpen
  BY DEF EfcInv
<1>1. ~Idle /\ Top.fn = "efc_release_real" /\ Top.entries # <<>>
  BY DEF release_entry, Running
<1>2. PICK p \in Files : p = Top.file
  BY <1>0, <1>1, AtEntry
<1>3. PICK v \in Nat : v = Visited(n)
  BY <1>0, <1>1, AtEntry
<1>4. PICK es \in Seq(EntryRecord) : es = Top.entries
  BY <1>0, <1>1, AtEntry
<1>5. PICK m \in Nat : m = Len(lru[p])
  BY <1>0, EntriesFacts
<1>6. PICK l \in Nat \ {0} : l = Len(es)
  BY <1>0, <1>1, <1>4, AtEntry
<1>7. v + 1 \in 1..m /\ v = m - l
  BY <1>0, <1>1, <1>2, <1>3, <1>4, <1>5, <1>6, AtEntry
<1>8. Head(es) = lru[p][v + 1] /\ \A k \in 1..l : es[k] = lru[p][v + k]
  BY <1>0, <1>1, <1>2, <1>3, <1>4, <1>6, AtEntry
<1>9. remove_ent(p, lru[p][v + 1].file)
  BY <1>2, <1>4, <1>8 DEF release_entry
<1>10. /\ Len(lru'[p]) = m - 1
       /\ \A k \in 1..m - 1 : lru'[p][k] = IF k < v + 1 THEN lru[p][k] ELSE lru[p][k + 1]
  BY <1>0, <1>5, <1>7, <1>9, RemoveEntFacts
<1>11. /\ calls'[n].file = p /\ calls'[n].entries = Tail(es)
       /\ Len(Tail(es)) = l - 1
       /\ \A k \in 1..l - 1 : Tail(es)[k] = es[k + 1]
  BY <1>0, <1>1, <1>2, <1>4, <1>6, LaterFacts, TailFacts
<1>12. (m - 1) - (l - 1) = v
  BY <1>7
<1>13. Visited(n)' = v
  BY <1>10, <1>11, <1>12 DEF Visited
<1>14. ASSUME NEW k \in 1..l - 1
       PROVE  Tail(es)[k] = lru'[p][v + k]
  <2>1. /\ k + 1 \in 1..l /\ v + k \in 1..m - 1 /\ ~(v + k < v + 1)
        /\ (v + k) + 1 = v + (k + 1)
    BY <1>7
  <2>2. lru'[p][v + k] = lru[p][v + (k + 1)]
    BY <2>1, <1>10
  <2> QED BY <2>1, <2>2, <1>8, <1>11
<1>15. ASSUME NEW k \in 1..v PROVE lru'[p][k].nopen > 0
  <2>1. k \in 1..m - 1 /\ k < v + 1
    BY <1>7
  <2>2. lru'[p][k] = lru[p][k]
    BY <2>1, <1>10
  <2>3. n \in 1..Len(calls) /\ Releasing(n) /\ calls[n].file = p
    BY <1>0, <1>1, <1>2, TopFacts DEF Releasing, Top
  <2> QED BY <2>2, <2>3, <1>0, <1>3 DEF PassedByOpen
<1>16. Len(calls'[n].entries) = l - 1 /\ v >= 0
  BY <1>11
<1> QED BY <1>11, <1>13, <1>14, <1>15, <1>16 DEF Walks

\* A release that passes an entry by leaves it to its clients.
LEMMA EntrySkipped ==
  ASSUME EfcInv, release_skip, NEW n \in Nat, n = Len(calls), calls'[n] = Later
  PROVE  Walks(n)'
<1>0. EfcTypeOK /\ ReleaseWalksList /\ PassedByOpen
  BY DEF EfcInv
<1>1. ~Idle /\ Top.fn = "efc_release_real" /\ Top.entries # <<>> /\ Head(Top.entries).nopen > 0
      /\ lru' = lru
  BY DEF release_skip, Running, UNCHANGED_COUNTS
<1>2. PICK p \in Files : p = Top.file
  BY <1>0, <1>1, AtEntry
<1>3. PICK v \in Nat : v = Visited(n)
  BY <1>0, <1>1, AtEntry
<1>4. PICK es \in Seq(EntryRecord) : es = Top.entries
  BY <1>0, <1>1, AtEntry
<1>5. PICK m \in Nat : m = Len(lru[p])
  BY <1>0, EntriesFacts
<1>6. PICK l \in Nat \ {0} : l = Len(es)
  BY <1>0, <1>1, <1>4, AtEntry
<1>7. v + 1 \in 1..m /\ v = m - l
  BY <1>0, <1>1, <1>2, <1>3, <1>4, <1>5, <1>6, AtEntry
<1>8. Head(es) = lru[p][v + 1] /\ \A k \in 1..l : es[k] = lru[p][v + k]
  BY <1>0, <1>1, <1>2, <1>3, <1>4, <1>6, AtEntry
<1>11. /\ calls'[n].file = p /\ calls'[n].entries = Tail(es)
       /\ Len(Tail(es)) = l - 1
       /\ \A k \in 1..l - 1 : Tail(es)[k] = es[k + 1]
  BY <1>0, <1>1, <1>2, <1>4, <1>6, LaterFacts, TailFacts
<1>12. m - (l - 1) = v + 1
  BY <1>7
<1>13. Visited(n)' = v + 1
  BY <1>1, <1>5, <1>11, <1>12 DEF Visited
<1>14. ASSUME NEW k \in 1..l - 1
       PROVE  Tail(es)[k] = lru'[p][(v + 1) + k]
  <2>1. k + 1 \in 1..l /\ (v + 1) + k = v + (k + 1)
    OBVIOUS
  <2> QED BY <2>1, <1>1, <1>8, <1>11
<1>15. ASSUME NEW k \in 1..v + 1 PROVE lru'[p][k].nopen > 0
  <2>1. k \in 1..v \/ k = v + 1
    OBVIOUS
  <2>2. n \in 1..Len(calls) /\ Releasing(n) /\ calls[n].file = p
    BY <1>0, <1>1, <1>2, TopFacts DEF Releasing, Top
  <2>3. k \in 1..v => lru[p][k].nopen > 0
    BY <2>2, <1>0, <1>3 DEF PassedByOpen
  <2> QED BY <2>1, <2>3, <1>1, <1>4, <1>8
<1>16. Len(calls'[n].entries) = l - 1 /\ v + 1 >= 0
  BY <1>11
<1> QED BY <1>11, <1>13, <1>14, <1>15, <1>16 DEF Walks

\* The releases walk their lists: theirs are the caches they have locked.
LEMMA WalksKept ==
  ASSUME EfcInv, Step PROVE ReleaseWalksList' /\ PassedByOpen'
<1>0. EfcTypeOK /\ ReleaseWalksList /\ PassedByOpen /\ Locked /\ Callers
  BY DEF EfcInv
<1>n. PICK n \in Nat \ {0} : n = Len(calls)
  BY <1>0, StepMoves DEF Moves
<1>1. ASSUME NEW i, Releasing(i)' PROVE Walks(i)'
  <2>1. CASE i < n /\ Releasing(i) /\ calls'[i] = calls[i]
    <3>1. PICK p \in Files : p = calls[i].file
      BY <2>1, <1>0, ReleasingLocked
    <3>2. lru'[p] = lru[p]
      <4>1. CASE release_entry /\ Top.fn = "efc_release_real"
        <5>1. Releasing(n)
          BY <4>1, <1>n DEF Releasing, Top
        <5>2. Top.file # p
          BY <5>1, <2>1, <3>1, <1>0, <1>n DEF Locked, Top, Releasing
        <5>3. lru' = [lru EXCEPT ![Top.file] =
                        RemoveAt(@, Position(Top.file, Head(Top.entries).file))]
          BY <4>1 DEF release_entry, remove_ent
        <5> QED BY <5>2, <5>3, <1>0 DEF EfcTypeOK
      <4>2. CASE efc_open_evicted /\ Len(calls) = 1
        BY <4>2, <2>1, <1>0, <1>n DEF Releasing
      <4> QED BY <4>1, <4>2, <1>0, CacheSteps
    <3>3. Visited(i)' = Visited(i)
      BY <2>1, <3>1, <3>2 DEF Visited
    <3>4. Walks(i)
      BY <2>1, <1>0 DEF ReleaseWalksList, PassedByOpen, Walks, Releasing
    <3> QED BY <2>1, <3>1, <3>2, <3>3, <3>4 DEF Walks
  <2>2. CASE i = n /\ (release_entry \/ release_skip) /\ calls'[i] = Later
    BY <2>2, <1>n, EntryTaken, EntrySkipped
  <2>3. CASE i = n + 1 /\ Starts
    <3>1. PICK p \in Files : p = Top.file
      BY <1>0, StepMoves DEF Moves, FrameRecord
    <3>2. /\ lru' = lru /\ calls'[i].file = p /\ calls'[i].entries = lru[p]
          /\ Len(lru[p]) \in Nat
      BY <2>3, <3>1, <1>n, <1>0, EntriesFacts DEF Starts, Over, Frame
    <3>3. Visited(i)' = 0
      BY <3>2 DEF Visited
    <3> QED BY <3>2, <3>3 DEF Walks
  <2> QED BY <1>0, <1>1, <1>n, <2>1, <2>2, <2>3, ReleasingAfter
<1>2. ReleaseWalksList'
  BY <1>1 DEF Walks, ReleaseWalksList
<1>3. PassedByOpen'
  BY <1>1 DEF Walks, PassedByOpen
<1> QED BY <1>2, <1>3
-----------------------------------------------------------------------------
\* The step that a new frame on the stack comes from.
LEMMA FrameFrom ==
  ASSUME EfcTypeOK, Step, NEW n \in Nat \ {0}, n = Len(calls),
         NEW i \in n..Len(calls')
  PROVE  /\ calls'[i].fn \in {"pass1", "pass2"} =>
              i = n /\ (pass1_mark \/ pass2_file \/ try_close_root)
         /\ calls'[i].fn = "cleanup" => i = n /\ pass2_done /\ calls'[i].files = found
         /\ calls'[i].fn = "efc_destroy" => i = n /\ dest_efc
         /\ calls'[i].fn # "efc_open"
<1>0. /\ \A fn, f : At(fn, f).fn = fn
      /\ \A fn, f, entries : Over(fn, f, entries).fn = fn
      /\ \A fn, f, files, objs : Frame(fn, f, <<>>, files, objs).fn = fn
      /\ \A fn, f, files, objs : Frame(fn, f, <<>>, files, objs).files = files
  BY DEF At, Over, Frame
<1>1. ASSUME NEW frame, Replaced(frame) PROVE i = n /\ calls'[i] = frame
  BY <1>1 DEF Replaced
<1>2. ASSUME NEW callee, NEW frame, Pushed(callee, frame)
      PROVE  (i = n /\ calls'[i] = frame) \/ (i = n + 1 /\ calls'[i] = callee)
  BY <1>2 DEF Pushed
<1>3. ~Popped
  BY DEF Popped
<1>4. ASSUME ~Idle, Top.entries # <<>> PROVE Later.fn = Top.fn
  BY <1>4, LaterFacts
<1>5. CASE TryClose
  <2>1. ~try_close_objects
    BY <1>3, ClosingMoves DEF Moves
  <2>2. CASE try_close_top \/ try_close_cleanup
    <3>1. Replaced(At("H5F__dest", Top.file))
      BY <2>2, ClosingMoves DEF Moves
    <3>2. calls'[i].fn = "H5F__dest"
      BY <3>1, <1>0, <1>1
    <3> QED BY <3>2
  <2>3. CASE try_close_reentered
    <3>1. Pushed(Over("efc_release_real", Top.file, lru[Top.file]), At("H5F__dest", Top.file))
      BY <2>3, ClosingMoves DEF Moves
    <3>2. calls'[i].fn \in {"H5F__dest", "efc_release_real"}
      BY <3>1, <1>0, <1>2
    <3> QED BY <3>2
  <2>4. CASE try_close_root
    <3>1. Pushed(Over("tag1", Top.file, lru[Top.file]), At("pass1", Top.file))
      BY <2>4, ClosingMoves DEF Moves
    <3>2. (i = n /\ calls'[i].fn = "pass1") \/ calls'[i].fn = "tag1"
      BY <3>1, <1>0, <1>2
    <3> QED BY <2>4, <3>2
  <2> QED BY <1>5, <2>1, <2>2, <2>3, <2>4 DEF TryClose
<1>6. CASE Pass1
  <2>1. ~tag1_return
    BY <1>3, PassMoves DEF Moves
  <2>2. CASE tag1_entry
    <3> DEFINE esf == Head(Top.entries).file
    <3>1. Later.fn = "tag1"
      BY <2>2, <1>4 DEF tag1_entry, Running
    <3>2. Replaced(Later) \/ Pushed(Over("tag1", esf, lru[esf]), Later)
      BY <2>2, PassMoves DEF Moves
    <3> HIDE DEF esf
    <3>3. calls'[i].fn = "tag1"
      BY <3>1, <3>2, <1>0, <1>1, <1>2
    <3> QED BY <3>3
  <2>3. CASE pass1_keep
    <3>1. Replaced(At("H5F__dest", Top.file))
      BY <2>3, PassMoves DEF Moves
    <3>2. calls'[i].fn = "H5F__dest"
      BY <3>1, <1>0, <1>1
    <3> QED BY <3>2
  <2>4. CASE pass1_mark
    <3> DEFINE left == {g \in found : tag[g] > 0}
    <3>1. Replaced(Frame("pass2", Top.file, <<>>, left, 0))
      BY <2>4, PassMoves DEF Moves
    <3> HIDE DEF left
    <3>2. calls'[i].fn = "pass2" /\ i = n
      BY <3>1, <1>0, <1>1
    <3> QED BY <2>4, <3>2
  <2> QED BY <1>6, <2>1, <2>2, <2>3, <2>4 DEF Pass1
<1>7. CASE Pass2
  <2>1. ~tag2_return
    BY <1>3, PassMoves DEF Moves
  <2>2. CASE tag2_entry
    <3> DEFINE esf == Head(Top.entries).file
    <3>1. Later.fn = "tag2"
      BY <2>2, <1>4 DEF tag2_entry, Running
    <3>2. Replaced(Later) \/ Pushed(Over("tag2", esf, lru[esf]), Later)
      BY <2>2, PassMoves DEF Moves
    <3> HIDE DEF esf
    <3>3. calls'[i].fn = "tag2"
      BY <3>1, <3>2, <1>0, <1>1, <1>2
    <3> QED BY <3>3
  <2>3. CASE pass2_file
    <3>1. Moves(\E g \in Top.files :
                  Pushed(Over("tag2", g, lru[g]), [Top EXCEPT !.files = @ \ {g}]))
      BY <2>3, PassMoves
    <3>2. PICK g \in Top.files : Pushed(Over("tag2", g, lru[g]), [Top EXCEPT !.files = @ \ {g}])
      BY <3>1 DEF Moves
    <3>3. Top \in FrameRecord /\ Top.fn = "pass2"
      BY <2>3, <3>1 DEF Moves, pass2_file, Running
    <3> DEFINE frame == [Top EXCEPT !.files = @ \ {g}]
    <3>4. frame.fn = "pass2" /\ Pushed(Over("tag2", g, lru[g]), frame)
      BY <3>2, <3>3 DEF FrameRecord
    <3> HIDE DEF frame
    <3>5. (i = n /\ calls'[i].fn = "pass2") \/ (i = n + 1 /\ calls'[i].fn = "tag2")
      BY <3>4, <1>0, <1>2
    <3> QED BY <2>3, <3>5
  <2>4. CASE pass2_done
    <3> DEFINE cleanup == Frame("cleanup", Top.file, <<>>, found, 0)
               callee == Over("efc_release_real", Top.file, lru[Top.file])
    <3>1. Moves(IF tag[Top.file] = TAG_CLOSE THEN Pushed(callee, cleanup) ELSE Replaced(cleanup))
      BY <2>4, PassMoves
    <3>2. cleanup.fn = "cleanup" /\ cleanup.files = found /\ callee.fn = "efc_release_real"
      BY <1>0
    <3> HIDE DEF cleanup, callee
    <3>3. (i = n /\ calls'[i] = cleanup) \/ (i = n + 1 /\ calls'[i] = callee)
      BY <3>1, <1>1, <1>2 DEF Moves
    <3> QED BY <2>4, <3>2, <3>3
  <2> QED BY <1>7, <2>1, <2>2, <2>3, <2>4 DEF Pass2
<1>8. CASE ReleaseStep
  <2>1. ~release_return
    BY <1>3, OtherMoves DEF Moves
  <2>2. CASE release_skip
    <3>1. Later.fn = "efc_release_real"
      BY <2>2, <1>4 DEF release_skip, Running
    <3>2. Replaced(Later)
      BY <2>2, OtherMoves DEF Moves
    <3>3. calls'[i].fn = "efc_release_real"
      BY <3>1, <3>2, <1>1
    <3> QED BY <3>3
  <2>3. CASE release_entry
    <3> DEFINE ent == Head(Top.entries)
    <3>1. Later.fn = "efc_release_real"
      BY <2>3, <1>4 DEF release_entry, Running
    <3>2. Pushed(Frame("H5F_try_close", ent.file, <<>>, {}, ent.objs), Later)
      BY <2>3, OtherMoves DEF Moves
    <3> HIDE DEF ent
    <3>3. calls'[i].fn \in {"efc_release_real", "H5F_try_close"}
      BY <3>1, <3>2, <1>0, <1>2
    <3> QED BY <3>3
  <2> QED BY <1>8, <2>1, <2>2, <2>3 DEF ReleaseStep
<1>9. CASE Dest
  <2>1. ~dest_top /\ ~dest_shared
    BY <1>3, OtherMoves DEF Moves
  <2>2. CASE dest_efc
    <3>1. Pushed(Over("efc_release_real", Top.file, lru[Top.file]), At("efc_destroy", Top.file))
      BY <2>2, OtherMoves DEF Moves
    <3>2. (i = n /\ calls'[i].fn = "efc_destroy") \/ calls'[i].fn = "efc_release_real"
      BY <3>1, <1>0, <1>2
    <3> QED BY <2>2, <3>2
  <2> QED BY <1>9, <2>1, <2>2 DEF Dest
<1>10. ~efc_open_evicted
  BY <1>3, OtherMoves DEF Moves
<1> QED BY <1>5, <1>6, <1>7, <1>8, <1>9, <1>10 DEF Step

\* The frames below the running one stay as they are.
LEMMA FramesBelow ==
  ASSUME EfcTypeOK, Step
  PROVE  \A i \in 1..Len(calls') : i < Len(calls) => calls'[i] = calls[i]
<1>1. Moves(StackStep)
  BY StepMoves
<1> QED BY <1>1 DEF Moves, StackStep, Stays, Nests, Popped, Replaced, Pushed

\* What the passes have found is not locked: they do not touch locked files.
LEMMA PassesUnlockedKept ==
  ASSUME EfcInv, Step PROVE PassesUnlocked'
<1> USE DEF TAG_DEFAULT, TAG_LOCK, TAG_CLOSE, TAG_DONTCLOSE
<1>0. EfcTypeOK /\ PassesAlone /\ Locked /\ PassesUnlocked
  BY DEF EfcInv
<1>n. PICK n \in Nat \ {0} : n = Len(calls)
  BY <1>0, StepMoves DEF Moves
<1>m. Len(calls') \in Nat /\ ~Idle /\ Top \in FrameRecord /\ Top = calls[n]
  BY <1>0, <1>n, StepMoves DEF Moves, Top
<1>t. tag \in [Files -> Int] /\ found \subseteq Files /\ Top.file \in Files
      /\ efc_nrefs[Top.file] \in Nat
  BY <1>0, <1>m DEF EfcTypeOK, FrameRecord
<1>1. ASSUME NEW i \in 1..n, calls[i].fn \in {"pass1", "pass2"},
             Pass1 \/ Pass2, ~pass1_keep, ~pass2_done
      PROVE  \A f \in found' : tag'[f] # TAG_LOCK
  <2>0. \A f \in found : tag[f] # TAG_LOCK
    BY <1>0, <1>1, <1>n DEF PassesUnlocked
  <2>1. CASE tag1_return \/ tag2_return \/ pass2_file
    BY <2>0, <2>1 DEF tag1_return, tag2_return, pass2_file
  <2>2. CASE tag1_entry
    <3> DEFINE esf == Head(Top.entries).file
    <3>1. /\ found' = found \/ found' = found \cup {esf}
          /\ \/ tag' = tag /\ found' = found
             \/ tag' = [tag EXCEPT ![esf] = tag[esf] - 1] /\ tag[esf] > 0 /\ found' = found
             \/ tag' = [tag EXCEPT ![esf] = shared_nrefs[esf] - 1] /\ shared_nrefs[esf] > 1
      BY <2>2 DEF tag1_entry
    <3>2. ~Idle /\ Top.entries # <<>>
      BY <2>2 DEF tag1_entry, Running
    <3>3. esf \in Files /\ shared_nrefs[esf] \in Nat /\ tag[esf] \in Int
      BY <3>2, <1>0, LaterFacts DEF EntryRecord, EfcTypeOK
    <3> HIDE DEF esf
    <3> QED BY <2>0, <3>1, <3>3, <1>t
  <2>3. CASE tag2_entry
    <3> DEFINE esf == Head(Top.entries).file
    <3>1. \/ tag' = tag /\ found' = found
          \/ tag' = [tag EXCEPT ![esf] = TAG_DONTCLOSE] /\ found' = found \cup {esf}
      BY <2>3 DEF tag2_entry
    <3>2. ~Idle /\ Top.entries # <<>>
      BY <2>3 DEF tag2_entry, Running
    <3>3. esf \in Files
      BY <3>2, <1>0, LaterFacts DEF EntryRecord
    <3> HIDE DEF esf
    <3> QED BY <2>0, <3>1, <3>3, <1>t
  <2>4. CASE pass1_mark
    <3>1. /\ tag' = [g \in Files |-> IF g \notin found THEN tag[g]
                       ELSE IF tag[g] > 0 THEN TAG_DONTCLOSE ELSE TAG_CLOSE]
          /\ found' \subseteq found
      BY <2>4 DEF pass1_mark
    <3> QED BY <3>1, <1>t
  <2> QED BY <1>1, <2>1, <2>2, <2>3, <2>4 DEF Pass1, Pass2
<1>2. ASSUME try_close_root PROVE \A f \in found' : tag'[f] # TAG_LOCK
  BY <1>2, <1>t DEF try_close_root
<1>3. ASSUME NEW i \in 1..Len(calls'), calls'[i].fn \in {"pass1", "pass2"}
      PROVE  \A f \in found' : tag'[f] # TAG_LOCK
  <2>1. CASE i < n
    <3>1. i \in 1..n /\ calls[i].fn \in {"pass1", "pass2"}
      BY <2>1, <1>0, <1>n, <1>3, FramesBelow
    <3>2. Top.fn \in {"tag1", "tag2"}
      BY <2>1, <3>1, <1>0, <1>m, <1>n, NoPassBelow
    <3>3. /\ ~TryClose /\ ~ReleaseStep /\ ~Dest /\ ~efc_open_evicted
          /\ ~pass1_keep /\ ~pass2_done
      BY <3>2 DEF TryClose, try_close_objects, try_close_top, try_close_reentered,
           try_close_root, try_close_cleanup, ReleaseStep, release_entry, release_skip,
           release_return, Dest, dest_top, dest_efc, dest_shared, efc_open_evicted,
           pass1_keep, pass2_done, Running
    <3> QED BY <3>1, <3>3, <1>1 DEF Step
  <2>2. CASE ~(i < n)
    <3>1. i = n /\ (pass1_mark \/ pass2_file \/ try_close_root)
      BY <2>2, <1>0, <1>m, <1>n, <1>3, FrameFrom
    <3>2. CASE pass1_mark \/ pass2_file
      <4>1. Top.fn \in {"pass1", "pass2"}
        BY <3>2 DEF pass1_mark, pass2_file, Running
      <4>2. /\ pass1_mark => Top.fn = "pass1" /\ tag[Top.file] <= 0
            /\ pass2_file => Top.fn = "pass2" /\ Top.files # {}
            /\ pass1_keep => Top.fn = "pass1" /\ tag[Top.file] > 0
            /\ pass2_done => Top.fn = "pass2" /\ Top.files = {}
        BY DEF pass1_mark, pass1_keep, pass2_file, pass2_done, Running
      <4>3. tag[Top.file] \in Int
        BY <1>t
      <4>4. ~pass1_keep /\ ~pass2_done
        BY <3>2, <4>2, <4>3
      <4>5. n \in 1..n
        OBVIOUS
      <4> QED BY <3>2, <4>1, <4>4, <4>5, <1>1, <1>m DEF Pass1, Pass2
    <3> QED BY <3>1, <3>2, <1>2
  <2> QED BY <2>1, <2>2
<1>4. ASSUME NEW i \in 1..Len(calls'), calls'[i].fn = "cleanup",
             NEW j \in 1..i - 1, Releasing(j)'
      PROVE  calls'[j].file \notin calls'[i].files
  <2>1. i \in Nat /\ i >= 1 /\ i <= Len(calls') /\ j \in 1..Len(calls') /\ j < i
    BY <1>m
  <2>2. CASE i < n
    <3>1. calls'[i] = calls[i] /\ calls'[j] = calls[j] /\ i \in 1..n /\ j \in 1..n
      BY <2>1, <2>2, <1>0, <1>n, FramesBelow
    <3> QED BY <3>1, <1>0, <1>4, <1>n DEF PassesUnlocked, Releasing
  <2>3. CASE ~(i < n)
    <3>1. i = n /\ pass2_done /\ calls'[i].files = found
      BY <2>1, <2>3, <1>0, <1>m, <1>n, <1>4, FrameFrom
    <3>2. calls'[j] = calls[j] /\ j \in 1..n
      BY <2>1, <3>1, <1>0, <1>n, FramesBelow
    <3>3. tag[calls[j].file] = TAG_LOCK
      BY <3>2, <1>0, <1>4, <1>n, ReleasingLocked DEF Releasing
    <3>4. Top.fn = "pass2"
      BY <3>1 DEF pass2_done, Running
    <3>5. \A f \in found : tag[f] # TAG_LOCK
      BY <3>4, <1>0, <1>m, <1>n DEF PassesUnlocked
    <3> QED BY <3>1, <3>2, <3>3, <3>5
  <2> QED BY <2>2, <2>3
<1> QED BY <1>3, <1>4 DEF PassesUnlocked
-----------------------------------------------------------------------------
\* A changed value keeps the type of a function.
LEMMA ExceptType ==
  ASSUME NEW S, NEW T, NEW f \in [S -> T], NEW x \in S, NEW v \in T
  PROVE  [f EXCEPT ![x] = v] \in [S -> T]
OBVIOUS

\* A file that has an entry in a cache counts it.
LEMMA CachedCounts ==
  ASSUME EfcTypeOK, CountsAgree, NEW p \in Files, NEW f \in Files, Cached(p, f)
  PROVE  /\ p \in Parents(f) /\ Cardinality(Parents(f)) \in Nat \ {0}
         /\ HasEFC(f) => efc_nrefs[f] >= 1
<1>1. p \in Parents(f)
  BY DEF Parents
<1>2. Cardinality(Parents(f)) \in Nat \ {0}
  BY <1>1, CountsFacts, FS_EmptySet
<1> QED BY <1>1, <1>2 DEF CountsAgree

\* H5F__efc_insert puts an entry in front of the list.
LEMMA InsertFacts ==
  ASSUME EfcTypeOK, NEW p \in Files, NEW f \in Files, insert(p, f)
  PROVE  /\ lru' \in [Files -> Seq(EntryRecord)]
         /\ shared_nrefs' \in [Files -> Nat] /\ efc_nrefs' \in [Files -> Nat]
         /\ Len(lru'[p]) = Len(lru[p]) + 1 /\ Len(lru[p]) \in Nat
         /\ lru'[p][1] = Entry(f)
         /\ \A k \in 1..Len(lru[p]) : lru'[p][k + 1] = lru[p][k]
         /\ \A q \in Files : q # p => lru'[q] = lru[q]
<1>1. lru \in [Files -> Seq(EntryRecord)] /\ lru[p] \in Seq(EntryRecord)
      /\ Entry(f) \in EntryRecord
  BY DEF EfcTypeOK, Entry, EntryRecord
<1>2. PICK s \in Seq(EntryRecord) : s = lru[p]
  BY <1>1
<1>3. <<Entry(f)>> \in Seq(EntryRecord) /\ Len(<<Entry(f)>>) = 1 /\ <<Entry(f)>>[1] = Entry(f)
  BY <1>1
<1> DEFINE e == <<Entry(f)>>
           t == e \o s
<1>4. t \in Seq(EntryRecord) /\ Len(t) = Len(e) + Len(s)
      /\ \A k \in 1..Len(e) + Len(s) : t[k] = IF k <= Len(e) THEN e[k] ELSE s[k - Len(e)]
  <2> HIDE DEF e
  <2> QED BY <1>2, <1>3, ConcatProperties DEF e
<1>5. lru' = [lru EXCEPT ![p] = t]
  BY <1>2 DEF insert
<1> HIDE DEF t
<1>6. lru' \in [Files -> Seq(EntryRecord)] /\ lru'[p] = t
      /\ \A q \in Files : q # p => lru'[q] = lru[q]
  BY <1>1, <1>4, <1>5
<1>7. Len(s) \in Nat /\ Len(e) = 1 /\ e[1] = Entry(f)
  BY <1>2, <1>3
<1> HIDE DEF e
<1>8. Len(t) = Len(s) + 1 /\ t[1] = Entry(f) /\ \A k \in 1..Len(s) : t[k + 1] = s[k]
  <2>1. Len(t) = Len(s) + 1
    BY <1>4, <1>7
  <2>2. 1 \in 1..Len(e) + Len(s) /\ 1 <= Len(e)
    BY <1>7
  <2>3. t[1] = Entry(f)
    BY <1>4, <1>7, <2>2
  <2>4. ASSUME NEW k \in 1..Len(s) PROVE t[k + 1] = s[k]
    <3>1. k + 1 \in 1..Len(e) + Len(s) /\ ~(k + 1 <= Len(e)) /\ (k + 1) - Len(e) = k
      BY <1>7
    <3> QED BY <3>1, <1>4
  <2> QED BY <2>1, <2>3, <2>4
<1>9. shared_nrefs' \in [Files -> Nat] /\ efc_nrefs' \in [Files -> Nat]
  <2>1. shared_nrefs \in [Files -> Nat] /\ efc_nrefs \in [Files -> Nat]
    BY DEF EfcTypeOK
  <2>2. /\ shared_nrefs' = [shared_nrefs EXCEPT ![f] = shared_nrefs[f] + 1]
        /\ efc_nrefs' = [efc_nrefs EXCEPT ![f] = IF HasEFC(f) THEN efc_nrefs[f] + 1
                                                 ELSE efc_nrefs[f]]
    BY DEF insert
  <2>3. /\ shared_nrefs[f] + 1 \in Nat
        /\ (IF HasEFC(f) THEN efc_nrefs[f] + 1 ELSE efc_nrefs[f]) \in Nat
    BY <2>1
  <2> QED BY <2>1, <2>2, <2>3, ExceptType
<1> QED BY <1>2, <1>6, <1>7, <1>8, <1>9

\* The steps of a call keep the types.
LEMMA StepTypes ==
  ASSUME EfcInv, Step PROVE EfcTypeOK' /\ user' = user
<1>0. EfcTypeOK /\ CountsAgree /\ OneEntry /\ ReleaseWalksList
  BY DEF EfcInv
<1>a. TAG_DEFAULT \in Int /\ TAG_LOCK \in Int /\ TAG_CLOSE \in Int /\ TAG_DONTCLOSE \in Int
  BY DEF TAG_DEFAULT, TAG_LOCK, TAG_CLOSE, TAG_DONTCLOSE
<1>s. /\ calls' \in Seq(FrameRecord) /\ lru \in [Files -> Seq(EntryRecord)]
  BY <1>0, StepMoves DEF Moves, EfcTypeOK
<1>1. /\ ~Idle /\ Top.file \in Files /\ Top.files \subseteq Files
  BY <1>0, StepMoves DEF Moves, FrameRecord
<1>2. /\ shared_nrefs \in [Files -> Nat] /\ efc_nrefs \in [Files -> Nat]
      /\ tag \in [Files -> Int]
      /\ user \in [Files -> Nat] /\ loose \in [Files -> Nat] /\ orphaned \in [Files -> Nat]
      /\ found \subseteq Files
  BY <1>0 DEF EfcTypeOK
<1>3. SUFFICES /\ shared_nrefs' \in [Files -> Nat] /\ efc_nrefs' \in [Files -> Nat]
               /\ lru' \in [Files -> Seq(EntryRecord)] /\ tag' \in [Files -> Int]
               /\ user' = user /\ loose' \in [Files -> Nat] /\ orphaned' \in [Files -> Nat]
               /\ found' \subseteq Files
  BY <1>s, <1>2 DEF EfcTypeOK
<1>4. CASE UNCHANGED_COUNTS
  <2>1. /\ shared_nrefs' = shared_nrefs /\ efc_nrefs' = efc_nrefs /\ lru' = lru
        /\ user' = user /\ loose' = loose /\ orphaned' = orphaned
    BY <1>4 DEF UNCHANGED_COUNTS, TOPS
  <2>2. SUFFICES tag' \in [Files -> Int] /\ found' \subseteq Files
    BY <1>s, <1>2, <2>1
  <2>3. CASE TryClose
    <3>1. ~try_close_objects
      BY <1>1, <1>2, <2>1 DEF try_close_objects
    <3>2. CASE try_close_top \/ try_close_reentered
      <4>1. (tag' = tag \/ tag' = [tag EXCEPT ![Top.file] = TAG_LOCK]) /\ found' = found
        BY <3>2 DEF try_close_top, try_close_reentered, Release
      <4> QED BY <1>a, <1>1, <1>2, <4>1, ExceptType
    <3>4. CASE try_close_cleanup
      BY <1>a, <1>2, <3>4 DEF try_close_cleanup, ResetTags
    <3>3. CASE try_close_root
      <4>1. /\ tag' = [tag EXCEPT ![Top.file] = efc_nrefs[Top.file]]
            /\ found' = {Top.file} /\ efc_nrefs[Top.file] \in Int
        BY <1>1, <1>2, <3>3 DEF try_close_root
      <4> QED BY <1>1, <1>2, <4>1, ExceptType
    <3> QED BY <2>3, <3>1, <3>2, <3>3, <3>4 DEF TryClose
  <2>4. CASE Pass1
    <3>1. CASE tag1_return
      BY <1>2, <3>1 DEF tag1_return
    <3>2. CASE tag1_entry
      <4> DEFINE esf == Head(Top.entries).file
      <4>1. \E t \in Int : tag' = tag \/ tag' = [tag EXCEPT ![esf] = t]
        <5>1. Top.entries # <<>>
          BY <3>2 DEF tag1_entry
        <5>2. esf \in Files
          BY <5>1, <1>0, <1>1, LaterFacts DEF EntryRecord
        <5>3. tag[esf] - 1 \in Int /\ shared_nrefs[esf] - 1 \in Int
          BY <5>2, <1>2
        <5>4. \/ tag' = tag \/ tag' = [tag EXCEPT ![esf] = tag[esf] - 1]
              \/ tag' = [tag EXCEPT ![esf] = shared_nrefs[esf] - 1]
          BY <3>2 DEF tag1_entry
        <5> QED BY <5>3, <5>4
      <4>2. found' = found \/ found' = found \cup {esf}
        BY <3>2 DEF tag1_entry
      <4>3. Top.entries # <<>>
        BY <3>2 DEF tag1_entry
      <4>4. esf \in Files
        BY <4>3, <1>0, <1>1, LaterFacts DEF EntryRecord
      <4> HIDE DEF esf
      <4>5. found' \subseteq Files
        BY <1>2, <4>2, <4>4
      <4> QED BY <1>2, <4>1, <4>4, <4>5, ExceptType
    <3>3. CASE pass1_keep
      BY <1>a, <1>2, <3>3 DEF pass1_keep, ResetTags
    <3>4. CASE pass1_mark
      BY <1>a, <1>2, <3>4 DEF pass1_mark
    <3> QED BY <2>4, <3>1, <3>2, <3>3, <3>4 DEF Pass1
  <2>5. CASE Pass2
    <3>1. CASE tag2_return \/ pass2_file
      BY <1>2, <3>1 DEF tag2_return, pass2_file
    <3>2. CASE tag2_entry
      <4> DEFINE esf == Head(Top.entries).file
      <4>1. tag' = tag \/ tag' = [tag EXCEPT ![esf] = TAG_DONTCLOSE]
        BY <3>2 DEF tag2_entry
      <4>2. found' = found \/ found' = found \cup {esf}
        BY <3>2 DEF tag2_entry
      <4>3. Top.entries # <<>>
        BY <3>2 DEF tag2_entry
      <4>4. esf \in Files
        BY <4>3, <1>0, <1>1, LaterFacts DEF EntryRecord
      <4> HIDE DEF esf
      <4>5. found' \subseteq Files
        BY <1>2, <4>2, <4>4
      <4> QED BY <1>a, <1>2, <4>1, <4>4, <4>5, ExceptType
    <3>3. CASE pass2_done
      <4>1. (tag' = tag \/ tag' = [tag EXCEPT ![Top.file] = TAG_LOCK]) /\ found' = {}
        BY <3>3 DEF pass2_done, Release
      <4> QED BY <1>a, <1>1, <1>2, <4>1, ExceptType
    <3> QED BY <2>5, <3>1, <3>2, <3>3 DEF Pass2
  <2>6. CASE ReleaseStep \/ Dest \/ efc_open_evicted
    <3>1. found' = found
      BY <2>6 DEF ReleaseStep, release_entry, release_skip, release_return, Dest, dest_top,
           dest_efc, dest_shared, efc_open_evicted
    <3>2. \/ tag' = tag \/ tag' = [tag EXCEPT ![Top.file] = TAG_LOCK]
          \/ tag' = [tag EXCEPT ![Top.file] = TAG_DEFAULT]
      BY <2>6 DEF ReleaseStep, release_entry, release_skip, release_return, Dest, dest_top,
           dest_efc, dest_shared, efc_open_evicted, Release
    <3> QED BY <1>a, <1>1, <1>2, <3>1, <3>2, ExceptType
  <2> QED BY <2>3, <2>4, <2>5, <2>6 DEF Step
<1>5. CASE try_close_objects
  <2>1. loose[Top.file] + 1 \in Nat /\ orphaned[Top.file] + 1 \in Nat
    BY <1>1, <1>2
  <2>2. /\ \/ loose' = [loose EXCEPT ![Top.file] = loose[Top.file] + 1] /\ orphaned' = orphaned
           \/ loose' = loose /\ orphaned' = [orphaned EXCEPT ![Top.file] = orphaned[Top.file] + 1]
        /\ UNCHANGED <<shared_nrefs, efc_nrefs, lru, tag, user, found>>
    BY <1>5 DEF try_close_objects
  <2>3. loose' \in [Files -> Nat] /\ orphaned' \in [Files -> Nat]
    BY <1>1, <1>2, <2>1, <2>2, ExceptType
  <2> QED BY <1>s, <1>2, <2>2, <2>3
<1>6. CASE release_entry
  <2>1. Top.fn = "efc_release_real" /\ Top.entries # <<>>
    BY <1>6 DEF release_entry, Running
  <2>2. PICK p \in Files : p = Top.file
    BY <1>1
  <2>3. PICK v \in 1..Len(lru[p]) : Head(Top.entries) = lru[p][v]
    BY <2>1, <2>2, <1>0, <1>1, AtEntry
  <2>4. remove_ent(p, lru[p][v].file)
    BY <1>6, <2>2, <2>3 DEF release_entry
  <2>5. lru' \in [Files -> Seq(EntryRecord)]
    BY <2>4, <1>0, RemoveEntFacts
  <2>6. PICK f \in Files : f = lru[p][v].file /\ Cached(p, f)
    BY <1>0, EntriesFacts
  <2>7. efc_nrefs' = [efc_nrefs EXCEPT ![f] = IF HasEFC(f) THEN @ - 1 ELSE @]
    BY <2>4, <2>6 DEF remove_ent
  <2>8. HasEFC(f) => efc_nrefs[f] >= 1
    BY <2>6, <1>0, CachedCounts
  <2>9. efc_nrefs' \in [Files -> Nat]
    BY <2>7, <2>8, <1>2
  <2> QED BY <1>2, <1>6, <2>5, <2>9 DEF release_entry, TOPS
<1>7. CASE dest_top
  <2>1. /\ shared_nrefs' = [shared_nrefs EXCEPT ![Top.file] = shared_nrefs[Top.file] - 1]
        /\ shared_nrefs[Top.file] > 1 /\ UNCHANGED <<efc_nrefs, lru, tag, TOPS, found>>
    BY <1>7 DEF dest_top
  <2>2. shared_nrefs[Top.file] - 1 \in Nat
    BY <1>1, <1>2, <2>1
  <2>3. shared_nrefs' \in [Files -> Nat]
    BY <1>1, <1>2, <2>1, <2>2, ExceptType
  <2> QED BY <1>s, <1>2, <2>1, <2>3 DEF TOPS
<1>8. CASE dest_shared
  <2>1. /\ shared_nrefs' = [shared_nrefs EXCEPT ![Top.file] = 0]
        /\ tag' = [tag EXCEPT ![Top.file] = TAG_DEFAULT]
        /\ UNCHANGED <<efc_nrefs, lru, TOPS, found>>
    BY <1>8 DEF dest_shared
  <2>2. shared_nrefs' \in [Files -> Nat] /\ tag' \in [Files -> Int]
    BY <1>a, <1>1, <1>2, <2>1, ExceptType
  <2> QED BY <1>s, <1>2, <2>1, <2>2 DEF TOPS
<1>9. CASE efc_open_evicted
  <2>1. ASSUME NEW f \in Top.files, insert(Top.file, f)
        PROVE  /\ shared_nrefs' \in [Files -> Nat] /\ efc_nrefs' \in [Files -> Nat]
               /\ lru' \in [Files -> Seq(EntryRecord)]
               /\ user' = user /\ loose' = loose /\ orphaned' = orphaned
    BY <2>1, <1>0, <1>1, InsertFacts DEF insert, TOPS
  <2>2. tag' = tag /\ found' = found
    BY <1>9 DEF efc_open_evicted
  <2> QED BY <1>2, <1>4, <1>9, <2>1, <2>2 DEF efc_open_evicted
<1>10. TryClose => UNCHANGED_COUNTS \/ try_close_objects
  BY DEF TryClose, try_close_top, try_close_reentered, try_close_root, try_close_cleanup
<1>11. Pass1 \/ Pass2 => UNCHANGED_COUNTS
  BY DEF Pass1, Pass2, tag1_return, tag1_entry, pass1_keep, pass1_mark, tag2_return,
         tag2_entry, pass2_file, pass2_done
<1>12. ReleaseStep => UNCHANGED_COUNTS \/ release_entry
  BY DEF ReleaseStep, release_skip, release_return
<1>13. Dest => UNCHANGED_COUNTS \/ dest_top \/ dest_shared
  BY DEF Dest, dest_efc
<1> QED BY <1>4, <1>5, <1>6, <1>7, <1>8, <1>9, <1>10, <1>11, <1>12, <1>13 DEF Step
-----------------------------------------------------------------------------
\* The elements of a list.
LEMMA ToSetFacts ==
  ASSUME NEW R, NEW s \in Seq(R)
  PROVE  /\ \A i \in 1..Len(s) : s[i] \in ToSet(s)
         /\ \A e \in ToSet(s) : \E i \in 1..Len(s) : e = s[i]
<1>1. ToSet(s) = {s[i] : i \in DOMAIN s} /\ DOMAIN s = 1..Len(s)
  BY DEF ToSet
<1> QED BY <1>1

\* H5F__efc_remove_ent leaves the other entries, and none for the same file.
LEMMA RemoveEntEntries ==
  ASSUME EfcTypeOK, OneEntry, NEW p \in Files, NEW i \in 1..Len(lru[p]),
         remove_ent(p, lru[p][i].file)
  PROVE  /\ OneEntry'
         /\ \A q \in Files : q # p => Entries(q)' = Entries(q)
         /\ Entries(p)' \subseteq Entries(p)
         /\ \A e \in Entries(p) : e = lru[p][i] \/ e \in Entries(p)'
         /\ \A e \in Entries(p)' : e.file # lru[p][i].file
<1> DEFINE s == lru[p]
<1>s. PICK t : t = lru'[p]
  OBVIOUS
<1>m. PICK m \in Nat : m = Len(s)
  BY EntriesFacts
<1>1. /\ lru \in [Files -> Seq(EntryRecord)] /\ s \in Seq(EntryRecord)
      /\ t \in Seq(EntryRecord) /\ Len(t) = m - 1
      /\ \A k \in 1..m - 1 : t[k] = IF k < i THEN s[k] ELSE s[k + 1]
      /\ \A q \in Files : q # p => lru'[q] = lru[q]
  BY <1>s, <1>m, RemoveEntFacts DEF EfcTypeOK
<1>2. /\ \A k \in 1..m : s[k] \in Entries(p)
      /\ \A e \in Entries(p) : \E k \in 1..m : e = s[k]
  BY <1>m, EntriesFacts
<1>3. /\ \A k \in 1..m - 1 : t[k] \in Entries(p)'
      /\ \A e \in Entries(p)' : \E k \in 1..m - 1 : e = t[k]
  <2>1. Entries(p)' = ToSet(t)
    BY <1>s DEF Entries
  <2>2. /\ \A k \in 1..Len(t) : t[k] \in ToSet(t)
        /\ \A e \in ToSet(t) : \E k \in 1..Len(t) : e = t[k]
    BY <1>1, ToSetFacts
  <2> QED BY <2>1, <2>2, <1>1
<1>o. \A j, k \in 1..m : s[j].file = s[k].file => j = k
  BY <1>m DEF OneEntry
<1>i. i \in 1..m
  BY <1>m
<1> HIDE DEF s
<1>4. ASSUME NEW k \in 1..m - 1
      PROVE  \E j \in 1..m : t[k] = s[j] /\ j # i /\ (j = IF k < i THEN k ELSE k + 1)
  <2>1. CASE k < i
    BY <2>1, <1>1
  <2>2. CASE ~(k < i)
    <3>1. k + 1 \in 1..m /\ k + 1 # i
      BY <2>2, <1>i
    <3> QED BY <2>2, <3>1, <1>1
  <2> QED BY <2>1, <2>2
<1>5. \A e \in Entries(p)' : \E j \in 1..m : e = s[j] /\ j # i
  BY <1>3, <1>4
<1>6. Entries(p)' \subseteq Entries(p)
  BY <1>2, <1>5
<1>7. \A e \in Entries(p)' : e.file # s[i].file
  BY <1>5, <1>o, <1>i
<1>8. ASSUME NEW k \in 1..m, k # i PROVE s[k] \in Entries(p)'
  <2>1. CASE k < i
    <3>1. k \in 1..m - 1
      BY <2>1, <1>i
    <3> QED BY <2>1, <3>1, <1>1, <1>3
  <2>2. CASE k > i
    <3>1. k - 1 \in 1..m - 1 /\ ~(k - 1 < i) /\ (k - 1) + 1 = k
      BY <2>2, <1>i
    <3> QED BY <3>1, <1>1, <1>3
  <2> QED BY <1>8, <1>i, <2>1, <2>2
<1>9. \A e \in Entries(p) : e = s[i] \/ e \in Entries(p)'
  BY <1>2, <1>8
<1>10. \A q \in Files : q # p => Entries(q)' = Entries(q)
  BY <1>1 DEF Entries
<1>11. OneEntry'
  <2>1. ASSUME NEW j \in 1..m - 1, NEW k \in 1..m - 1, t[j].file = t[k].file PROVE j = k
    <3>1. PICK a \in 1..m : t[j] = s[a] /\ (a = IF j < i THEN j ELSE j + 1)
      BY <1>4
    <3>2. PICK b \in 1..m : t[k] = s[b] /\ (b = IF k < i THEN k ELSE k + 1)
      BY <1>4
    <3>3. a = b
      BY <2>1, <3>1, <3>2, <1>o
    <3> QED BY <3>1, <3>2, <3>3, <1>i
  <2>2. \A q \in Files : q # p =>
          \A j, k \in 1..Len(lru'[q]) : lru'[q][j].file = lru'[q][k].file => j = k
    BY <1>1 DEF OneEntry
  <2>3. \A j, k \in 1..Len(lru'[p]) : lru'[p][j].file = lru'[p][k].file => j = k
    BY <1>1, <1>s, <2>1
  <2> QED BY <2>2, <2>3 DEF OneEntry
<1> QED BY <1>6, <1>7, <1>9, <1>10, <1>11 DEF s

\* H5F__efc_insert adds one entry for a file that the cache has none for.
LEMMA InsertEntries ==
  ASSUME EfcTypeOK, OneEntry, NEW p \in Files, NEW f \in Files, ~Cached(p, f), insert(p, f)
  PROVE  /\ OneEntry'
         /\ \A q \in Files : q # p => Entries(q)' = Entries(q)
         /\ Entries(p)' = Entries(p) \cup {Entry(f)}
<1> DEFINE s == lru[p]
<1>s. PICK t : t = lru'[p]
  OBVIOUS
<1>m. PICK m \in Nat : m = Len(s)
  BY EntriesFacts
<1>1. /\ s \in Seq(EntryRecord) /\ t \in Seq(EntryRecord) /\ Len(t) = m + 1
      /\ t[1] = Entry(f) /\ \A k \in 1..m : t[k + 1] = s[k]
      /\ \A q \in Files : q # p => lru'[q] = lru[q]
  BY <1>s, <1>m, InsertFacts DEF EfcTypeOK
<1>2. /\ \A k \in 1..m : s[k] \in Entries(p) /\ s[k].file # f
      /\ \A e \in Entries(p) : \E k \in 1..m : e = s[k]
  BY <1>m, EntriesFacts
<1>3. /\ \A k \in 1..m + 1 : t[k] \in Entries(p)'
      /\ \A e \in Entries(p)' : \E k \in 1..m + 1 : e = t[k]
  <2>1. Entries(p)' = ToSet(t)
    BY <1>s DEF Entries
  <2>2. /\ \A k \in 1..Len(t) : t[k] \in ToSet(t)
        /\ \A e \in ToSet(t) : \E k \in 1..Len(t) : e = t[k]
    BY <1>1, ToSetFacts
  <2> QED BY <2>1, <2>2, <1>1
<1>o. \A j, k \in 1..m : s[j].file = s[k].file => j = k
  BY <1>m DEF OneEntry
<1> HIDE DEF s
<1>4. ASSUME NEW k \in 1..m + 1, k # 1
      PROVE  k - 1 \in 1..m /\ t[k] = s[k - 1]
  <2>1. k - 1 \in 1..m /\ (k - 1) + 1 = k
    BY <1>4
  <2> QED BY <2>1, <1>1
<1>5. Entries(p)' \subseteq Entries(p) \cup {Entry(f)}
  <2>1. SUFFICES ASSUME NEW e \in Entries(p)' PROVE e = Entry(f) \/ e \in Entries(p)
    OBVIOUS
  <2>2. PICK k \in 1..m + 1 : e = t[k]
    BY <1>3
  <2>3. CASE k = 1
    BY <2>2, <2>3, <1>1
  <2>4. CASE k # 1
    <3>1. k - 1 \in 1..m /\ t[k] = s[k - 1]
      BY <2>4, <1>4
    <3> QED BY <2>2, <3>1, <1>2
  <2> QED BY <2>3, <2>4
<1>6. Entries(p) \cup {Entry(f)} \subseteq Entries(p)'
  <2>1. ASSUME NEW k \in 1..m PROVE s[k] \in Entries(p)'
    <3>1. k + 1 \in 1..m + 1
      OBVIOUS
    <3> QED BY <3>1, <1>1, <1>3
  <2>2. 1 \in 1..m + 1
    OBVIOUS
  <2>3. Entry(f) \in Entries(p)'
    BY <2>2, <1>1, <1>3
  <2>4. Entries(p) \subseteq Entries(p)'
    BY <2>1, <1>2
  <2> QED BY <2>3, <2>4
<1>7. \A q \in Files : q # p => Entries(q)' = Entries(q)
  BY <1>1 DEF Entries
<1>8. OneEntry'
  <2>0. Entry(f).file = f
    BY DEF Entry
  <2>1. ASSUME NEW j \in 1..m + 1, NEW k \in 1..m + 1, t[j].file = t[k].file PROVE j = k
    <3>0. t[1].file = f /\ \A l \in 1..m + 1 : l # 1 => t[l].file # f
      <4>1. t[1].file = f
        BY <2>0, <1>1
      <4>2. ASSUME NEW l \in 1..m + 1, l # 1 PROVE t[l].file # f
        <5>1. l - 1 \in 1..m /\ t[l] = s[l - 1]
          BY <4>2, <1>4
        <5>2. s[l - 1].file # f
          BY <5>1, <1>2
        <5> QED BY <5>1, <5>2
      <4> QED BY <4>1, <4>2
    <3>1. CASE j = 1 \/ k = 1
      BY <3>0, <3>1, <2>1
    <3>2. CASE j # 1 /\ k # 1
      <4>1. j - 1 = k - 1
        BY <3>2, <2>1, <1>4, <1>o
      <4> QED BY <4>1
    <3> QED BY <3>1, <3>2
  <2>2. \A q \in Files : q # p =>
          \A j, k \in 1..Len(lru'[q]) : lru'[q][j].file = lru'[q][k].file => j = k
    BY <1>1 DEF OneEntry
  <2>3. \A j, k \in 1..Len(lru'[p]) : lru'[p][j].file = lru'[p][k].file => j = k
    BY <1>1, <1>s, <2>1
  <2> QED BY <2>2, <2>3 DEF OneEntry
<1> QED BY <1>5, <1>6, <1>7, <1>8

\* ... and so the caches that hold a file.
LEMMA ParentsAfter ==
  ASSUME EfcTypeOK, OneEntry, NEW p \in Files, NEW f \in Files,
         \/ insert(p, f) /\ ~Cached(p, f)
         \/ \E i \in 1..Len(lru[p]) : f = lru[p][i].file /\ remove_ent(p, f)
  PROVE  /\ \A g \in Files : g # f => Parents(g)' = Parents(g)
         /\ insert(p, f) /\ ~Cached(p, f) =>
              Cardinality(Parents(f)') = Cardinality(Parents(f)) + 1
         /\ (\E i \in 1..Len(lru[p]) : f = lru[p][i].file /\ remove_ent(p, f)) =>
              Cardinality(Parents(f)') = Cardinality(Parents(f)) - 1
<1>0. IsFiniteSet(Parents(f)) /\ Cardinality(Parents(f)) \in Nat
  BY CountsFacts
<1>1. ASSUME insert(p, f), ~Cached(p, f)
      PROVE  /\ \A g \in Files : g # f => Parents(g)' = Parents(g)
             /\ Cardinality(Parents(f)') = Cardinality(Parents(f)) + 1
  <2>1. /\ \A q \in Files : q # p => Entries(q)' = Entries(q)
        /\ Entries(p)' = Entries(p) \cup {Entry(f)} /\ Entry(f).file = f
    BY <1>1, InsertEntries DEF Entry
  <2>2. \A g \in Files : g # f => Parents(g)' = Parents(g)
    BY <2>1 DEF Parents, Cached
  <2>3. Parents(f)' = Parents(f) \cup {p} /\ p \notin Parents(f)
    BY <1>1, <2>1 DEF Parents, Cached
  <2> QED BY <2>2, <2>3, <1>0, FS_AddElement
<1>2. ASSUME NEW i \in 1..Len(lru[p]), f = lru[p][i].file, remove_ent(p, f)
      PROVE  /\ \A g \in Files : g # f => Parents(g)' = Parents(g)
             /\ Cardinality(Parents(f)') = Cardinality(Parents(f)) - 1
  <2>1. /\ \A q \in Files : q # p => Entries(q)' = Entries(q)
        /\ Entries(p)' \subseteq Entries(p)
        /\ \A e \in Entries(p) : e = lru[p][i] \/ e \in Entries(p)'
        /\ \A e \in Entries(p)' : e.file # f
    BY <1>2, RemoveEntEntries
  <2>2. \A g \in Files : g # f => Parents(g)' = Parents(g)
    BY <1>2, <2>1 DEF Parents, Cached
  <2>3. Cached(p, f)
    BY <1>2, EntriesFacts
  <2>4. Parents(f)' = Parents(f) \ {p} /\ p \in Parents(f)
    BY <2>1, <2>3 DEF Parents, Cached
  <2> QED BY <2>2, <2>4, <1>0, FS_RemoveElement
<1>3. CASE insert(p, f) /\ ~Cached(p, f)
  <2>1. ~\E i \in 1..Len(lru[p]) : f = lru[p][i].file /\ remove_ent(p, f)
    BY <1>3, EntriesFacts
  <2> QED BY <1>1, <1>3, <2>1
<1>4. CASE \E i \in 1..Len(lru[p]) : f = lru[p][i].file /\ remove_ent(p, f)
  <2>1. Cached(p, f)
    BY <1>4, EntriesFacts
  <2> QED BY <1>2, <1>4, <2>1
<1> QED BY <1>3, <1>4
-----------------------------------------------------------------------------
\* The calls that close a top of a file, when the stack moves.
LEMMA TopsAfter ==
  ASSUME EfcTypeOK, Moves(StackStep), NEW f \in Files
  PROVE  /\ Popped =>
              IF Top.fn \in Closing /\ Top.file = f
              THEN /\ Cardinality(TopsClosing(f)') = Cardinality(TopsClosing(f)) - 1
                   /\ Cardinality(TopsClosing(f)) \in Nat \ {0}
              ELSE TopsClosing(f)' = TopsClosing(f)
         /\ \A frame \in FrameRecord : Stays(frame) => TopsClosing(f)' = TopsClosing(f)
         /\ \A callee, frame \in FrameRecord : Nests(callee, frame) =>
              IF callee.fn \in Closing /\ callee.file = f
              THEN Cardinality(TopsClosing(f)') = Cardinality(TopsClosing(f)) + 1
              ELSE TopsClosing(f)' = TopsClosing(f)
<1>n. PICK n \in Nat \ {0} : n = Len(calls)
  BY DEF Moves
<1>0. Top = calls[n] /\ IsFiniteSet(TopsClosing(f)) /\ Cardinality(TopsClosing(f)) \in Nat
  BY <1>n, CountsFacts DEF Top
<1>1. \A i : i \in TopsClosing(f) <=> i \in 1..n /\ calls[i].fn \in Closing /\ calls[i].file = f
  BY <1>n DEF TopsClosing
<1>2. \A i : i \in TopsClosing(f)' <=>
               i \in 1..Len(calls') /\ calls'[i].fn \in Closing /\ calls'[i].file = f
  BY DEF TopsClosing
<1>3. ASSUME Popped
      PROVE  IF Top.fn \in Closing /\ Top.file = f
             THEN /\ Cardinality(TopsClosing(f)') = Cardinality(TopsClosing(f)) - 1
                  /\ Cardinality(TopsClosing(f)) \in Nat \ {0}
             ELSE TopsClosing(f)' = TopsClosing(f)
  <2>1. Len(calls') = n - 1 /\ \A i \in 1..n - 1 : calls'[i] = calls[i]
    BY <1>3, <1>n DEF Popped
  <2>2. TopsClosing(f)' = TopsClosing(f) \ {n}
    BY <2>1, <1>1, <1>2
  <2>3. CASE Top.fn \in Closing /\ Top.file = f
    <3>1. n \in TopsClosing(f)
      BY <2>3, <1>0, <1>1
    <3>2. Cardinality(TopsClosing(f)) # 0
      BY <3>1, <1>0, FS_EmptySet
    <3> QED BY <2>2, <2>3, <3>1, <3>2, <1>0, FS_RemoveElement
  <2>4. CASE ~(Top.fn \in Closing /\ Top.file = f)
    <3>1. n \notin TopsClosing(f)
      BY <2>4, <1>0, <1>1
    <3> QED BY <2>2, <2>4, <3>1
  <2> QED BY <2>3, <2>4
<1>4. ASSUME NEW frame \in FrameRecord, Stays(frame)
      PROVE  TopsClosing(f)' = TopsClosing(f)
  <2>1. Len(calls') = n /\ (\A i \in 1..n - 1 : calls'[i] = calls[i]) /\ calls'[n] = frame
        /\ SameKind(frame)
    BY <1>4, <1>n DEF Stays, Replaced
  <2>2. frame.file = Top.file /\ (frame.fn \in Closing <=> Top.fn \in Closing)
    BY <2>1 DEF SameKind
  <2>3. \A i \in 1..n : i \in 1..n - 1 \/ i = n
    OBVIOUS
  <2>4. \A i \in 1..n : /\ calls'[i].file = calls[i].file
                        /\ calls'[i].fn \in Closing <=> calls[i].fn \in Closing
    BY <2>1, <2>2, <2>3, <1>0
  <2> QED BY <2>1, <2>4, <1>1, <1>2
<1>5. ASSUME NEW callee \in FrameRecord, NEW frame \in FrameRecord, Nests(callee, frame)
      PROVE  IF callee.fn \in Closing /\ callee.file = f
             THEN Cardinality(TopsClosing(f)') = Cardinality(TopsClosing(f)) + 1
             ELSE TopsClosing(f)' = TopsClosing(f)
  <2>1. Len(calls') = n + 1 /\ (\A i \in 1..n - 1 : calls'[i] = calls[i]) /\ calls'[n] = frame
        /\ calls'[n + 1] = callee /\ SameKind(frame)
    BY <1>5, <1>n DEF Nests, Pushed
  <2>2. frame.file = Top.file /\ (frame.fn \in Closing <=> Top.fn \in Closing)
    BY <2>1 DEF SameKind
  <2>3. \A i \in 1..n + 1 : i \in 1..n - 1 \/ i = n \/ i = n + 1
    OBVIOUS
  <2>4. \A i \in 1..n : /\ calls'[i].file = calls[i].file
                        /\ calls'[i].fn \in Closing <=> calls[i].fn \in Closing
    BY <2>1, <2>2, <2>3, <1>0
  <2>5. TopsClosing(f) \subseteq 1..n /\ n + 1 \notin 1..n
    BY <1>1
  <2>6. \A i \in 1..n : i \in TopsClosing(f)' <=> i \in TopsClosing(f)
    BY <2>1, <2>4, <1>1, <1>2
  <2>7. TopsClosing(f)' \subseteq 1..n + 1
    BY <2>1, <1>2
  <2>8. n + 1 \in TopsClosing(f)' <=> callee.fn \in Closing /\ callee.file = f
    BY <2>1, <1>2
  <2>9. 1..n + 1 = (1..n) \cup {n + 1}
    OBVIOUS
  <2>10. CASE callee.fn \in Closing /\ callee.file = f
    <3>1. TopsClosing(f)' = TopsClosing(f) \cup {n + 1} /\ n + 1 \notin TopsClosing(f)
      BY <2>5, <2>6, <2>7, <2>8, <2>9, <2>10
    <3> QED BY <3>1, <2>10, <1>0, FS_AddElement
  <2>11. CASE ~(callee.fn \in Closing /\ callee.file = f)
    <3>1. TopsClosing(f)' = TopsClosing(f)
      BY <2>5, <2>6, <2>7, <2>8, <2>9, <2>11
    <3> QED BY <3>1, <2>11
  <2> QED BY <2>10, <2>11
<1> QED BY <1>3, <1>4, <1>5

\* The counts of a file, and what they count.
Agrees(f) ==
  /\ shared_nrefs[f] = user[f] + loose[f] + orphaned[f]
                       + Cardinality(Parents(f)) + Cardinality(TopsClosing(f))
  /\ HasEFC(f) => efc_nrefs[f] = Cardinality(Parents(f))
  /\ shared_nrefs[f] = 0 => lru[f] = <<>>

\* A step that changes no count closes no top and begins to close none.
LEMMA QuietSteps ==
  ASSUME EfcTypeOK, Step, ~try_close_objects, ~dest_top, ~dest_shared, ~release_entry,
         NEW f \in Files
  PROVE  TopsClosing(f)' = TopsClosing(f)
<1>1. Moves(StackStep)
  BY StepMoves
<1>2. CASE Popped
  <2>1. tag1_return \/ tag2_return \/ release_return \/ efc_open_evicted
    <3>1. ~try_close_top /\ ~try_close_reentered /\ ~try_close_root /\ ~try_close_cleanup
      BY <1>2, ClosingMoves DEF Moves, Popped, Replaced, Pushed
    <3>2. ~tag1_entry /\ ~pass1_keep /\ ~pass1_mark /\ ~tag2_entry
      BY <1>2, PassMoves DEF Moves, Popped, Replaced, Pushed
    <3>5. ~pass2_file
      <4> SUFFICES ASSUME pass2_file PROVE FALSE
        OBVIOUS
      <4>1. /\ Len(calls) \in Nat \ {0}
            /\ \E g \in Top.files :
                 Pushed(Over("tag2", g, lru[g]), [Top EXCEPT !.files = @ \ {g}])
        BY PassMoves DEF Moves
      <4>2. Len(calls') = Len(calls) + 1
        BY <4>1 DEF Pushed
      <4> QED BY <1>2, <4>1, <4>2 DEF Popped
    <3>3. ~pass2_done
      <4>1. pass2_done => ~Popped
        BY PassMoves DEF Moves, Popped, Replaced, Pushed
      <4> QED BY <4>1, <1>2
    <3>4. ~release_skip /\ ~dest_efc
      BY <1>2, OtherMoves DEF Moves, Popped, Replaced, Pushed
    <3> QED BY <3>1, <3>2, <3>3, <3>4, <3>5
        DEF Step, TryClose, Pass1, Pass2, ReleaseStep, Dest
  <2>2. Top.fn \notin Closing
    BY <2>1 DEF tag1_return, tag2_return, release_return, efc_open_evicted, Running, Closing
  <2> QED BY <1>1, <1>2, <2>2, TopsAfter
<1>3. ASSUME NEW frame \in FrameRecord, Stays(frame) PROVE TopsClosing(f)' = TopsClosing(f)
  BY <1>1, <1>3, TopsAfter
<1>4. ASSUME NEW callee \in FrameRecord, NEW frame \in FrameRecord, Nests(callee, frame)
      PROVE  TopsClosing(f)' = TopsClosing(f)
  <2>1. callee.fn \notin Closing
    <3> SUFFICES ASSUME callee.fn \in Closing PROVE FALSE
      OBVIOUS
    <3>1. frame.fn = "efc_release_real" /\ SameKind(frame) /\ Pushed(callee, frame)
      BY <1>4 DEF Nests, MayCall, Closing
    <3>2. Top.fn = "efc_release_real"
      BY <3>1 DEF SameKind, Closing
    <3>3. Popped \/ Replaced(Later)
      BY <3>2, ReleaseSteps
    <3>4. Len(calls) \in Nat
      BY <1>1 DEF Moves
    <3> QED BY <3>1, <3>3, <3>4 DEF Pushed, Popped, Replaced
  <2> QED BY <1>1, <1>4, <2>1, TopsAfter
<1> QED BY <1>1, <1>2, <1>3, <1>4 DEF Moves, StackStep
-----------------------------------------------------------------------------
\* A file that somebody keeps open is open.
LEMMA HeldOpen ==
  ASSUME EfcTypeOK, CountsAgree, NEW p \in Files, Held(p)
  PROVE  shared_nrefs[p] > 0
<1>1. /\ user[p] \in Nat /\ loose[p] \in Nat /\ orphaned[p] \in Nat
      /\ Cardinality(Parents(p)) \in Nat /\ Cardinality(TopsClosing(p)) \in Nat
  BY CountsFacts DEF EfcTypeOK
<1>2. \/ user[p] > 0 \/ loose[p] > 0 \/ orphaned[p] > 0 \/ Cardinality(Parents(p)) > 0
  <2>1. ASSUME NEW q \in Files, NEW e \in Entries(q), e.file = p
        PROVE  Cardinality(Parents(p)) > 0
    <3>1. Cached(q, p)
      BY <2>1 DEF Cached
    <3> QED BY <3>1, CachedCounts
  <2> QED BY <2>1 DEF Held
<1>3. shared_nrefs[p] = user[p] + loose[p] + orphaned[p]
                        + Cardinality(Parents(p)) + Cardinality(TopsClosing(p))
  BY DEF CountsAgree
<1> QED BY <1>1, <1>2, <1>3

\* The one reference of a file is the top that is being closed.
LEMMA LastReference ==
  ASSUME EfcTypeOK, CountsAgree, NEW f \in Files, shared_nrefs[f] <= 1,
         NEW i \in TopsClosing(f)
  PROVE  /\ shared_nrefs[f] = 1 /\ user[f] = 0 /\ loose[f] = 0 /\ orphaned[f] = 0
         /\ Cardinality(Parents(f)) = 0 /\ Cardinality(TopsClosing(f)) = 1
         /\ TopsClosing(f) = {i}
<1>1. /\ user[f] \in Nat /\ loose[f] \in Nat /\ orphaned[f] \in Nat
      /\ Cardinality(Parents(f)) \in Nat /\ Cardinality(TopsClosing(f)) \in Nat
      /\ IsFiniteSet(TopsClosing(f))
  BY CountsFacts DEF EfcTypeOK
<1>2. Cardinality(TopsClosing(f)) >= 1
  BY <1>1, FS_EmptySet
<1>3. PICK u, l, o, P, T \in Nat : /\ u = user[f] /\ l = loose[f] /\ o = orphaned[f]
                                  /\ P = Cardinality(Parents(f))
                                  /\ T = Cardinality(TopsClosing(f))
  BY <1>1
<1>4. shared_nrefs[f] = u + l + o + P + T /\ T >= 1
  BY <1>2, <1>3 DEF CountsAgree
<1>5. u + l + o + P + T <= 1
  BY <1>4
<1>6. u = 0 /\ l = 0 /\ o = 0 /\ P = 0 /\ T = 1 /\ u + l + o + P + T = 1
  BY <1>4, <1>5
<1>7. TopsClosing(f) = {i}
  <2>1. PICK x : TopsClosing(f) = {x}
    BY <1>1, <1>3, <1>6, FS_Singleton
  <2> QED BY <2>1
<1> QED BY <1>3, <1>4, <1>6, <1>7

\* The counters agree with the references at every step of a call.
LEMMA CountsKept ==
  ASSUME EfcInv, Step PROVE CountsAgree'
<1>0. EfcTypeOK /\ CountsAgree /\ OneEntry /\ Callers /\ LastTop /\ EvictorHeld /\ ReleaseWalksList
  BY DEF EfcInv
<1>1. Moves(StackStep) /\ ~Idle /\ Len(calls) \in Nat \ {0} /\ Top.file \in Files
      /\ Top.files \subseteq Files
  BY <1>0, StepMoves DEF Moves, FrameRecord
<1>2. ASSUME NEW f \in Files
      PROVE  /\ Agrees(f)
             /\ user[f] \in Nat /\ loose[f] \in Nat /\ orphaned[f] \in Nat
             /\ shared_nrefs[f] \in Nat /\ efc_nrefs[f] \in Nat
             /\ Cardinality(Parents(f)) \in Nat /\ Cardinality(TopsClosing(f)) \in Nat
  BY <1>0, CountsFacts DEF Agrees, CountsAgree, EfcTypeOK
<1>3. SUFFICES ASSUME NEW f \in Files PROVE Agrees(f)'
  BY DEF Agrees, CountsAgree
<1>v. PICK u, l, o, P, T \in Nat : /\ u = user[f] /\ l = loose[f] /\ o = orphaned[f]
                                  /\ P = Cardinality(Parents(f))
                                  /\ T = Cardinality(TopsClosing(f))
                                  /\ shared_nrefs[f] = u + l + o + P + T
  BY <1>2 DEF Agrees
<1>4. lru' = lru => Parents(f)' = Parents(f)
  BY DEF Parents, Cached, Entries
<1>5. CASE UNCHANGED_COUNTS /\ ~release_entry /\ ~try_close_objects /\ ~dest_top /\ ~dest_shared
  <2>1. TopsClosing(f)' = TopsClosing(f)
    BY <1>0, <1>5, QuietSteps
  <2>2. Parents(f)' = Parents(f)
    BY <1>4, <1>5 DEF UNCHANGED_COUNTS
  <2> QED BY <1>2, <1>5, <2>1, <2>2 DEF UNCHANGED_COUNTS, TOPS, Agrees
<1>6. CASE try_close_objects
  <2>1. Popped /\ Top.fn \in Closing
    BY <1>0, <1>6, ClosingMoves DEF Moves, try_close_objects, Running, Closing
  <2>2. IF Top.file = f
        THEN /\ Cardinality(TopsClosing(f)') = Cardinality(TopsClosing(f)) - 1
        ELSE TopsClosing(f)' = TopsClosing(f)
    BY <1>0, <1>1, <2>1, TopsAfter
  <2>3. /\ \/ loose' = [loose EXCEPT ![Top.file] = loose[Top.file] + 1] /\ orphaned' = orphaned
           \/ loose' = loose /\ orphaned' = [orphaned EXCEPT ![Top.file] = orphaned[Top.file] + 1]
        /\ UNCHANGED <<shared_nrefs, efc_nrefs, lru, user>>
    BY <1>6 DEF try_close_objects
  <2>4. loose \in [Files -> Nat] /\ orphaned \in [Files -> Nat]
    BY <1>0 DEF EfcTypeOK
  <2>5. \/ Top.file = f /\ loose'[f] = l + 1 /\ orphaned'[f] = o
        \/ Top.file = f /\ loose'[f] = l /\ orphaned'[f] = o + 1
        \/ Top.file # f /\ loose'[f] = l /\ orphaned'[f] = o
    BY <1>1, <1>v, <2>3, <2>4
  <2>6. \/ Top.file = f /\ Cardinality(TopsClosing(f)') = T - 1
        \/ Top.file # f /\ Cardinality(TopsClosing(f)') = T
    BY <1>v, <2>2
  <2>7. /\ shared_nrefs'[f] = shared_nrefs[f] /\ efc_nrefs'[f] = efc_nrefs[f]
        /\ lru'[f] = lru[f] /\ user'[f] = user[f] /\ Parents(f)' = Parents(f)
    BY <2>3, <1>4
  <2>8. user'[f] + loose'[f] + orphaned'[f] + Cardinality(Parents(f)') + Cardinality(TopsClosing(f)')
          = u + l + o + P + T
    <3>1. user'[f] = u /\ Cardinality(Parents(f)') = P
      BY <1>v, <2>7
    <3>2. /\ u + (l + 1) + o + P + (T - 1) = u + l + o + P + T
          /\ u + l + (o + 1) + P + (T - 1) = u + l + o + P + T
      OBVIOUS
    <3> QED BY <3>1, <3>2, <2>5, <2>6
  <2> QED BY <1>2, <1>v, <2>7, <2>8 DEF Agrees
<1>7. CASE dest_top
  <2>1. Popped /\ Top.fn \in Closing
    BY <1>0, <1>7, OtherMoves DEF Moves, dest_top, Running, Closing
  <2>2. IF Top.file = f
        THEN /\ Cardinality(TopsClosing(f)') = Cardinality(TopsClosing(f)) - 1
        ELSE TopsClosing(f)' = TopsClosing(f)
    BY <1>0, <1>1, <2>1, TopsAfter
  <2>3. /\ shared_nrefs' = [shared_nrefs EXCEPT ![Top.file] = shared_nrefs[Top.file] - 1]
        /\ shared_nrefs[Top.file] > 1
        /\ UNCHANGED <<efc_nrefs, lru, TOPS>>
    BY <1>7 DEF dest_top
  <2>4. shared_nrefs \in [Files -> Nat]
    BY <1>0 DEF EfcTypeOK
  <2>5. shared_nrefs'[f] = IF Top.file = f THEN shared_nrefs[f] - 1 ELSE shared_nrefs[f]
    BY <1>1, <2>3, <2>4
  <2>6. /\ user'[f] = user[f] /\ loose'[f] = loose[f] /\ orphaned'[f] = orphaned[f]
        /\ efc_nrefs'[f] = efc_nrefs[f] /\ lru'[f] = lru[f] /\ Parents(f)' = Parents(f)
    BY <2>3, <1>4 DEF TOPS
  <2>7. shared_nrefs'[f] = user[f] + loose[f] + orphaned[f]
                             + Cardinality(Parents(f)) + Cardinality(TopsClosing(f)')
    <3>1. \/ Top.file = f /\ Cardinality(TopsClosing(f)') = T - 1
          \/ Top.file # f /\ Cardinality(TopsClosing(f)') = T
      BY <1>v, <2>2
    <3>2. (u + l + o + P + T) - 1 = u + l + o + P + (T - 1)
      OBVIOUS
    <3> QED BY <3>1, <3>2, <1>v, <2>5
  <2>8. shared_nrefs'[f] = 0 => shared_nrefs[f] = 0
    BY <1>2, <2>3, <2>5
  <2> QED BY <1>2, <2>6, <2>7, <2>8 DEF Agrees
<1>8. CASE dest_shared
  <2>1. Popped /\ Top.fn \in Closing /\ shared_nrefs[Top.file] <= 1 /\ lru[Top.file] = <<>>
    <3>1. Popped
      BY <1>0, <1>8, OtherMoves DEF Moves
    <3>2. \/ Top.fn = "H5F__dest" /\ shared_nrefs[Top.file] <= 1 /\ lru[Top.file] = <<>>
          \/ Top.fn = "efc_destroy"
      BY <1>8 DEF dest_shared, Running
    <3>3. Top.fn = "efc_destroy" => shared_nrefs[Top.file] = 1 /\ lru[Top.file] = <<>>
      BY <1>0, <1>1 DEF LastTop, Top
    <3> QED BY <3>1, <3>2, <3>3 DEF Closing
  <2>2. /\ Top.file = f => /\ user[f] = 0 /\ loose[f] = 0 /\ orphaned[f] = 0
                           /\ Cardinality(Parents(f)) = 0 /\ Cardinality(TopsClosing(f)) = 1
    <3>1. Len(calls) \in TopsClosing(Top.file)
      BY <1>1, <2>1 DEF TopsClosing, Top
    <3> QED BY <1>0, <2>1, <3>1, LastReference
  <2>3. IF Top.file = f
        THEN /\ Cardinality(TopsClosing(f)') = Cardinality(TopsClosing(f)) - 1
        ELSE TopsClosing(f)' = TopsClosing(f)
    BY <1>0, <1>1, <2>1, TopsAfter
  <2>4. shared_nrefs' = [shared_nrefs EXCEPT ![Top.file] = 0] /\ UNCHANGED <<efc_nrefs, lru, TOPS>>
        /\ shared_nrefs \in [Files -> Nat]
    BY <1>0, <1>8 DEF dest_shared, EfcTypeOK
  <2>5. /\ user'[f] = user[f] /\ loose'[f] = loose[f] /\ orphaned'[f] = orphaned[f]
        /\ efc_nrefs'[f] = efc_nrefs[f] /\ lru'[f] = lru[f] /\ Parents(f)' = Parents(f)
        /\ shared_nrefs'[f] = IF Top.file = f THEN 0 ELSE shared_nrefs[f]
    BY <1>1, <2>4, <1>4 DEF TOPS
  <2>6. CASE Top.file = f
    <3>1. Cardinality(TopsClosing(f)') = 0
      BY <2>2, <2>3, <2>6
    <3> QED BY <1>2, <2>1, <2>2, <2>5, <2>6, <3>1 DEF Agrees
  <2>7. CASE Top.file # f
    BY <1>2, <2>3, <2>5, <2>7 DEF Agrees
  <2> QED BY <2>6, <2>7
<1>9. CASE release_entry
  <2>1. Top.fn = "efc_release_real" /\ Top.entries # <<>>
    BY <1>9 DEF release_entry, Running
  <2>2. PICK p \in Files : p = Top.file
    BY <1>1
  <2>3. PICK v \in 1..Len(lru[p]) : Head(Top.entries) = lru[p][v]
    BY <2>1, <2>2, <1>0, <1>1, AtEntry
  <2>4. PICK g \in Files : g = lru[p][v].file
    BY <1>0, EntriesFacts
  <2>5. remove_ent(p, g) /\ UNCHANGED <<shared_nrefs, TOPS>>
    BY <1>9, <2>2, <2>3, <2>4 DEF release_entry
  <2>6. /\ \A h \in Files : h # g => Parents(h)' = Parents(h)
        /\ Cardinality(Parents(g)') = Cardinality(Parents(g)) - 1
    BY <2>4, <2>5, <1>0, ParentsAfter
  <2>7. IF g = f THEN Cardinality(TopsClosing(f)') = Cardinality(TopsClosing(f)) + 1
                 ELSE TopsClosing(f)' = TopsClosing(f)
    <3> DEFINE callee == Frame("H5F_try_close", g, <<>>, {}, Head(Top.entries).objs)
    <3>1. Pushed(callee, Later)
      BY <1>0, <1>9, <2>3, <2>4, OtherMoves DEF Moves
    <3>2. Head(Top.entries).objs \in Nat
      BY <2>1, <1>0, <1>1, LaterFacts DEF EntryRecord
    <3>3. callee \in FrameRecord /\ callee.fn = "H5F_try_close" /\ callee.file = g
      <4>1. "H5F_try_close" \in Closing \cup Walking /\ <<>> \in Seq(EntryRecord)
        BY DEF Closing
      <4> QED BY <3>2, <4>1, FrameType DEF Frame
    <3>4. Later \in FrameRecord /\ Later.fn = "efc_release_real" /\ Later.file = Top.file
      BY <2>1, <1>0, <1>1, LaterFacts
    <3> HIDE DEF callee
    <3>5. Nests(callee, Later) /\ callee.fn \in Closing
      BY <2>1, <3>1, <3>3, <3>4 DEF Nests, SameKind, MayCall, Closing
    <3> QED BY <3>3, <3>4, <3>5, <1>0, <1>1, TopsAfter
  <2>8. /\ user'[f] = user[f] /\ loose'[f] = loose[f] /\ orphaned'[f] = orphaned[f]
        /\ shared_nrefs'[f] = shared_nrefs[f]
    BY <2>5 DEF TOPS
  <2>9. efc_nrefs'[f] = IF f = g /\ HasEFC(g) THEN efc_nrefs[f] - 1 ELSE efc_nrefs[f]
    <3>1. efc_nrefs \in [Files -> Nat]
      BY <1>0 DEF EfcTypeOK
    <3> QED BY <2>5, <3>1 DEF remove_ent
  <2>10. shared_nrefs[f] = 0 => lru'[f] = <<>>
    <3>1. f # p => lru'[f] = lru[f]
      BY <2>4, <2>5, <1>0, RemoveEntFacts
    <3>2. f = p => lru[f] # <<>>
      OBVIOUS
    <3> QED BY <3>1, <3>2, <1>2 DEF Agrees
  <2>11. user[f] + loose[f] + orphaned[f] + Cardinality(Parents(f)') + Cardinality(TopsClosing(f)')
          = u + l + o + P + T
    <3>1. \/ f = g /\ Cardinality(Parents(f)') = P - 1 /\ Cardinality(TopsClosing(f)') = T + 1
          \/ f # g /\ Cardinality(Parents(f)') = P /\ Cardinality(TopsClosing(f)') = T
      BY <1>v, <2>6, <2>7
    <3>2. u + l + o + (P - 1) + (T + 1) = u + l + o + P + T
      OBVIOUS
    <3> QED BY <3>1, <3>2, <1>v
  <2>12. HasEFC(f) => efc_nrefs'[f] = Cardinality(Parents(f)')
    <3>1. HasEFC(f) => efc_nrefs[f] = Cardinality(Parents(f))
      BY <1>2 DEF Agrees
    <3> QED BY <3>1, <2>6, <2>9
  <2> QED BY <1>v, <2>8, <2>10, <2>11, <2>12 DEF Agrees
<1>10. CASE efc_open_evicted /\ ~UNCHANGED_COUNTS
  <2>1. PICK g \in Top.files : insert(Top.file, g)
    BY <1>10 DEF efc_open_evicted
  <2>2. PICK p \in Files : p = Top.file
    BY <1>1
  <2>3. Top.fn = "efc_open" /\ g \in Files
    BY <1>1, <1>10, <2>1 DEF efc_open_evicted, Running
  <2>4. Held(p) /\ ~Cached(p, g)
    <3>1. /\ Held(p) \/ Top.fn = "H5F_try_close"
          /\ \A h \in Top.files : ~Cached(p, h)
      BY <1>0, <1>1, <2>2, <2>3 DEF EvictorHeld, Evictor, Top
    <3> QED BY <2>1, <2>3, <3>1
  <2>5. /\ \A h \in Files : h # g => Parents(h)' = Parents(h)
        /\ Cardinality(Parents(g)') = Cardinality(Parents(g)) + 1
    BY <2>1, <2>2, <2>3, <2>4, <1>0, ParentsAfter
  <2>6. TopsClosing(f)' = TopsClosing(f)
    <3>1. Popped /\ Top.fn \notin Closing
      BY <1>0, <1>10, <2>3, OtherMoves DEF Moves, Closing
    <3> QED BY <3>1, <1>0, <1>1, TopsAfter
  <2>7. /\ user'[f] = user[f] /\ loose'[f] = loose[f] /\ orphaned'[f] = orphaned[f]
    BY <2>1 DEF insert, TOPS
  <2>8. /\ efc_nrefs'[f] = IF f = g /\ HasEFC(g) THEN efc_nrefs[f] + 1 ELSE efc_nrefs[f]
        /\ shared_nrefs'[f] = IF f = g THEN shared_nrefs[f] + 1 ELSE shared_nrefs[f]
    <3>1. efc_nrefs \in [Files -> Nat] /\ shared_nrefs \in [Files -> Nat]
      BY <1>0 DEF EfcTypeOK
    <3> QED BY <2>1, <2>3, <3>1 DEF insert
  <2>9. shared_nrefs'[f] = 0 => lru'[f] = <<>>
    <3>1. f # p => lru'[f] = lru[f]
      BY <2>1, <2>2, <2>3, <1>0, InsertFacts
    <3>2. shared_nrefs[p] > 0
      BY <2>4, <1>0, HeldOpen
    <3>3. shared_nrefs'[f] = 0 => shared_nrefs[f] = 0
      BY <1>2, <2>8
    <3> QED BY <3>1, <3>2, <3>3, <1>2 DEF Agrees
  <2>10. shared_nrefs'[f] = user[f] + loose[f] + orphaned[f]
                              + Cardinality(Parents(f)') + Cardinality(TopsClosing(f))
    <3>1. shared_nrefs[f] = user[f] + loose[f] + orphaned[f]
                              + Cardinality(Parents(f)) + Cardinality(TopsClosing(f))
      BY <1>2 DEF Agrees
    <3> QED BY <3>1, <2>5, <2>8, <1>2
  <2>11. HasEFC(f) => efc_nrefs'[f] = Cardinality(Parents(f)')
    <3>1. HasEFC(f) => efc_nrefs[f] = Cardinality(Parents(f))
      BY <1>2 DEF Agrees
    <3> QED BY <3>1, <2>5, <2>8
  <2> QED BY <2>6, <2>7, <2>9, <2>10, <2>11 DEF Agrees
<1>11. TryClose => UNCHANGED_COUNTS \/ try_close_objects
  BY DEF TryClose, try_close_top, try_close_reentered, try_close_root, try_close_cleanup
<1>12. Pass1 \/ Pass2 => UNCHANGED_COUNTS
  BY DEF Pass1, Pass2, tag1_return, tag1_entry, pass1_keep, pass1_mark, tag2_return,
         tag2_entry, pass2_file, pass2_done
<1>13. ReleaseStep => UNCHANGED_COUNTS \/ release_entry
  BY DEF ReleaseStep, release_skip, release_return
<1>14. Dest => UNCHANGED_COUNTS \/ dest_top \/ dest_shared
  BY DEF Dest, dest_efc
<1>15. \/ UNCHANGED_COUNTS /\ ~release_entry /\ ~try_close_objects /\ ~dest_top /\ ~dest_shared
       \/ try_close_objects \/ dest_top \/ dest_shared \/ release_entry
       \/ efc_open_evicted /\ ~UNCHANGED_COUNTS
  BY <1>11, <1>12, <1>13, <1>14 DEF Step
<1> QED BY <1>5, <1>6, <1>7, <1>8, <1>9, <1>10, <1>15
-----------------------------------------------------------------------------
\* The file whose cache the eviction was for is open and has no such entry yet.
LEMMA EvictedFacts ==
  ASSUME EfcInv, efc_open_evicted
  PROVE  /\ Top.file \in Files /\ Top.files \subseteq Files /\ Held(Top.file)
         /\ \A f \in Top.files : ~Cached(Top.file, f)
<1>1. EfcTypeOK /\ EvictorHeld /\ ~Idle /\ Top.fn = "efc_open"
  BY DEF EfcInv, efc_open_evicted, Running
<1>2. Top \in FrameRecord /\ Len(calls) \in 1..Len(calls) /\ Top = calls[Len(calls)]
  BY <1>1, TopFacts DEF Top
<1> QED BY <1>1, <1>2 DEF EvictorHeld, Evictor, FrameRecord

\* What happens to the entries of the caches in the course of a call.
LEMMA EntriesAfter ==
  ASSUME EfcInv, Step
  PROVE  /\ OneEntry'
         /\ \/ \A q \in Files : Entries(q)' \subseteq Entries(q)
            \/ efc_open_evicted /\ Len(calls) = 1 /\ calls' = <<>>
<1>0. EfcTypeOK /\ OneEntry /\ Callers /\ ReleaseWalksList
  BY DEF EfcInv
<1>1. CASE lru' = lru
  BY <1>0, <1>1 DEF OneEntry, Entries
<1>2. CASE release_entry
  <2>1. ~Idle /\ Top.fn = "efc_release_real" /\ Top.entries # <<>>
    BY <1>2 DEF release_entry, Running
  <2>2. PICK p \in Files : p = Top.file
    BY <2>1, <1>0, AtEntry
  <2>3. PICK v \in 1..Len(lru[p]) : Head(Top.entries) = lru[p][v]
    BY <2>1, <2>2, <1>0, AtEntry
  <2>4. remove_ent(p, lru[p][v].file)
    BY <1>2, <2>2, <2>3 DEF release_entry
  <2> QED BY <2>4, <1>0, RemoveEntEntries
<1>3. CASE efc_open_evicted /\ Len(calls) = 1 /\ calls' = <<>>
  <2>1. \/ \E f \in Top.files : insert(Top.file, f)
        \/ lru' = lru
    BY <1>3 DEF efc_open_evicted, UNCHANGED_COUNTS
  <2>2. ASSUME NEW f \in Top.files, insert(Top.file, f) PROVE OneEntry'
    <3>1. Top.file \in Files /\ f \in Files /\ ~Cached(Top.file, f)
      BY <1>3, EvictedFacts
    <3> QED BY <2>2, <3>1, <1>0, InsertEntries
  <2> QED BY <1>1, <1>3, <2>1, <2>2
<1> QED BY <1>0, <1>1, <1>2, <1>3, CacheSteps

\* Clients keep the file of their cache open.
LEMMA ClientsHoldKept ==
  ASSUME EfcInv, Step PROVE ClientsHold'
<1>0. EfcTypeOK /\ ~Idle /\ ClientsHold
  BY StepMoves DEF EfcInv, Moves
<1>1. user' = user
  BY StepTypes
<1>2. CASE calls' = <<>>
  BY <1>2 DEF ClientsHold, Idle
<1>3. CASE \A q \in Files : Entries(q)' \subseteq Entries(q)
  <2>1. \A q \in Files : Opened(q)' \subseteq Opened(q)
    BY <1>3 DEF Opened
  <2>2. ParentsHeld(user)
    BY <1>0 DEF ClientsHold
  <2> QED BY <2>1, <2>2, <1>1 DEF ClientsHold, ParentsHeld
<1> QED BY <1>2, <1>3, EntriesAfter

\* The tops that keep a file open are gone only when the file's own close is at
\* the top of the stack, with objects that take their place.
LEMMA HeldKept ==
  ASSUME EfcInv, Step, NEW p \in Files, Len(calls) # 1,
         Held(p) \/ (Top.fn = "H5F_try_close" /\ Top.file = p /\ Top.objs > 0)
  PROVE  \/ Held(p)'
         \/ Top'.fn = "H5F_try_close" /\ Top'.file = p /\ Top'.objs > 0
<1>0. EfcTypeOK /\ OneEntry /\ Callers /\ ReleaseWalksList
  BY DEF EfcInv
<1>1. ~Idle /\ Top \in FrameRecord /\ Top.file \in Files /\ Top.objs \in Nat
  BY <1>0, StepMoves DEF Moves, FrameRecord
<1>2. user' = user /\ loose \in [Files -> Nat] /\ orphaned \in [Files -> Nat]
  BY <1>0, StepTypes DEF EfcTypeOK
<1>3. CASE try_close_objects
  <2>1. /\ orphaned' = [orphaned EXCEPT ![Top.file] = @ + 1] /\ loose' = loose /\ lru' = lru
    BY <1>3 DEF try_close_objects
  <2>2. CASE Top.file = p
    <3>1. orphaned'[p] > 0
      BY <1>2, <2>1, <2>2
    <3> QED BY <3>1 DEF Held
  <2>3. CASE Top.file # p
    <3>1. orphaned'[p] = orphaned[p]
      BY <1>2, <2>1, <2>3
    <3>2. \A q \in Files : Entries(q)' = Entries(q)
      BY <2>1 DEF Entries
    <3>3. Held(p)
      BY <2>3
    <3> QED BY <3>1, <3>2, <3>3, <2>1, <1>2 DEF Held
  <2> QED BY <2>2, <2>3
<1>4. ASSUME ~try_close_objects PROVE Held(p)
  <2>1. Top.fn = "H5F_try_close" /\ Top.objs > 0 => FALSE
    <3> SUFFICES ASSUME Top.fn = "H5F_try_close", Top.objs > 0 PROVE FALSE
      OBVIOUS
    <3>1. ~TryClose
      BY <1>4, <1>1 DEF TryClose, try_close_top, try_close_reentered, try_close_root,
           try_close_cleanup, Running
    <3>2. ~Pass1 /\ ~Pass2
      BY DEF Pass1, Pass2, tag1_return, tag1_entry, pass1_keep, pass1_mark, tag2_return,
             tag2_entry, pass2_file, pass2_done, Running
    <3>3. ~ReleaseStep /\ ~Dest /\ ~efc_open_evicted
      BY DEF ReleaseStep, release_entry, release_skip, release_return, Dest, dest_top, dest_efc,
             dest_shared, efc_open_evicted, Running
    <3> QED BY <3>1, <3>2, <3>3 DEF Step
  <2> QED BY <2>1
<1>5. ASSUME ~try_close_objects, ~efc_open_evicted PROVE loose' = loose /\ orphaned' = orphaned
  BY <1>5 DEF Step, TryClose, try_close_top, try_close_reentered, try_close_root,
     try_close_cleanup, Pass1, Pass2, tag1_return, tag1_entry, pass1_keep, pass1_mark,
     tag2_return, tag2_entry, pass2_file, pass2_done, ReleaseStep, release_entry, release_skip,
     release_return, Dest, dest_top, dest_efc, dest_shared, UNCHANGED_COUNTS, TOPS
<1>6. CASE ~try_close_objects /\ lru' = lru /\ ~efc_open_evicted
  <2>1. \A q \in Files : Entries(q)' = Entries(q)
    BY <1>6 DEF Entries
  <2> QED BY <1>2, <1>4, <1>5, <1>6, <2>1 DEF Held
<1>7. CASE release_entry
  <2>0. ~try_close_objects /\ ~efc_open_evicted
    BY <1>7 DEF release_entry, try_close_objects, efc_open_evicted, Running
  <2>1. /\ Top.fn = "efc_release_real" /\ Top.entries # <<>> /\ Head(Top.entries).nopen = 0
    BY <1>7 DEF release_entry, Running
  <2>2. PICK q \in Files : q = Top.file
    BY <1>1
  <2>3. PICK v \in 1..Len(lru[q]) : Head(Top.entries) = lru[q][v]
    BY <2>1, <2>2, <1>0, <1>1, AtEntry
  <2>4. PICK ent \in EntryRecord : ent = lru[q][v] /\ ent.nopen = 0
    BY <2>1, <2>3, <1>0, EntriesFacts
  <2>5. /\ \A r \in Files : r # q => Entries(r)' = Entries(r)
        /\ \A e \in Entries(q) : e = ent \/ e \in Entries(q)'
    <3>1. remove_ent(q, lru[q][v].file)
      BY <1>7, <2>2, <2>3 DEF release_entry
    <3> QED BY <3>1, <2>4, <1>0, RemoveEntEntries
  <2>6. \/ \E r \in Files : \E e \in Entries(r)' : e.file = p /\ (e.nopen > 0 \/ e.objs > 0)
        \/ user'[p] > 0 \/ loose'[p] > 0 \/ orphaned'[p] > 0
        \/ ent.file = p /\ ent.objs > 0
    <3>1. Held(p) /\ loose' = loose /\ orphaned' = orphaned
      BY <2>0, <1>4, <1>5
    <3>2. ASSUME NEW r \in Files, NEW e \in Entries(r), e.file = p, e.nopen > 0 \/ e.objs > 0
          PROVE  \/ e \in Entries(r)'
                 \/ ent.file = p /\ ent.objs > 0
      BY <3>2, <2>4, <2>5
    <3> QED BY <3>1, <3>2, <1>2 DEF Held
  <2>7. CASE ent.file = p /\ ent.objs > 0
    <3> DEFINE callee == Frame("H5F_try_close", ent.file, <<>>, {}, ent.objs)
    <3>1. Moves(Pushed(callee, Later))
      BY <1>0, <1>7, <2>3, <2>4, OtherMoves
    <3>2. callee.fn = "H5F_try_close" /\ callee.file = p /\ callee.objs > 0
      BY <2>7 DEF Frame
    <3> HIDE DEF callee
    <3>3. Top' = callee
      <4>1. Len(calls') = Len(calls) + 1 /\ calls'[Len(calls) + 1] = callee
        BY <3>1 DEF Moves, Pushed
      <4> QED BY <4>1 DEF Top
    <3> QED BY <3>2, <3>3
  <2> QED BY <2>6, <2>7 DEF Held
<1>8. ~efc_open_evicted
  <2> SUFFICES ASSUME efc_open_evicted PROVE FALSE
    OBVIOUS
  <2>1. Top.fn = "efc_open" /\ Len(calls) \in Nat \ {0} /\ Top = calls[Len(calls)]
    BY <1>0, <1>1, TopFacts DEF efc_open_evicted, Running, Top
  <2>2. Caller(Len(calls))
    BY <1>0, <2>1 DEF Callers
  <2> QED BY <2>1, <2>2 DEF Caller
<1> QED BY <1>0, <1>3, <1>6, <1>7, <1>8, CacheSteps

\* The cache that is about to get an entry keeps its file.
LEMMA EvictorHeldKept ==
  ASSUME EfcInv, Step PROVE EvictorHeld'
<1>0. EfcTypeOK /\ Callers /\ EvictorHeld
  BY DEF EfcInv
<1>n. PICK n \in Nat \ {0} : n = Len(calls)
  BY <1>0, StepMoves DEF Moves
<1>1. SUFFICES ASSUME NEW i \in 1..Len(calls'), calls'[i].fn = "efc_open"
               PROVE  Evictor(i)'
  BY DEF EvictorHeld
<1>m. Len(calls') \in Nat
  BY <1>0, StepMoves DEF Moves
<1>2. i < n
  <2> SUFFICES ASSUME ~(i < n) PROVE FALSE
    OBVIOUS
  <2>1. i \in n..Len(calls')
    BY <1>m
  <2> QED BY <2>1, <1>0, <1>n, <1>1, FrameFrom
<1>3. calls'[i] = calls[i] /\ i \in 1..Len(calls)
  BY <1>2, <1>n, <1>0, FramesBelow
<1>4. i = 1 /\ Len(calls) # 1
  BY <1>1, <1>2, <1>3, <1>0, <1>n DEF Callers, Caller
<1>5. PICK p \in Files : p = calls[i].file
  BY <1>3, <1>0, FramesTyped
<1>6. /\ Held(p) \/ (Top.fn = "H5F_try_close" /\ Top.file = p /\ Top.objs > 0)
      /\ \A f \in calls[i].files : ~Cached(p, f)
  BY <1>0, <1>1, <1>3, <1>5 DEF EvictorHeld, Evictor
<1>7. Held(p)' \/ (Top'.fn = "H5F_try_close" /\ Top'.file = p /\ Top'.objs > 0)
  BY <1>4, <1>6, HeldKept
<1>8. Entries(p)' \subseteq Entries(p)
  BY <1>4, EntriesAfter
<1>9. \A f \in calls[i].files : ~Cached(p, f)'
  BY <1>6, <1>8 DEF Cached
<1> QED BY <1>3, <1>5, <1>7, <1>9 DEF Evictor, Held, Cached

\* The file that is destroyed keeps its last top until then, and its cache has
\* no clients, so that its release empties it.
LEMMA LastTopKept ==
  ASSUME EfcInv, Step PROVE LastTop'
<1>0. /\ EfcTypeOK /\ CountsAgree /\ Callers /\ LastTop /\ ReleaseWalksList /\ PassedByOpen
      /\ ClientsHold
  BY DEF EfcInv
<1>n. PICK n \in Nat \ {0} : n = Len(calls)
  BY <1>0, StepMoves DEF Moves
<1>m. PICK m \in Nat : m = Len(calls')
  BY <1>0, StepMoves DEF Moves
<1>t. Moves(StackStep) /\ ~Idle /\ Top = calls[n] /\ Top.file \in Files
  BY <1>0, <1>n, StepMoves DEF Moves, Top, FrameRecord
<1>1. SUFFICES ASSUME NEW i \in 1..m, calls'[i].fn = "efc_destroy"
               PROVE  /\ shared_nrefs'[calls'[i].file] = 1
                      /\ i = m => lru'[calls'[i].file] = <<>>
  BY <1>m DEF LastTop
<1>2. CASE i < n
  <2>1. calls'[i] = calls[i] /\ i \in 1..n
    BY <1>2, <1>n, <1>m, <1>0, FramesBelow
  <2>p. PICK p \in Files : p = calls[i].file
    BY <2>1, <1>n, <1>0, FramesTyped
  <2>2. shared_nrefs[p] = 1 /\ i \in TopsClosing(p)
    BY <1>0, <1>1, <1>n, <2>1, <2>p DEF LastTop, TopsClosing, Closing
  <2>3. user[p] = 0 /\ TopsClosing(p) = {i}
    BY <1>0, <2>2, LastReference
  <2>4. \A j \in 1..n : calls[j].fn \in Closing /\ calls[j].file = p => j = i
    BY <2>3, <1>n DEF TopsClosing
  <2>5. ~(Top.fn \in Closing /\ Top.file = p)
    BY <2>4, <1>2, <1>t
  <2>6. n > 1 /\ ~efc_open_evicted
    <3> SUFFICES ASSUME efc_open_evicted PROVE FALSE
      BY <1>2, <1>n
    <3>1. Caller(n) /\ Top.fn = "efc_open"
      BY <1>0, <1>n DEF efc_open_evicted, Running, Callers
    <3> QED BY <3>1, <1>2, <1>t DEF Caller
  <2>7. shared_nrefs'[p] = 1
    <3>1. CASE dest_top \/ dest_shared
      <4>1. Top.fn \in Closing
        BY <3>1 DEF dest_top, dest_shared, Running, Closing
      <4>2. Top.file # p
        BY <4>1, <2>5
      <4>3. \E v : shared_nrefs' = [shared_nrefs EXCEPT ![Top.file] = v]
        BY <3>1 DEF dest_top, dest_shared
      <4>4. shared_nrefs \in [Files -> Nat]
        BY <1>0 DEF EfcTypeOK
      <4> QED BY <4>2, <4>3, <4>4, <2>2
    <3>2. CASE ~dest_top /\ ~dest_shared
      <4>1. shared_nrefs' = shared_nrefs
        BY <3>2, <2>6 DEF Step, TryClose, try_close_objects, try_close_top, try_close_reentered,
          try_close_root, try_close_cleanup, Pass1, Pass2, tag1_return, tag1_entry, pass1_keep,
          pass1_mark, tag2_return, tag2_entry, pass2_file, pass2_done, ReleaseStep,
          release_entry, release_skip, release_return, Dest, dest_efc, UNCHANGED_COUNTS
      <4> QED BY <4>1, <2>2
    <3> QED BY <3>1, <3>2
  <2>8. ASSUME i = m PROVE lru'[p] = <<>>
    <3>1. n = i + 1 /\ Popped
      <4>1. \A frame : ~Stays(frame)
        BY <2>8, <1>2, <1>n, <1>m DEF Stays, Replaced
      <4>2. \A callee, frame : ~Nests(callee, frame)
        BY <2>8, <1>2, <1>n, <1>m DEF Nests, Pushed
      <4>3. Popped
        BY <4>1, <4>2, <1>t DEF Moves, StackStep
      <4>4. m = n - 1
        BY <4>3, <1>n, <1>m DEF Popped
      <4> QED BY <4>3, <4>4, <2>8
    <3>2. Top.fn = "efc_release_real" /\ Top.file = p
      <4>1. Caller(n) /\ n - 1 = i /\ n # 1
        BY <1>0, <1>n, <3>1, <2>6 DEF Callers
      <4>2. calls[n - 1].fn = "efc_destroy" /\ Top = calls[n] /\ n > 1
        BY <4>1, <2>1, <1>1, <1>t, <2>6
      <4>a. Top.fn \in Closing \cup Walking
        BY <1>0, <1>t, TopFacts DEF FrameRecord
      <4>3. Top.fn = "efc_release_real"
        BY <4>1, <4>2, <4>a DEF Caller, Closing, Walking
      <4> QED BY <4>1, <4>2, <4>3, <2>p, <2>1 DEF Caller
    <3>3. release_return
      <4>1. Len(calls') = Len(calls) - 1 /\ Len(calls) \in Nat
        BY <3>1, <1>n DEF Popped
      <4> QED BY <4>1, <3>2, <1>0, ReleaseSteps DEF Replaced, Pushed
    <3>4. lru' = lru /\ Top.entries = <<>>
      BY <3>3 DEF release_return, UNCHANGED_COUNTS
    <3>5. PICK l \in Nat : l = Len(lru[p])
      BY <1>0, EntriesFacts
    <3>6. Releasing(n) /\ Visited(n) = l
      <4>0. n \in 1..Len(calls) /\ calls[n].fn = "efc_release_real"
        BY <3>2, <1>n, <1>t
      <4>a. calls[n].file = p /\ calls[n].entries = <<>>
        BY <3>2, <3>4, <1>t
      <4>b. Visited(n) = l - Len(<<>>)
        BY <4>a, <3>5 DEF Visited
      <4>1. Releasing(n) /\ Visited(n) = l - Len(<<>>)
        BY <4>0, <4>b DEF Releasing
      <4> QED BY <4>1, <3>5
    <3>7. ASSUME lru[p] # <<>> PROVE FALSE
      <4>1. 1 \in 1..l /\ n \in 1..Len(calls)
        <5>1. lru[p] \in Seq(EntryRecord)
          BY <1>0 DEF EfcTypeOK
        <5> QED BY <5>1, <3>5, <3>7, <1>n
      <4>2. lru[p][1].nopen > 0
        BY <4>1, <3>6, <3>2, <1>0, <1>t DEF PassedByOpen
      <4>3. lru[p][1] \in Entries(p)
        BY <4>1, <3>5, <1>0, EntriesFacts
      <4>4. user[p] > 0
        BY <4>2, <4>3, <1>0, <1>t DEF ClientsHold, ParentsHeld, Opened
      <4> QED BY <4>4, <2>3
    <3> QED BY <3>4, <3>7
  <2> QED BY <2>1, <2>p, <2>7, <2>8
<1>3. CASE ~(i < n)
  <2>1. i \in n..Len(calls')
    BY <1>3, <1>m
  <2>2. i = n /\ dest_efc
    BY <2>1, <1>0, <1>n, <1>1, FrameFrom
  <2>p. PICK p \in Files : p = Top.file
    BY <1>t
  <2>3. /\ shared_nrefs[p] <= 1 /\ n \in TopsClosing(p) /\ shared_nrefs' = shared_nrefs
    BY <2>2, <2>p, <1>t, <1>n DEF dest_efc, Running, TopsClosing, Closing, UNCHANGED_COUNTS
  <2>4. shared_nrefs[p] = 1
    BY <2>3, <1>0, LastReference
  <2>5. Pushed(Over("efc_release_real", p, lru[p]), At("efc_destroy", p))
    BY <2>2, <2>p, <1>0, OtherMoves DEF Moves
  <2>6. m = n + 1 /\ calls'[n].file = p
    BY <2>5, <1>n, <1>m DEF Pushed, At, Frame
  <2> QED BY <2>2, <2>3, <2>4, <2>6
<1> QED BY <1>2, <1>3

\* Every step of a call keeps the invariant.
LEMMA StepInv ==
  ASSUME EfcInv, Step PROVE EfcInv'
<1>1. EfcTypeOK' /\ user' = user
  BY StepTypes
<1>2. Callers' /\ PassesAlone'
  <2>1. EfcTypeOK /\ Callers /\ PassesAlone
    BY DEF EfcInv
  <2> QED BY <1>1, <2>1, StepMoves, NestingKept
<1>3. CountsAgree'
  BY CountsKept
<1>4. ReleaseWalksList' /\ PassedByOpen'
  BY WalksKept
<1>5. OneEntry' /\ ClientsHold'
  BY EntriesAfter, ClientsHoldKept
<1>6. Locked' /\ PassesUnlocked'
  BY LockedKept, PassesUnlockedKept
<1>7. LastTop' /\ EvictorHeld'
  BY LastTopKept, EvictorHeldKept
<1> QED BY <1>1, <1>2, <1>3, <1>4, <1>5, <1>6, <1>7 DEF EfcInv
-----------------------------------------------------------------------------
\* The calls of the application begin when no other is under way.

\* What the invariant says of the calls under way.
StackParts ==
  /\ ReleaseWalksList /\ Callers /\ PassesAlone /\ Locked /\ PassesUnlocked
  /\ PassedByOpen /\ ClientsHold /\ LastTop /\ EvictorHeld

\* Between two calls no top is being closed.
LEMMA IdleFacts ==
  ASSUME Idle'
  PROVE  StackParts' /\ \A f : TopsClosing(f)' = {}
<1>1. Len(calls') = 0
  BY DEF Idle
<1>2. 1..Len(calls') = {} /\ \A i : ~Releasing(i)'
  BY <1>1 DEF Releasing
<1> QED BY <1>2 DEF StackParts, ReleaseWalksList, Callers, PassesAlone, Locked,
        PassesUnlocked, PassedByOpen, ClientsHold, LastTop, EvictorHeld, TopsClosing, Idle

\* A call that closes a top is the first of a stack.
LEMMA CloseFacts ==
  ASSUME NEW frame \in FrameRecord, frame.fn = "H5F_try_close", calls' = <<frame>>,
         ParentsHeld(user)'
  PROVE  /\ StackParts'
         /\ \A f : TopsClosing(f)' = IF frame.file = f THEN {1} ELSE {}
<1>1. Len(calls') = 1 /\ calls'[1] = frame
  OBVIOUS
<1>2. 1..Len(calls') = {1} /\ \A i : ~Releasing(i)'
  BY <1>1 DEF Releasing
<1>3. Callers' /\ PassesAlone' /\ PassesUnlocked' /\ LastTop' /\ EvictorHeld'
  BY <1>1, <1>2 DEF Callers, Caller, PassesAlone, PassesUnlocked, LastTop, EvictorHeld, Closing
<1>4. ReleaseWalksList' /\ Locked' /\ PassedByOpen' /\ ClientsHold'
  BY <1>2 DEF ReleaseWalksList, Locked, PassedByOpen, ClientsHold
<1>5. \A f : TopsClosing(f)' = IF frame.file = f THEN {1} ELSE {}
  BY <1>1, <1>2 DEF TopsClosing, Closing
<1> QED BY <1>3, <1>4, <1>5 DEF StackParts

\* The call that opens a file after the eviction of another is below the close.
LEMMA EvictFacts ==
  ASSUME NEW below \in FrameRecord, NEW frame \in FrameRecord,
         below.fn = "efc_open", frame.fn = "H5F_try_close", calls' = <<below, frame>>,
         ParentsHeld(user)',
         Held(below.file)' \/ (frame.file = below.file /\ frame.objs > 0),
         \A f \in below.files : ~Cached(below.file, f)'
  PROVE  /\ StackParts'
         /\ \A f : TopsClosing(f)' = IF frame.file = f THEN {2} ELSE {}
<1>1. Len(calls') = 2 /\ calls'[1] = below /\ calls'[2] = frame /\ Top' = frame
  BY DEF Top
<1>2. 1..Len(calls') = {1, 2} /\ \A i : ~Releasing(i)'
  BY <1>1 DEF Releasing
<1>3. Callers' /\ PassesAlone' /\ PassesUnlocked' /\ LastTop'
  <2>1. Caller(1)' /\ Caller(2)'
    BY <1>1 DEF Caller, Closing
  <2> QED BY <1>1, <1>2, <2>1 DEF Callers, PassesAlone, PassesUnlocked, LastTop
<1>4. EvictorHeld'
  BY <1>1, <1>2 DEF EvictorHeld, Evictor
<1>5. ReleaseWalksList' /\ Locked' /\ PassedByOpen' /\ ClientsHold'
  BY <1>2 DEF ReleaseWalksList, Locked, PassedByOpen, ClientsHold
<1>6. \A f : TopsClosing(f)' = IF frame.file = f THEN {2} ELSE {}
  BY <1>1, <1>2 DEF TopsClosing, Closing
<1> QED BY <1>3, <1>4, <1>5, <1>6 DEF StackParts

\* H5Fclear_elink_file_cache releases the cache of a file that is open.
LEMMA ClearFacts ==
  ASSUME EfcTypeOK', NEW f \in Files, calls' = <<Over("efc_release_real", f, lru'[f])>>,
         ParentsHeld(user)', user'[f] > 0, tag'[f] = TAG_LOCK
  PROVE  StackParts' /\ \A g : TopsClosing(g)' = {}
<1>1. /\ Len(calls') = 1 /\ calls'[1].fn = "efc_release_real" /\ calls'[1].file = f
      /\ calls'[1].entries = lru'[f]
  BY DEF Over, Frame
<1>2. 1..Len(calls') = {1} /\ \A i : Releasing(i)' => i = 1
  BY <1>1 DEF Releasing
<1>3. Callers' /\ PassesAlone' /\ PassesUnlocked' /\ LastTop' /\ EvictorHeld'
  BY <1>1, <1>2 DEF Callers, Caller, PassesAlone, PassesUnlocked, LastTop, EvictorHeld, Closing
<1>4. Locked' /\ ClientsHold'
  BY <1>1, <1>2 DEF Locked, ClientsHold
<1>5. Visited(1)' = 0 /\ Len(lru'[f]) \in Nat
  BY <1>1 DEF Visited, EfcTypeOK
<1>6. ReleaseWalksList'
  BY <1>1, <1>2, <1>5 DEF ReleaseWalksList
<1>7. PassedByOpen'
  BY <1>1, <1>2, <1>5 DEF PassedByOpen
<1>8. \A g : TopsClosing(g)' = {}
  BY <1>1, <1>2 DEF TopsClosing, Closing
<1> QED BY <1>3, <1>4, <1>6, <1>7, <1>8 DEF StackParts

\* A cache holds a file if its list has the file at some place.
LEMMA CachedAt ==
  ASSUME EfcTypeOK, NEW p \in Files, NEW f
  PROVE  Cached(p, f) <=> \E k \in 1..Len(lru[p]) : lru[p][k].file = f
<1>1. /\ \A i \in 1..Len(lru[p]) : lru[p][i] \in Entries(p)
      /\ \A e \in Entries(p) : \E i \in 1..Len(lru[p]) : e = lru[p][i]
  BY EntriesFacts
<1> QED BY <1>1 DEF Cached

\* What the counts say of a file between two calls.
LEMMA IdleCounts ==
  ASSUME EfcInv, Idle, NEW f \in Files
  PROVE  /\ user[f] \in Nat /\ loose[f] \in Nat /\ orphaned[f] \in Nat
         /\ shared_nrefs[f] \in Nat /\ efc_nrefs[f] \in Nat
         /\ Cardinality(Parents(f)) \in Nat
         /\ shared_nrefs[f] = user[f] + loose[f] + orphaned[f] + Cardinality(Parents(f))
         /\ HasEFC(f) => efc_nrefs[f] = Cardinality(Parents(f))
         /\ shared_nrefs[f] = 0 => lru[f] = <<>>
<1>1. EfcTypeOK /\ CountsAgree
  BY DEF EfcInv
<1>2. TopsClosing(f) = {} /\ Cardinality({}) = 0
  BY FS_EmptySet DEF TopsClosing, Idle
<1>3. /\ user[f] \in Nat /\ loose[f] \in Nat /\ orphaned[f] \in Nat
      /\ shared_nrefs[f] \in Nat /\ efc_nrefs[f] \in Nat
      /\ Cardinality(Parents(f)) \in Nat
  BY <1>1, CountsFacts DEF EfcTypeOK
<1>4. PICK u, l, o, P \in Nat : /\ u = user[f] /\ l = loose[f] /\ o = orphaned[f]
                               /\ P = Cardinality(Parents(f))
  BY <1>3
<1>5. shared_nrefs[f] = u + l + o + P + 0
  BY <1>1, <1>2, <1>4 DEF CountsAgree
<1>6. u + l + o + P + 0 = u + l + o + P
  OBVIOUS
<1>7. (HasEFC(f) => efc_nrefs[f] = P) /\ (shared_nrefs[f] = 0 => lru[f] = <<>>)
  BY <1>1, <1>4 DEF CountsAgree
<1> QED BY <1>3, <1>4, <1>5, <1>6, <1>7

\* The counts agree after a call that leaves the caches alone, if each change of
\* a count has its counterpart.
LEMMA CountsBegun ==
  ASSUME EfcInv, Idle, lru' = lru, efc_nrefs' = efc_nrefs, NEW f \in Files,
         NEW T \in Nat, Cardinality(TopsClosing(f)') = T,
         shared_nrefs'[f] - user'[f] - loose'[f] - orphaned'[f] - T
           = shared_nrefs[f] - user[f] - loose[f] - orphaned[f],
         user'[f] \in Nat, loose'[f] \in Nat, orphaned'[f] \in Nat,
         shared_nrefs'[f] >= shared_nrefs[f], shared_nrefs'[f] \in Nat
  PROVE  Agrees(f)'
<1>1. Parents(f)' = Parents(f) /\ lru'[f] = lru[f] /\ efc_nrefs'[f] = efc_nrefs[f]
  BY DEF Parents, Cached, Entries
<1>2. PICK P \in Nat : P = Cardinality(Parents(f))
  BY IdleCounts
<1>3. shared_nrefs[f] = user[f] + loose[f] + orphaned[f] + P
  BY <1>2, IdleCounts
<1>4. user[f] \in Nat /\ loose[f] \in Nat /\ orphaned[f] \in Nat /\ shared_nrefs[f] \in Nat
  BY IdleCounts
<1>5. shared_nrefs'[f] = user'[f] + loose'[f] + orphaned'[f] + P + T
  BY <1>3, <1>4
<1>6. shared_nrefs'[f] = 0 => lru'[f] = <<>>
  BY <1>1, <1>4, IdleCounts
<1>7. HasEFC(f) => efc_nrefs'[f] = Cardinality(Parents(f))
  BY <1>1, IdleCounts
<1> QED BY <1>1, <1>2, <1>5, <1>6, <1>7 DEF Agrees

\* A sequence of calls of which each is one.
LEMMA StackType ==
  ASSUME NEW a \in FrameRecord, NEW b \in FrameRecord
  PROVE  <<>> \in Seq(FrameRecord) /\ <<a>> \in Seq(FrameRecord) /\ <<a, b>> \in Seq(FrameRecord)
OBVIOUS

\* The calls of H5F_try_close with which the stack starts.
LEMMA TryCloseFrame ==
  ASSUME NEW f \in Files, NEW objs \in Nat
  PROVE  LET frame == Frame("H5F_try_close", f, <<>>, {}, objs) IN
         /\ frame \in FrameRecord /\ frame.fn = "H5F_try_close" /\ frame.file = f
         /\ frame.objs = objs
<1>1. "H5F_try_close" \in Closing \cup Walking /\ <<>> \in Seq(EntryRecord)
  BY DEF Closing
<1>2. {} \in SUBSET Files
  OBVIOUS
<1>3. Frame("H5F_try_close", f, <<>>, {}, objs) \in FrameRecord
  BY <1>1, <1>2, FrameType
<1> QED BY <1>3 DEF Frame

\* H5Fopen keeps the invariant.
LEMMA OpenFileInv ==
  ASSUME EfcInv, NEW f \in Files, open_file(f) PROVE EfcInv'
<1>0. Idle /\ EfcTypeOK /\ OneEntry /\ Idle'
  BY DEF EfcInv, open_file, Idle
<1>1. /\ user' = [user EXCEPT ![f] = user[f] + 1]
      /\ shared_nrefs' = [shared_nrefs EXCEPT ![f] = shared_nrefs[f] + 1]
      /\ UNCHANGED <<efc_nrefs, lru, tag, loose, orphaned, found, calls>>
  BY DEF open_file
<1>2. user \in [Files -> Nat] /\ shared_nrefs \in [Files -> Nat]
  BY <1>0 DEF EfcTypeOK
<1>3. user' \in [Files -> Nat] /\ shared_nrefs' \in [Files -> Nat]
  <2>1. user[f] + 1 \in Nat /\ shared_nrefs[f] + 1 \in Nat
    BY <1>2
  <2> QED BY <1>1, <1>2, <2>1, ExceptType
<1>4. EfcTypeOK'
  BY <1>0, <1>1, <1>3 DEF EfcTypeOK
<1>5. StackParts' /\ \A g : Cardinality(TopsClosing(g)') = 0
  BY <1>0, IdleFacts, FS_EmptySet
<1>6. CountsAgree'
  <2>1. SUFFICES ASSUME NEW g \in Files PROVE Agrees(g)'
    BY DEF CountsAgree, Agrees
  <2>2. \/ user'[g] = user[g] /\ shared_nrefs'[g] = shared_nrefs[g]
        \/ user'[g] = user[g] + 1 /\ shared_nrefs'[g] = shared_nrefs[g] + 1
    BY <1>1, <1>2
  <2>3. /\ user[g] \in Nat /\ loose[g] \in Nat /\ orphaned[g] \in Nat /\ shared_nrefs[g] \in Nat
    BY <1>0, IdleCounts
  <2>4. /\ loose'[g] = loose[g] /\ orphaned'[g] = orphaned[g]
        /\ user'[g] \in Nat /\ shared_nrefs'[g] \in Nat
    BY <1>1, <1>3
  <2>5. /\ shared_nrefs'[g] - user'[g] - loose'[g] - orphaned'[g] - 0
             = shared_nrefs[g] - user[g] - loose[g] - orphaned[g]
        /\ shared_nrefs'[g] >= shared_nrefs[g] /\ 0 \in Nat
    BY <2>2, <2>3, <2>4
  <2>6. loose'[g] \in Nat /\ orphaned'[g] \in Nat
    BY <2>3, <2>4
  <2> QED BY <1>0, <1>1, <1>5, <2>4, <2>5, <2>6, CountsBegun
<1> QED BY <1>0, <1>1, <1>4, <1>5, <1>6 DEF EfcInv, StackParts, OneEntry

\* The start of the close of a top keeps the invariant: one of the tops that the
\* counters name is the one that is being closed.
LEMMA CloseInv ==
  ASSUME EfcInv, NEW f \in Files, NEW objs \in Nat, Idle,
         calls' = <<Frame("H5F_try_close", f, <<>>, {}, objs)>>, ParentsHeld(user)',
         \/ /\ user[f] > 0 /\ user' = [user EXCEPT ![f] = user[f] - 1]
            /\ UNCHANGED <<loose, orphaned>>
         \/ /\ loose[f] > 0 /\ loose' = [loose EXCEPT ![f] = loose[f] - 1]
            /\ UNCHANGED <<user, orphaned>>
         \/ /\ orphaned[f] > 0 /\ orphaned' = [orphaned EXCEPT ![f] = orphaned[f] - 1]
            /\ UNCHANGED <<user, loose>>,
         UNCHANGED <<shared_nrefs, efc_nrefs, lru, tag, found>>
  PROVE  EfcInv'
<1>0. EfcTypeOK /\ OneEntry
  BY DEF EfcInv
<1> DEFINE frame == Frame("H5F_try_close", f, <<>>, {}, objs)
<1>1. frame \in FrameRecord /\ frame.fn = "H5F_try_close" /\ frame.file = f /\ calls' = <<frame>>
  BY TryCloseFrame
<1> HIDE DEF frame
<1>2. /\ user \in [Files -> Nat] /\ loose \in [Files -> Nat] /\ orphaned \in [Files -> Nat]
  BY <1>0 DEF EfcTypeOK
<1>3. /\ user' \in [Files -> Nat] /\ loose' \in [Files -> Nat] /\ orphaned' \in [Files -> Nat]
  <2>1. /\ user[f] > 0 => user[f] - 1 \in Nat
        /\ loose[f] > 0 => loose[f] - 1 \in Nat
        /\ orphaned[f] > 0 => orphaned[f] - 1 \in Nat
    BY <1>2
  <2>2. /\ user[f] > 0 => [user EXCEPT ![f] = user[f] - 1] \in [Files -> Nat]
        /\ loose[f] > 0 => [loose EXCEPT ![f] = loose[f] - 1] \in [Files -> Nat]
        /\ orphaned[f] > 0 => [orphaned EXCEPT ![f] = orphaned[f] - 1] \in [Files -> Nat]
    BY <1>2, <2>1, ExceptType
  <2> QED BY <1>2, <2>2
<1>4. EfcTypeOK'
  <2>1. calls' \in Seq(FrameRecord)
    BY <1>1, StackType
  <2> QED BY <1>0, <1>3, <2>1 DEF EfcTypeOK
<1>5. StackParts' /\ \A g : TopsClosing(g)' = IF f = g THEN {1} ELSE {}
  BY <1>1, CloseFacts
<1>6. CountsAgree'
  <2>1. SUFFICES ASSUME NEW g \in Files PROVE Agrees(g)'
    BY DEF CountsAgree, Agrees
  <2>2. Cardinality(TopsClosing(g)') = IF f = g THEN 1 ELSE 0
    <3>1. Cardinality({}) = 0 /\ Cardinality({1}) = 1
      BY FS_EmptySet, FS_Singleton
    <3>2. TopsClosing(g)' = IF f = g THEN {1} ELSE {}
      BY <1>5
    <3> QED BY <3>1, <3>2
  <2>3. PICK T \in Nat : Cardinality(TopsClosing(g)') = T /\ T = IF f = g THEN 1 ELSE 0
    BY <2>2
  <2>4. \/ user'[g] = user[g] - T /\ loose'[g] = loose[g] /\ orphaned'[g] = orphaned[g]
        \/ user'[g] = user[g] /\ loose'[g] = loose[g] - T /\ orphaned'[g] = orphaned[g]
        \/ user'[g] = user[g] /\ loose'[g] = loose[g] /\ orphaned'[g] = orphaned[g] - T
    <3>1. user[g] - 0 = user[g] /\ loose[g] - 0 = loose[g] /\ orphaned[g] - 0 = orphaned[g]
      BY <1>2
    <3> QED BY <1>2, <2>3, <3>1
  <2>5. /\ user[g] \in Nat /\ loose[g] \in Nat /\ orphaned[g] \in Nat /\ shared_nrefs[g] \in Nat
        /\ user'[g] \in Nat /\ loose'[g] \in Nat /\ orphaned'[g] \in Nat
        /\ shared_nrefs'[g] = shared_nrefs[g]
    BY <1>0, <1>2, <1>3 DEF EfcTypeOK
  <2>6. /\ shared_nrefs'[g] - user'[g] - loose'[g] - orphaned'[g] - T
             = shared_nrefs[g] - user[g] - loose[g] - orphaned[g]
        /\ shared_nrefs'[g] >= shared_nrefs[g]
    <3>1. PICK u, l, o, s \in Nat : /\ u = user[g] /\ l = loose[g] /\ o = orphaned[g]
                                   /\ s = shared_nrefs[g]
      BY <2>5
    <3>2. /\ s - (u - T) - l - o - T = s - u - l - o
          /\ s - u - (l - T) - o - T = s - u - l - o
          /\ s - u - l - (o - T) - T = s - u - l - o
          /\ s >= s
      OBVIOUS
    <3> QED BY <3>1, <3>2, <2>4, <2>5
  <2> QED BY <2>3, <2>5, <2>6, CountsBegun
<1> QED BY <1>0, <1>4, <1>5, <1>6 DEF EfcInv, StackParts, OneEntry

\* H5Fclear_elink_file_cache keeps the invariant.
LEMMA ClearInv ==
  ASSUME EfcInv, NEW f \in Files, efc_release(f) PROVE EfcInv'
<1>0. /\ Idle /\ EfcTypeOK /\ OneEntry /\ user[f] > 0 /\ ParentsHeld(user)
      /\ calls' = <<Over("efc_release_real", f, lru[f])>>
      /\ tag' = [tag EXCEPT ![f] = TAG_LOCK]
      /\ UNCHANGED <<shared_nrefs, efc_nrefs, lru, user, loose, orphaned, found>>
  BY DEF EfcInv, efc_release, Begin, UNCHANGED_COUNTS, TOPS
<1>1. tag' \in [Files -> Int] /\ tag'[f] = TAG_LOCK
  <2>1. tag \in [Files -> Int] /\ TAG_LOCK \in Int
    BY <1>0 DEF EfcTypeOK, TAG_LOCK
  <2> QED BY <1>0, <2>1
<1>2. EfcTypeOK'
  <2>1. "efc_release_real" \in Closing \cup Walking /\ lru[f] \in Seq(EntryRecord)
        /\ 0 \in Nat /\ {} \in SUBSET Files
    BY <1>0 DEF Walking, EfcTypeOK
  <2>2. Over("efc_release_real", f, lru[f]) \in FrameRecord
    BY <2>1, FrameType
  <2>3. calls' \in Seq(FrameRecord)
    BY <1>0, <2>2, StackType
  <2> QED BY <1>0, <1>1, <2>3 DEF EfcTypeOK
<1>3. ParentsHeld(user)'
  BY <1>0 DEF ParentsHeld, Opened, Entries
<1>4. StackParts' /\ \A g : TopsClosing(g)' = {}
  <2>1. user'[f] > 0 /\ calls' = <<Over("efc_release_real", f, lru'[f])>>
    BY <1>0
  <2> QED BY <1>1, <1>2, <1>3, <2>1, ClearFacts
<1>5. CountsAgree'
  <2>1. SUFFICES ASSUME NEW g \in Files PROVE Agrees(g)'
    BY DEF CountsAgree, Agrees
  <2>2. Cardinality(TopsClosing(g)') = 0 /\ 0 \in Nat
    BY <1>4, FS_EmptySet
  <2>3. /\ user[g] \in Nat /\ loose[g] \in Nat /\ orphaned[g] \in Nat /\ shared_nrefs[g] \in Nat
    BY <1>0, IdleCounts
  <2>4. /\ user'[g] = user[g] /\ loose'[g] = loose[g] /\ orphaned'[g] = orphaned[g]
        /\ shared_nrefs'[g] = shared_nrefs[g]
    BY <1>0
  <2>5. /\ shared_nrefs'[g] - user'[g] - loose'[g] - orphaned'[g] - 0
             = shared_nrefs[g] - user[g] - loose[g] - orphaned[g]
        /\ shared_nrefs'[g] >= shared_nrefs[g]
    BY <2>3, <2>4
  <2> QED BY <1>0, <2>2, <2>3, <2>4, <2>5, CountsBegun
<1> QED BY <1>0, <1>2, <1>4, <1>5 DEF EfcInv, StackParts, OneEntry
-----------------------------------------------------------------------------
\* The entries of two lists are for the same files, at other places.
Rearranged(place, old, new) ==
  LET m == Len(old) IN
  /\ m = Len(new) /\ place \in [1..m -> 1..m]
  /\ \A j \in 1..m : \E k \in 1..m : place[k] = j
  /\ \A j, k \in 1..m : place[j] = place[k] => j = k
  /\ \A k \in 1..m : new[k].file = old[place[k]].file

\* A cache whose entries change places, or all but their file, holds the same
\* files.
LEMMA SameFiles ==
  ASSUME EfcTypeOK, OneEntry, NEW p \in Files, lru' \in [Files -> Seq(EntryRecord)],
         \A q \in Files : q # p => lru'[q] = lru[q],
         NEW place, Rearranged(place, lru[p], lru'[p])
  PROVE  OneEntry' /\ \A f \in Files : Parents(f)' = Parents(f)
<1>a. \A f \in Files : Cached(p, f) <=> \E k \in 1..Len(lru[p]) : lru[p][k].file = f
  BY CachedAt
<1>b. /\ \A k \in 1..Len(lru'[p]) : lru'[p][k] \in Entries(p)'
      /\ \A e \in Entries(p)' : \E k \in 1..Len(lru'[p]) : e = lru'[p][k]
  <2>1. lru'[p] \in Seq(EntryRecord) /\ Entries(p)' = ToSet(lru'[p])
    BY DEF Entries
  <2> QED BY <2>1, ToSetFacts
<1>m. PICK m \in Nat : m = Len(lru[p])
  BY EntriesFacts
<1>0. /\ m = Len(lru'[p]) /\ place \in [1..m -> 1..m]
      /\ \A j \in 1..m : \E k \in 1..m : place[k] = j
      /\ \A j, k \in 1..m : place[j] = place[k] => j = k
      /\ \A k \in 1..m : lru'[p][k].file = lru[p][place[k]].file
  BY <1>m DEF Rearranged
<1> USE <1>m, <1>0
<1>1. OneEntry'
  <2>1. ASSUME NEW j \in 1..m, NEW k \in 1..m, lru'[p][j].file = lru'[p][k].file PROVE j = k
    <3>1. place[j] \in 1..Len(lru[p]) /\ place[k] \in 1..Len(lru[p])
      OBVIOUS
    <3>2. lru[p][place[j]].file = lru[p][place[k]].file
      BY <2>1
    <3>3. place[j] = place[k]
      BY <3>1, <3>2 DEF OneEntry
    <3> QED BY <3>3
  <2>2. ASSUME NEW q \in Files, q # p, NEW j \in 1..Len(lru'[q]), NEW k \in 1..Len(lru'[q]),
               lru'[q][j].file = lru'[q][k].file
        PROVE  j = k
    BY <2>2 DEF OneEntry
  <2>3. ASSUME NEW q \in Files, NEW j \in 1..Len(lru'[q]), NEW k \in 1..Len(lru'[q]),
               lru'[q][j].file = lru'[q][k].file
        PROVE  j = k
    BY <2>1, <2>2, <2>3
  <2> QED BY <2>3 DEF OneEntry
<1>2. ASSUME NEW f \in Files PROVE Cached(p, f)' <=> Cached(p, f)
  <2>1. Cached(p, f) <=> \E k \in 1..m : lru[p][k].file = f
    BY <1>a
  <2>2. Cached(p, f)' <=> \E k \in 1..m : lru'[p][k].file = f
    <3>2. /\ \A k \in 1..m : lru'[p][k] \in Entries(p)'
          /\ \A e \in Entries(p)' : \E k \in 1..m : e = lru'[p][k]
      BY <1>b
    <3>3. Cached(p, f)' <=> \E e \in Entries(p)' : e.file = f
      BY DEF Cached
    <3>4. ASSUME NEW e \in Entries(p)', e.file = f PROVE \E k \in 1..m : lru'[p][k].file = f
      <4>1. PICK k \in 1..m : e = lru'[p][k]
        BY <3>2
      <4> QED BY <4>1, <3>4
    <3>5. ASSUME NEW k \in 1..m, lru'[p][k].file = f PROVE \E e \in Entries(p)' : e.file = f
      BY <3>2, <3>5
    <3> QED BY <3>3, <3>4, <3>5
  <2>3. \A k \in 1..m : lru'[p][k].file = f => lru[p][place[k]].file = f /\ place[k] \in 1..m
    OBVIOUS
  <2>4. ASSUME NEW j \in 1..m, lru[p][j].file = f PROVE \E k \in 1..m : lru'[p][k].file = f
    <3>1. PICK k \in 1..m : place[k] = j
      OBVIOUS
    <3>2. lru'[p][k].file = lru[p][place[k]].file
      OBVIOUS
    <3> QED BY <2>4, <3>1, <3>2
  <2> QED BY <2>1, <2>2, <2>3, <2>4
<1>3. \A q \in Files : q # p => Entries(q)' = Entries(q)
  BY DEF Entries
<1>4. ASSUME NEW f \in Files PROVE Parents(f)' = Parents(f)
  <2>1. \A q \in Files : Cached(q, f)' <=> Cached(q, f)
    <3>1. \A q \in Files : q # p => (Cached(q, f)' <=> Cached(q, f))
      BY <1>3 DEF Cached
    <3>2. Cached(p, f)' <=> Cached(p, f)
      BY <1>2
    <3> QED BY <3>1, <3>2
  <2>2. Parents(f)' = {q \in Files : Cached(q, f)'}
    BY DEF Parents
  <2> QED BY <2>1, <2>2 DEF Parents
<1> QED BY <1>1, <1>4

\* Such a change keeps the invariant.
LEMMA SameFilesInv ==
  ASSUME EfcInv, Idle, NEW p \in Files, lru[p] # <<>>,
         lru' \in [Files -> Seq(EntryRecord)],
         \A q \in Files : q # p => lru'[q] = lru[q],
         OneEntry', \A f \in Files : Parents(f)' = Parents(f),
         UNCHANGED <<shared_nrefs, efc_nrefs, tag, TOPS, found, calls>>
  PROVE  EfcInv'
<1>0. EfcTypeOK /\ Idle' /\ UNCHANGED <<user, loose, orphaned>>
  BY DEF EfcInv, Idle, TOPS
<1>1. EfcTypeOK'
  BY <1>0 DEF EfcTypeOK
<1>2. StackParts' /\ \A g : Cardinality(TopsClosing(g)') = 0
  BY <1>0, IdleFacts, FS_EmptySet
<1>3. CountsAgree'
  <2>1. SUFFICES ASSUME NEW g \in Files PROVE Agrees(g)'
    BY DEF CountsAgree, Agrees
  <2>2. PICK u, l, o, P \in Nat : /\ u = user[g] /\ l = loose[g] /\ o = orphaned[g]
                                 /\ P = Cardinality(Parents(g))
    BY IdleCounts
  <2>3. shared_nrefs[g] = u + l + o + P + 0
    <3>1. shared_nrefs[g] = user[g] + loose[g] + orphaned[g] + Cardinality(Parents(g))
      BY IdleCounts
    <3>2. u + l + o + P = u + l + o + P + 0
      OBVIOUS
    <3> QED BY <2>2, <3>1, <3>2
  <2>4. shared_nrefs[g] = 0 => lru'[g] = <<>>
    <3>1. shared_nrefs[g] = 0 => lru[g] = <<>>
      BY IdleCounts
    <3> QED BY <3>1
  <2>5. HasEFC(g) => efc_nrefs[g] = P
    BY <2>2, IdleCounts
  <2> QED BY <1>0, <1>2, <2>2, <2>3, <2>4, <2>5 DEF Agrees
<1> QED BY <1>1, <1>2, <1>3 DEF EfcInv, StackParts

\* H5F_efc_close, and the objects of an entry's top, keep the invariant.
LEMMA ChangeEntryInv ==
  ASSUME EfcInv, NEW p \in Files, NEW i \in 1..Len(lru[p]), NEW e \in EntryRecord,
         e.file = lru[p][i].file, ChangeEntry(p, i, e)
  PROVE  /\ EfcInv' /\ lru[p] # <<>>
         /\ \A q \in Files : Parents(q)' = Parents(q) /\ (q # p => lru'[q] = lru[q])
<1>0. /\ EfcTypeOK /\ OneEntry /\ Idle /\ lru' = [lru EXCEPT ![p] = [lru[p] EXCEPT ![i] = e]]
      /\ UNCHANGED <<shared_nrefs, efc_nrefs, tag, TOPS, found, calls>>
  BY DEF EfcInv, ChangeEntry
<1>1. lru \in [Files -> Seq(EntryRecord)] /\ lru[p] \in Seq(EntryRecord)
  BY <1>0 DEF EfcTypeOK
<1>m. PICK m \in Nat : m = Len(lru[p])
  BY <1>0, EntriesFacts
<1>s. PICK s \in Seq(EntryRecord) : s = lru[p]
  BY <1>1
<1>t. PICK t : t = [s EXCEPT ![i] = e]
  OBVIOUS
<1>2. t \in Seq(EntryRecord) /\ Len(t) = m
      /\ \A k \in 1..m : t[k] = IF k = i THEN e ELSE s[k]
  BY <1>s, <1>t, <1>m
<1>3. lru' \in [Files -> Seq(EntryRecord)] /\ lru'[p] = t
      /\ \A q \in Files : q # p => lru'[q] = lru[q]
  BY <1>0, <1>1, <1>2, <1>s, <1>t, ExceptType
<1>4. \A k \in 1..m : lru'[p][k].file = lru[p][k].file
  BY <1>2, <1>3, <1>s, <1>t
<1>5. OneEntry' /\ \A f \in Files : Parents(f)' = Parents(f)
  <2> DEFINE place == [k \in 1..m |-> k]
  <2>1. /\ place \in [1..m -> 1..m]
        /\ \A k \in 1..m : place[k] = k
    OBVIOUS
  <2> HIDE DEF place
  <2>2. /\ \A j \in 1..m : \E k \in 1..m : place[k] = j
        /\ \A j, k \in 1..m : place[j] = place[k] => j = k
        /\ \A k \in 1..m : lru'[p][k].file = lru[p][place[k]].file
    BY <2>1, <1>4
  <2>3. Rearranged(place, lru[p], lru'[p])
    BY <2>1, <2>2, <1>2, <1>3, <1>m DEF Rearranged
  <2> QED BY <2>3, <1>0, <1>3, SameFiles
<1>6. lru[p] # <<>>
  BY <1>m
<1> QED BY <1>0, <1>3, <1>5, <1>6, SameFilesInv

\* H5F__efc_open of a file that the cache has moves its entry to the front.
LEMMA HitInv ==
  ASSUME EfcInv, NEW p \in Files, NEW f \in Files, efc_open_hit(p, f)
  PROVE  /\ EfcInv'
         /\ \A q \in Files : Parents(q)' = Parents(q) /\ (q # p => lru'[q] = lru[q])
<1>0. /\ EfcTypeOK /\ OneEntry /\ Idle /\ Cached(p, f)
      /\ UNCHANGED <<shared_nrefs, efc_nrefs, tag, TOPS, found, calls>>
  BY DEF EfcInv, efc_open_hit
<1>i. PICK i \in 1..Len(lru[p]) : i = Position(p, f) /\ lru[p][i].file = f
  <2>1. PICK i \in 1..Len(lru[p]) : lru[p][i].file = f
    BY <1>0, CachedAt
  <2>2. Position(p, f) = i
    BY <2>1, <1>0, PositionFacts
  <2> QED BY <2>1, <2>2
<1>1. lru \in [Files -> Seq(EntryRecord)] /\ lru[p] \in Seq(EntryRecord)
  BY <1>0 DEF EfcTypeOK
<1>m. PICK m \in Nat : m = Len(lru[p]) /\ i \in 1..m
  BY <1>0, EntriesFacts
<1>s. PICK s \in Seq(EntryRecord) : s = lru[p] /\ m = Len(s)
  BY <1>1, <1>m
<1>r. PICK r : r = RemoveAt(s, i)
  OBVIOUS
<1>2. /\ r \in Seq(EntryRecord) /\ Len(r) = m - 1
      /\ \A k \in 1..m - 1 : r[k] = IF k < i THEN s[k] ELSE s[k + 1]
  BY <1>s, <1>r, <1>m, RemoveAtFacts
<1>e. PICK e \in EntryRecord : e = [s[i] EXCEPT !.nopen = 1] /\ e.file = f
  <2>1. s[i] \in EntryRecord /\ s[i].file = f
    BY <1>s, <1>i, <1>m
  <2>2. [s[i] EXCEPT !.nopen = 1] \in EntryRecord /\ [s[i] EXCEPT !.nopen = 1].file = f
    BY <2>1 DEF EntryRecord
  <2> QED BY <2>2
<1>3. lru' = [lru EXCEPT ![p] = <<e>> \o r]
  BY <1>e, <1>i, <1>s, <1>r DEF efc_open_hit
<1>t. PICK t : t = <<e>> \o r
  OBVIOUS
<1>4. t \in Seq(EntryRecord) /\ Len(t) = m /\ t[1] = e /\ \A k \in 2..m : t[k] = r[k - 1]
  <2> DEFINE h == <<e>>
  <2>1. h \in Seq(EntryRecord) /\ Len(h) = 1 /\ h[1] = e
    OBVIOUS
  <2> HIDE DEF h
  <2>2. h \o r \in Seq(EntryRecord) /\ Len(h \o r) = Len(h) + Len(r)
        /\ \A k \in 1..Len(h) + Len(r) : (h \o r)[k] = IF k <= Len(h) THEN h[k] ELSE r[k - Len(h)]
    <3>1. r \in Seq(EntryRecord) /\ h \in Seq(EntryRecord)
      BY <1>2, <2>1
    <3> HIDE <1>2, <2>1
    <3> QED BY <3>1, ConcatProperties
  <2>3. t = h \o r /\ Len(h) + Len(r) = m
    BY <1>t, <1>2, <2>1 DEF h
  <2>4. 1 \in 1..m /\ 1 <= Len(h)
    BY <1>m, <2>1
  <2>5. \A k \in 2..m : k \in 1..m /\ ~(k <= Len(h))
    BY <2>1
  <2> QED BY <2>1, <2>2, <2>3, <2>4, <2>5
<1>5. lru' \in [Files -> Seq(EntryRecord)] /\ lru'[p] = t
      /\ \A q \in Files : q # p => lru'[q] = lru[q]
  BY <1>1, <1>3, <1>t, <1>4, ExceptType
<1> DEFINE place == [k \in 1..m |-> IF k = 1 THEN i ELSE IF k - 1 < i THEN k - 1 ELSE k]
<1>6. place \in [1..m -> 1..m]
      /\ \A k \in 1..m : place[k] = IF k = 1 THEN i ELSE IF k - 1 < i THEN k - 1 ELSE k
  BY <1>m
<1> HIDE DEF place
<1>7. /\ \A j \in 1..m : \E k \in 1..m : place[k] = j
      /\ \A j, k \in 1..m : place[j] = place[k] => j = k
  <2>1. ASSUME NEW j \in 1..m PROVE \E k \in 1..m : place[k] = j
    <3>1. CASE j = i
      <4>1. 1 \in 1..m
        BY <1>m
      <4> QED BY <4>1, <3>1, <1>6
    <3>2. CASE j < i
      <4>1. j + 1 \in 1..m /\ j + 1 # 1 /\ (j + 1) - 1 < i /\ (j + 1) - 1 = j
        BY <3>2, <1>m
      <4> QED BY <4>1, <1>6
    <3>3. CASE j > i
      <4>1. j # 1 /\ ~(j - 1 < i)
        BY <3>3, <1>m
      <4> QED BY <4>1, <1>6
    <3> QED BY <3>1, <3>2, <3>3, <1>m
  <2>2. ASSUME NEW j \in 1..m, NEW k \in 1..m, place[j] = place[k] PROVE j = k
    BY <2>2, <1>6, <1>m
  <2> QED BY <2>1, <2>2
<1>8. ASSUME NEW k \in 1..m PROVE lru'[p][k].file = lru[p][place[k]].file
  <2>1. CASE k = 1
    BY <2>1, <1>4, <1>5, <1>6, <1>e, <1>i
  <2>2. CASE k # 1
    <3>1. k \in 2..m /\ k - 1 \in 1..m - 1
      BY <2>2
    <3>2. t[k] = IF k - 1 < i THEN s[k - 1] ELSE s[(k - 1) + 1]
      BY <3>1, <1>2, <1>4
    <3>3. (k - 1) + 1 = k
      BY <3>1
    <3> QED BY <2>2, <3>2, <3>3, <1>5, <1>6, <1>s
  <2> QED BY <2>1, <2>2
<1>9. OneEntry' /\ \A g \in Files : Parents(g)' = Parents(g)
  <2>1. Rearranged(place, lru[p], lru'[p])
    BY <1>4, <1>5, <1>6, <1>7, <1>8, <1>m DEF Rearranged
  <2> QED BY <2>1, <1>0, <1>5, SameFiles
<1>10. lru[p] # <<>>
  BY <1>m
<1> QED BY <1>0, <1>5, <1>9, <1>10, SameFilesInv

\* H5F__efc_open of a file that the cache has no entry for yet.
LEMMA NewInv ==
  ASSUME EfcInv, NEW p \in Files, NEW f \in Files, efc_open_new(p, f) PROVE EfcInv'
<1>0. /\ EfcTypeOK /\ CountsAgree /\ OneEntry /\ Idle /\ ~Cached(p, f) /\ Held(p)
      /\ insert(p, f) /\ UNCHANGED <<tag, found, calls>>
      /\ UNCHANGED <<user, loose, orphaned>>
  BY DEF EfcInv, efc_open_new, insert, TOPS
<1>1. EfcTypeOK'
  <2>1. lru' \in [Files -> Seq(EntryRecord)] /\ shared_nrefs' \in [Files -> Nat]
        /\ efc_nrefs' \in [Files -> Nat]
    BY <1>0, InsertFacts
  <2> QED BY <1>0, <2>1 DEF EfcTypeOK
<1>2. StackParts' /\ \A g : Cardinality(TopsClosing(g)') = 0
  <2>1. Idle'
    BY <1>0 DEF Idle
  <2> QED BY <2>1, IdleFacts, FS_EmptySet
<1>3. OneEntry'
  BY <1>0, InsertEntries
<1>4. CountsAgree'
  <2>1. SUFFICES ASSUME NEW g \in Files PROVE Agrees(g)'
    BY DEF CountsAgree, Agrees
  <2>2. PICK u, l, o, P \in Nat : /\ u = user[g] /\ l = loose[g] /\ o = orphaned[g]
                                 /\ P = Cardinality(Parents(g))
    BY <1>0, IdleCounts
  <2>3. shared_nrefs[g] = u + l + o + P
    BY <1>0, <2>2, IdleCounts
  <2>4. /\ g # f => Cardinality(Parents(g)') = P
        /\ g = f => Cardinality(Parents(g)') = P + 1
    <3>1. /\ \A x \in Files : x # f => Parents(x)' = Parents(x)
          /\ Cardinality(Parents(f)') = Cardinality(Parents(f)) + 1
      BY <1>0, ParentsAfter
    <3> QED BY <2>2, <3>1
  <2>5. /\ efc_nrefs'[g] = IF g = f /\ HasEFC(f) THEN efc_nrefs[g] + 1 ELSE efc_nrefs[g]
        /\ shared_nrefs'[g] = IF g = f THEN shared_nrefs[g] + 1 ELSE shared_nrefs[g]
    <3>1. efc_nrefs \in [Files -> Nat] /\ shared_nrefs \in [Files -> Nat]
      BY <1>0 DEF EfcTypeOK
    <3> QED BY <1>0, <3>1 DEF insert
  <2>6. HasEFC(g) => efc_nrefs'[g] = Cardinality(Parents(g)')
    <3>1. HasEFC(g) => efc_nrefs[g] = P
      BY <1>0, <2>2, IdleCounts
    <3> QED BY <2>4, <2>5, <3>1
  <2>7. shared_nrefs'[g] = 0 => lru'[g] = <<>>
    <3>1. g # p => lru'[g] = lru[g]
      BY <1>0, InsertFacts
    <3>2. shared_nrefs[p] > 0
      BY <1>0, HeldOpen
    <3>3. shared_nrefs[g] \in Nat /\ (shared_nrefs[g] = 0 => lru[g] = <<>>)
      BY <1>0, IdleCounts
    <3>4. shared_nrefs'[g] = 0 => shared_nrefs[g] = 0
      BY <2>5, <3>3
    <3> QED BY <3>1, <3>2, <3>3, <3>4
  <2>8. shared_nrefs'[g] = u + l + o + Cardinality(Parents(g)') + 0
    <3>1. u + l + o + P + 1 = u + l + o + (P + 1) + 0 /\ u + l + o + P = u + l + o + P + 0
      OBVIOUS
    <3> QED BY <3>1, <2>3, <2>4, <2>5
  <2> QED BY <1>0, <1>2, <2>2, <2>6, <2>7, <2>8 DEF Agrees
<1> QED BY <1>1, <1>2, <1>3, <1>4 DEF EfcInv, StackParts

\* A file that is opened outside the cache.
LEMMA UncachedInv ==
  ASSUME EfcInv, NEW p \in Files, NEW f \in Files, efc_open_uncached(p, f) PROVE EfcInv'
<1>0. Idle /\ EfcTypeOK /\ OneEntry /\ Idle'
  BY DEF EfcInv, efc_open_uncached, Idle
<1>1. /\ loose' = [loose EXCEPT ![f] = loose[f] + 1]
      /\ shared_nrefs' = [shared_nrefs EXCEPT ![f] = shared_nrefs[f] + 1]
      /\ UNCHANGED <<efc_nrefs, lru, tag, user, orphaned, found, calls>>
  BY DEF efc_open_uncached
<1>2. loose \in [Files -> Nat] /\ shared_nrefs \in [Files -> Nat]
  BY <1>0 DEF EfcTypeOK
<1>3. loose' \in [Files -> Nat] /\ shared_nrefs' \in [Files -> Nat]
  <2>1. loose[f] + 1 \in Nat /\ shared_nrefs[f] + 1 \in Nat
    BY <1>2
  <2> QED BY <1>1, <1>2, <2>1, ExceptType
<1>4. EfcTypeOK'
  BY <1>0, <1>1, <1>3 DEF EfcTypeOK
<1>5. StackParts' /\ \A g : Cardinality(TopsClosing(g)') = 0
  BY <1>0, IdleFacts, FS_EmptySet
<1>6. CountsAgree'
  <2>1. SUFFICES ASSUME NEW g \in Files PROVE Agrees(g)'
    BY DEF CountsAgree, Agrees
  <2>2. \/ loose'[g] = loose[g] /\ shared_nrefs'[g] = shared_nrefs[g]
        \/ loose'[g] = loose[g] + 1 /\ shared_nrefs'[g] = shared_nrefs[g] + 1
    BY <1>1, <1>2
  <2>3. /\ user[g] \in Nat /\ loose[g] \in Nat /\ orphaned[g] \in Nat /\ shared_nrefs[g] \in Nat
    BY <1>0, IdleCounts
  <2>4. /\ user'[g] = user[g] /\ orphaned'[g] = orphaned[g]
        /\ loose'[g] \in Nat /\ shared_nrefs'[g] \in Nat
    BY <1>1, <1>3
  <2>5. /\ shared_nrefs'[g] - user'[g] - loose'[g] - orphaned'[g] - 0
             = shared_nrefs[g] - user[g] - loose[g] - orphaned[g]
        /\ shared_nrefs'[g] >= shared_nrefs[g] /\ 0 \in Nat
    BY <2>2, <2>3, <2>4
  <2>6. user'[g] \in Nat /\ orphaned'[g] \in Nat
    BY <2>3, <2>4
  <2> QED BY <1>0, <1>1, <1>5, <2>4, <2>5, <2>6, CountsBegun
<1> QED BY <1>0, <1>1, <1>4, <1>5, <1>6 DEF EfcInv, StackParts, OneEntry

\* The eviction of an entry, with the close of its top under way.
LEMMA EvictInv ==
  ASSUME EfcInv, NEW p \in Files, NEW f \in Files, efc_open_evict(p, f) PROVE EfcInv'
<1>0. /\ EfcTypeOK /\ OneEntry /\ Held(p) /\ ~Cached(p, f) /\ ParentsHeld(user)
      /\ UNCHANGED <<shared_nrefs, tag, user, loose, orphaned, found>>
  BY DEF EfcInv, efc_open_evict, MustEvict, TOPS
<1>i. PICK i \in 1..Len(lru[p]) :
        /\ lru[p][i].nopen = 0 /\ remove_ent(p, lru[p][i].file) /\ Idle
        /\ calls' = <<Frame("efc_open", p, <<>>, {f}, 0),
                      Frame("H5F_try_close", lru[p][i].file, <<>>, {}, lru[p][i].objs)>>
  BY DEF efc_open_evict, Victim, Begin
<1>e. PICK ent \in EntryRecord : ent = lru[p][i] /\ ent \in Entries(p)
  BY <1>0, EntriesFacts
<1>g. PICK g \in Files : g = ent.file
  BY <1>e DEF EntryRecord
<1> DEFINE below == Frame("efc_open", p, <<>>, {f}, 0)
           frame == Frame("H5F_try_close", g, <<>>, {}, ent.objs)
<1>1. /\ below \in FrameRecord /\ below.fn = "efc_open" /\ below.file = p /\ below.files = {f}
  <2>1. "efc_open" \in Closing \cup Walking /\ <<>> \in Seq(EntryRecord) /\ 0 \in Nat
        /\ {f} \in SUBSET Files
    BY DEF Walking
  <2>2. below \in FrameRecord
    BY <2>1, FrameType
  <2> QED BY <2>2 DEF Frame
<1>2. /\ frame \in FrameRecord /\ frame.fn = "H5F_try_close" /\ frame.file = g
      /\ frame.objs = ent.objs
  <2>1. ent.objs \in Nat
    BY DEF EntryRecord
  <2> QED BY <2>1, TryCloseFrame
<1>3. calls' = <<below, frame>>
  BY <1>i, <1>e, <1>g
<1> HIDE DEF below, frame
<1>4. /\ remove_ent(p, g) /\ Idle /\ ent.nopen = 0 /\ g = lru[p][i].file
  BY <1>i, <1>e, <1>g
<1>5. /\ OneEntry'
      /\ \A q \in Files : q # p => Entries(q)' = Entries(q)
      /\ Entries(p)' \subseteq Entries(p)
      /\ \A e \in Entries(p) : e = ent \/ e \in Entries(p)'
  BY <1>0, <1>4, <1>e, RemoveEntEntries
<1>6. EfcTypeOK'
  <2>1. lru' \in [Files -> Seq(EntryRecord)]
    BY <1>0, <1>4, RemoveEntFacts
  <2>2. efc_nrefs' \in [Files -> Nat]
    <3>1. HasEFC(g) => efc_nrefs[g] >= 1
      <4>1. Cached(p, g)
        BY <1>e, <1>g DEF Cached
      <4>2. CountsAgree
        BY DEF EfcInv
      <4> QED BY <4>1, <4>2, <1>0, CachedCounts
    <3>2. efc_nrefs \in [Files -> Nat]
      BY <1>0 DEF EfcTypeOK
    <3>3. (IF HasEFC(g) THEN efc_nrefs[g] - 1 ELSE efc_nrefs[g]) \in Nat
      BY <3>1, <3>2
    <3>4. efc_nrefs' = [efc_nrefs EXCEPT ![g] = IF HasEFC(g) THEN efc_nrefs[g] - 1
                                                ELSE efc_nrefs[g]]
      BY <1>4 DEF remove_ent
    <3> QED BY <3>2, <3>3, <3>4, ExceptType
  <2>3. calls' \in Seq(FrameRecord)
    BY <1>1, <1>2, <1>3, StackType
  <2> QED BY <1>0, <2>1, <2>2, <2>3 DEF EfcTypeOK
<1>7. StackParts' /\ \A h : TopsClosing(h)' = IF g = h THEN {2} ELSE {}
  <2>1. ParentsHeld(user)'
    <3>1. \A q \in Files : Opened(q)' \subseteq Opened(q)
      BY <1>5 DEF Opened
    <3> QED BY <1>0, <3>1 DEF ParentsHeld
  <2>2. Held(p)' \/ (frame.file = p /\ frame.objs > 0)
    <3>1. ASSUME NEW q \in Files, NEW e \in Entries(q), e.file = p, e.nopen > 0 \/ e.objs > 0
          PROVE  e \in Entries(q)' \/ (ent.file = p /\ ent.objs > 0)
      BY <3>1, <1>4, <1>5
    <3> QED BY <3>1, <1>0, <1>2, <1>g DEF Held
  <2>3. ~Cached(p, f)'
    BY <1>0, <1>5 DEF Cached
  <2>4. /\ Held(below.file)' \/ (frame.file = below.file /\ frame.objs > 0)
        /\ \A h \in below.files : ~Cached(below.file, h)'
    BY <1>1, <2>2, <2>3
  <2>5. \A h : TopsClosing(h)' = IF frame.file = h THEN {2} ELSE {}
    BY <1>1, <1>2, <1>3, <2>1, <2>4, EvictFacts
  <2>6. StackParts'
    BY <1>1, <1>2, <1>3, <2>1, <2>4, EvictFacts
  <2> QED BY <1>2, <2>5, <2>6
<1>8. CountsAgree'
  <2>1. SUFFICES ASSUME NEW h \in Files PROVE Agrees(h)'
    BY DEF CountsAgree, Agrees
  <2>2. PICK u, l, o, P \in Nat : /\ u = user[h] /\ l = loose[h] /\ o = orphaned[h]
                                 /\ P = Cardinality(Parents(h))
    BY <1>4, IdleCounts
  <2>3. shared_nrefs[h] = u + l + o + P
    BY <1>4, <2>2, IdleCounts
  <2>4. /\ h # g => Cardinality(Parents(h)') = P
        /\ h = g => Cardinality(Parents(h)') = P - 1
    <3>1. /\ \A x \in Files : x # g => Parents(x)' = Parents(x)
          /\ Cardinality(Parents(g)') = Cardinality(Parents(g)) - 1
      BY <1>0, <1>4, ParentsAfter
    <3> QED BY <2>2, <3>1
  <2>5. /\ h # g => Cardinality(TopsClosing(h)') = 0
        /\ h = g => Cardinality(TopsClosing(h)') = 1
    <3>1. Cardinality({}) = 0 /\ Cardinality({2}) = 1
      BY FS_EmptySet, FS_Singleton
    <3> QED BY <1>7, <3>1
  <2>6. shared_nrefs[h] = u + l + o + Cardinality(Parents(h)') + Cardinality(TopsClosing(h)')
    <3>1. u + l + o + P = u + l + o + (P - 1) + 1 /\ u + l + o + P = u + l + o + P + 0
      OBVIOUS
    <3> QED BY <3>1, <2>3, <2>4, <2>5
  <2>7. HasEFC(h) => efc_nrefs'[h] = Cardinality(Parents(h)')
    <3>1. HasEFC(h) => efc_nrefs[h] = P
      BY <1>4, <2>2, IdleCounts
    <3>2. efc_nrefs'[h] = IF h = g /\ HasEFC(g) THEN efc_nrefs[h] - 1 ELSE efc_nrefs[h]
      <4>1. efc_nrefs \in [Files -> Nat]
        BY <1>0 DEF EfcTypeOK
      <4> QED BY <1>4, <4>1 DEF remove_ent
    <3> QED BY <2>4, <3>1, <3>2
  <2>8. shared_nrefs[h] = 0 => lru'[h] = <<>>
    <3>1. h # p => lru'[h] = lru[h]
      BY <1>0, <1>4, RemoveEntFacts
    <3>2. lru[p] # <<>>
      OBVIOUS
    <3>3. shared_nrefs[h] = 0 => lru[h] = <<>>
      BY <1>4, IdleCounts
    <3> QED BY <3>1, <3>2, <3>3
  <2> QED BY <1>0, <2>2, <2>6, <2>7, <2>8 DEF Agrees
<1> QED BY <1>5, <1>6, <1>7, <1>8 DEF EfcInv, StackParts
-----------------------------------------------------------------------------
\* The invariant holds initially.
LEMMA InitEfcInv == EfcInit => EfcInv
<1> SUFFICES ASSUME EfcInit PROVE EfcInv
  OBVIOUS
<1>1. Idle /\ Len(calls) = 0 /\ 1..Len(calls) = {}
  BY DEF EfcInit, Idle
<1>2. EfcTypeOK
  BY DEF EfcInit, EfcTypeOK, TAG_DEFAULT
<1>3. /\ ReleaseWalksList /\ Callers /\ PassesAlone /\ Locked /\ PassesUnlocked
      /\ PassedByOpen /\ ClientsHold /\ LastTop /\ EvictorHeld
  BY <1>1 DEF ReleaseWalksList, Callers, PassesAlone, Locked, PassesUnlocked, PassedByOpen,
     ClientsHold, LastTop, EvictorHeld
<1>4. OneEntry
  BY DEF EfcInit, OneEntry
<1>5. \A f \in Files : Parents(f) = {} /\ TopsClosing(f) = {}
  <2>1. \A p \in Files : Entries(p) = {}
    BY DEF EfcInit, Entries, ToSet
  <2> QED BY <2>1, <1>1 DEF Parents, Cached, TopsClosing
<1>6. CountsAgree
  <2>1. Cardinality({}) = 0
    BY FS_EmptySet
  <2>2. ASSUME NEW f \in Files PROVE Agrees(f)
    <3>1. /\ shared_nrefs[f] = 0 /\ user[f] = 0 /\ loose[f] = 0 /\ orphaned[f] = 0
          /\ efc_nrefs[f] = 0 /\ lru[f] = <<>>
      BY DEF EfcInit
    <3>2. Cardinality(Parents(f)) = 0 /\ Cardinality(TopsClosing(f)) = 0
      BY <1>5, <2>1
    <3> QED BY <3>1, <3>2 DEF Agrees
  <2> QED BY <2>2 DEF CountsAgree, Agrees
<1> QED BY <1>2, <1>3, <1>4, <1>6 DEF EfcInv

\* Every step keeps it.
LEMMA NextEfcInv == EfcInv /\ [EfcNext]_efc_vars => EfcInv'
<1> SUFFICES ASSUME EfcInv, [EfcNext]_efc_vars PROVE EfcInv'
  OBVIOUS
<1>1. CASE Step
  BY <1>1, StepInv
<1>2. ASSUME NEW f \in Files, open_file(f) PROVE EfcInv'
  BY <1>2, OpenFileInv
<1>3. ASSUME NEW f \in Files, close_object(f) PROVE EfcInv'
  <2>1. /\ \/ loose[f] > 0 /\ loose' = [loose EXCEPT ![f] = loose[f] - 1] /\ UNCHANGED orphaned
           \/ /\ orphaned[f] > 0 /\ orphaned' = [orphaned EXCEPT ![f] = orphaned[f] - 1]
              /\ UNCHANGED loose
        /\ Idle /\ calls' = <<Frame("H5F_try_close", f, <<>>, {}, 0)>> /\ ParentsHeld(user)
        /\ UNCHANGED <<shared_nrefs, efc_nrefs, lru, tag, user, found>> /\ 0 \in Nat
    BY <1>3 DEF close_object, Begin, At
  <2>2. ParentsHeld(user)'
    BY <2>1 DEF ParentsHeld, Opened, Entries
  <2> QED BY <2>1, <2>2, CloseInv
<1>4. ASSUME NEW f \in Files, efc_release(f) PROVE EfcInv'
  BY <1>4, ClearInv
<1>5. ASSUME NEW f \in Files, NEW objs \in 0..1, H5Fclose(f, objs) PROVE EfcInv'
  <2>1. /\ user[f] > 0 /\ user' = [user EXCEPT ![f] = user[f] - 1] /\ objs \in Nat
        /\ Idle /\ calls' = <<Frame("H5F_try_close", f, <<>>, {}, objs)>> /\ ParentsHeld(user')
        /\ UNCHANGED <<shared_nrefs, efc_nrefs, lru, tag, loose, orphaned, found>>
    BY <1>5 DEF H5Fclose, Begin
  <2>2. ParentsHeld(user)'
    BY <2>1 DEF ParentsHeld, Opened, Entries
  <2> QED BY <2>1, <2>2, CloseInv
<1>6. ASSUME NEW p \in Files, NEW f \in Files,
             \/ efc_open_hit(p, f) \/ efc_open_new(p, f) \/ efc_open_evict(p, f)
             \/ efc_open_uncached(p, f)
      PROVE  EfcInv'
  BY <1>6, HitInv, NewInv, EvictInv, UncachedInv
<1>7. ASSUME NEW f \in Files, NEW i \in 1..Len(lru[f]),
             efc_close(f, i) \/ open_object(f, i) \/ close_entry_object(f, i)
      PROVE  EfcInv'
  <2>1. PICK ent \in EntryRecord : ent = lru[f][i]
    <3>1. EfcTypeOK
      BY DEF EfcInv
    <3> QED BY <3>1, EntriesFacts
  <2>2. /\ [ent EXCEPT !.nopen = 0] \in EntryRecord /\ [ent EXCEPT !.nopen = 0].file = ent.file
        /\ [ent EXCEPT !.objs = 1] \in EntryRecord /\ [ent EXCEPT !.objs = 1].file = ent.file
        /\ [ent EXCEPT !.objs = 0] \in EntryRecord /\ [ent EXCEPT !.objs = 0].file = ent.file
    BY DEF EntryRecord
  <2>3. \E e \in EntryRecord : e.file = lru[f][i].file /\ ChangeEntry(f, i, e)
    BY <1>7, <2>1, <2>2 DEF efc_close, open_object, close_entry_object
  <2> QED BY <2>3, ChangeEntryInv
<1>8. CASE UNCHANGED efc_vars
  <2> USE <1>8 DEF efc_vars
  <2>1. EfcTypeOK' /\ OneEntry'
    BY DEF EfcInv, EfcTypeOK, OneEntry
  <2>2. CountsAgree'
    BY DEF EfcInv, CountsAgree, Parents, Cached, Entries, TopsClosing
  <2>3. ReleaseWalksList'
    BY DEF EfcInv, ReleaseWalksList, Releasing, Visited
  <2>4. Callers' /\ PassesAlone'
    BY DEF EfcInv, Callers, Caller, PassesAlone
  <2>5. Locked' /\ PassesUnlocked'
    BY DEF EfcInv, Locked, PassesUnlocked, Releasing
  <2>6. PassedByOpen' /\ LastTop'
    BY DEF EfcInv, PassedByOpen, LastTop, Releasing, Visited
  <2>7. ClientsHold'
    BY DEF EfcInv, ClientsHold, Idle, ParentsHeld, Opened, Entries
  <2>8. EvictorHeld'
    BY DEF EfcInv, EvictorHeld, Evictor, Held, Cached, Entries, Top
  <2> QED BY <2>1, <2>2, <2>3, <2>4, <2>5, <2>6, <2>7, <2>8 DEF EfcInv
<1> QED BY <1>1, <1>2, <1>3, <1>4, <1>5, <1>6, <1>7, <1>8 DEF EfcNext

\* The inductive invariant of the external file caches.
THEOREM EfcInvariant == EfcSpec => []EfcInv
BY InitEfcInv, NextEfcInv, PTL DEF EfcSpec

\* The state keeps its types; no counter of references falls below zero.
THEOREM EfcTypeCorrect == EfcSpec => []EfcTypeOK
<1>1. EfcInv => EfcTypeOK
  BY DEF EfcInv
<1> QED BY EfcInvariant, <1>1, PTL

\* The counters of references agree with the references at every step.
THEOREM CountsAgreeHolds == EfcSpec => []CountsAgree
<1>1. EfcInv => CountsAgree
  BY DEF EfcInv
<1> QED BY EfcInvariant, <1>1, PTL

\* The entry a release goes on to is still in the list.
THEOREM ReleaseWalksListHolds == EfcSpec => []ReleaseWalksList
<1>1. EfcInv => ReleaseWalksList
  BY DEF EfcInv
<1> QED BY EfcInvariant, <1>1, PTL
-----------------------------------------------------------------------------
(***************************************************************************)
(* What the passes of H5F__efc_try_close find.                             *)
(***************************************************************************)
\* A file is referenced otherwise than by the caches and by the calls from k on.
Rooted(f, k) ==
  \/ user[f] > 0 \/ loose[f] > 0 \/ orphaned[f] > 0
  \/ \E i \in TopsClosing(f) : i < k

\* Files that only each other's caches refer to, and the calls from k on; and a
\* file that is not among any such.
Unused(U, k) == \A f \in U : ~Rooted(f, k) /\ Parents(f) \subseteq U
Needed(f, k) == \A U \in SUBSET Files : Unused(U, k) => f \notin U

\* No file is kept open by caches alone.
NoGarbage ==
  \A U \in SUBSET Files : Unused(U, Len(calls) + 1) => \A f \in U : shared_nrefs[f] = 0

\* Only a file with a cache has entries.
NoCacheEmpty ==
  /\ \A f \in Files : ~HasEFC(f) => lru[f] = <<>>
  /\ \A i \in 1..Len(calls) : calls[i].fn = "efc_open" => HasEFC(calls[i].file)

\* H5F__dest leaves no file behind that only caches keep open.
DestRight ==
  Running("H5F__dest") /\ shared_nrefs[Top.file] > 1 => Needed(Top.file, Len(calls))

\* A run of the passes, of which there is one at a time.
Runs == {"pass1", "pass2", "cleanup"}
Run(r) == r \in 1..Len(calls) /\ calls[r].fn \in Runs
OneRun == \A i, j \in 1..Len(calls) : Run(i) /\ Run(j) => i = j

\* The walks of a run over the caches.
Tagging(i) == i \in 1..Len(calls) /\ calls[i].fn \in {"tag1", "tag2"}
WalkOf(frame) ==
  /\ \A k \in 1..Len(frame.entries) : frame.entries[k] \in Entries(frame.file)
  /\ \A k, l \in 1..Len(frame.entries) :
       frame.entries[k].file = frame.entries[l].file => k = l
TagWalks == \A i \in 1..Len(calls) : Tagging(i) => WalkOf(calls[i])

\* Each walk is called for by its pass.
TagInPass ==
  \A i \in 1..Len(calls) :
    /\ calls[i].fn = "tag1" => \E r \in 1..i - 1 : calls[r].fn = "pass1"
    /\ calls[i].fn = "tag2" => \E r \in 1..i - 1 : calls[r].fn = "pass2"

\* The walk over the cache of p has still to come to g.
Coming(i, p, g) ==
  /\ Tagging(i) /\ calls[i].file = p
  /\ \E k \in 1..Len(calls[i].entries) : calls[i].entries[k].file = g
Ahead(p, g) == \E i \in 1..Len(calls) : Coming(i, p, g)

\* The caches in which pass 1, having visited V, has not seen g.
Unseen(g, V) == {p \in Parents(g) : p \in V => Ahead(p, g)}

\* Pass 1 of run r has visited V.
Pass1OK(r, V) ==
  /\ calls[r].file \in found /\ found \subseteq V
  /\ \A i \in r + 1..Len(calls) : calls[i].file \in V
  /\ \A i, j \in r + 1..Len(calls) : calls[i].file = calls[j].file => i = j
  /\ \A g \in V : HasEFC(g) /\ ~Rooted(g, r)
  /\ \A g \in found : tag[g] = Cardinality(Unseen(g, V)) /\ shared_nrefs[g] > 1
  /\ \A g \in V \ found : shared_nrefs[g] = 1 /\ Unseen(g, V) = {}
  /\ \A g \in Files \ V : HasEFC(g) /\ ~Rooted(g, r) => Unseen(g, V) = Parents(g)
  /\ \A g \in Files \ found : tag[g] \in {TAG_DEFAULT, TAG_LOCK}

\* Pass 2 has reached X from the files of V that keep a reference.
Pass2OK(r, V, X) ==
  /\ calls[r].file \in V /\ X \subseteq V
  /\ shared_nrefs[calls[r].file] > 1
  /\ \A g \in V : HasEFC(g) /\ ~Rooted(g, r) /\ shared_nrefs[g] > 0
  /\ \A g \in V : IF shared_nrefs[g] > 1 THEN tag[g] \in {TAG_CLOSE, TAG_DONTCLOSE}
                                         ELSE tag[g] = TAG_DEFAULT
  /\ \A g \in V \ X : Parents(g) \subseteq V
  /\ found = {g \in V : tag[g] = TAG_DONTCLOSE}
  /\ found = {g \in X : shared_nrefs[g] > 1}
  /\ \A g \in Files \ V : \A p \in V \cap Parents(g) : ~HasEFC(g) \/ Rooted(g, r)
  /\ calls[r].files \subseteq X
  /\ \A i \in r + 1..Len(calls) : calls[i].file \in X
  /\ \A x \in X \ calls[r].files : \A g \in V \ X : x \in Parents(g) => Ahead(x, g)
  /\ \A x \in X : Needed(x, r)
  /\ \A g \in Files \ V : tag[g] \in {TAG_DEFAULT, TAG_LOCK}

\* Pass 3 closes the files of W and leaves the others of V alone.
CleanupOK(r, V, W) ==
  /\ calls[r].file \in V /\ W \subseteq V
  /\ \A g \in V : HasEFC(g) /\ ~Rooted(g, r)
  /\ Unused(W, r)
  /\ \A i \in r + 1..Len(calls) : \A g \in Files : calls[i].file = g =>
       IF Releasing(i) THEN g \in W ELSE g \in V \/ ~HasEFC(g) \/ Rooted(g, r)
  /\ \A g \in Files \ V : \A p \in W \cap Parents(g) : ~HasEFC(g) \/ Rooted(g, r)
  /\ \A g \in V \ W :
       /\ Needed(g, r)
       /\ IF g \in calls[r].files THEN tag[g] = TAG_DONTCLOSE
                                  ELSE tag[g] = TAG_DEFAULT /\ shared_nrefs[g] <= 1
  /\ calls[r].files \subseteq V \ W
  /\ \A g \in W : /\ tag[g] \in {TAG_CLOSE, TAG_LOCK, TAG_DEFAULT}
                  /\ tag[g] = TAG_DEFAULT /\ shared_nrefs[g] > 1 => lru[g] = <<>>
  /\ r = Len(calls) /\ calls[r].file \in W =>
       tag[calls[r].file] = TAG_DEFAULT /\ lru[calls[r].file] = <<>>
  /\ \A g \in Files \ V : tag[g] \in {TAG_DEFAULT, TAG_LOCK}

\* The runs under way are right, and without one there are no tags of its own.
Pass1Right == \A r \in 1..Len(calls) :
                calls[r].fn = "pass1" => \E V \in SUBSET Files : Pass1OK(r, V)
Pass2Right == \A r \in 1..Len(calls) :
                calls[r].fn = "pass2" => \E V, X \in SUBSET Files : Pass2OK(r, V, X)
CleanupRight == \A r \in 1..Len(calls) :
                  calls[r].fn = "cleanup" => \E V, W \in SUBSET Files : CleanupOK(r, V, W)
RunTags ==
  /\ (\A r \in 1..Len(calls) : ~Run(r)) =>
       \A f \in Files : tag[f] \in {TAG_DEFAULT, TAG_LOCK}
  /\ (\A r \in 1..Len(calls) : calls[r].fn \notin {"pass1", "pass2"}) => found = {}

\* What the lock of a cache means; a closed file has no tag.
TagsTell ==
  \A f \in Files :
    /\ tag[f] = TAG_LOCK => \E i \in 1..Len(calls) : Releasing(i) /\ calls[i].file = f
    /\ shared_nrefs[f] = 0 => tag[f] = TAG_DEFAULT

\* A release that H5F__dest follows is part of pass 3.
DestInRun ==
  \A i \in 1..Len(calls) : Releasing(i) /\ i > 1 /\ calls[i - 1].fn = "H5F__dest" =>
     \E r \in 1..i - 1 : calls[r].fn = "cleanup"

ReachInv == /\ NoGarbage /\ NoCacheEmpty /\ DestRight /\ OneRun /\ TagWalks /\ TagInPass
            /\ Pass1Right /\ Pass2Right /\ CleanupRight /\ RunTags /\ TagsTell /\ DestInRun

-----------------------------------------------------------------------------
\* The references of a file that only caches and the calls from k on refer to.
LEMMA OutsideCount ==
  ASSUME EfcTypeOK, CountsAgree, NEW f \in Files, NEW k \in Nat, ~Rooted(f, k)
  PROVE  /\ user[f] = 0 /\ loose[f] = 0 /\ orphaned[f] = 0
         /\ shared_nrefs[f] = Cardinality(Parents(f)) + Cardinality(TopsClosing(f))
         /\ \A i \in TopsClosing(f) : i >= k
         /\ Cardinality(Parents(f)) \in Nat /\ Cardinality(TopsClosing(f)) \in Nat
<1>1. /\ user[f] = 0 /\ loose[f] = 0 /\ orphaned[f] = 0
      /\ \A i \in TopsClosing(f) : i >= k
  <2>1. \A i \in TopsClosing(f) : i \in Nat
    BY DEF TopsClosing
  <2> QED BY <2>1 DEF Rooted, EfcTypeOK
<1>2. Cardinality(Parents(f)) \in Nat /\ Cardinality(TopsClosing(f)) \in Nat
  BY CountsFacts
<1>3. shared_nrefs[f] = user[f] + loose[f] + orphaned[f]
                        + Cardinality(Parents(f)) + Cardinality(TopsClosing(f))
  BY DEF CountsAgree
<1> QED BY <1>1, <1>2, <1>3

\* A file that is referenced from elsewhere has two references besides those of
\* the caches while a call from k on closes a top of it.
LEMMA RootedCount ==
  ASSUME EfcTypeOK, CountsAgree, NEW f \in Files, NEW k \in Nat, Rooted(f, k),
         NEW j \in TopsClosing(f), j >= k
  PROVE  /\ shared_nrefs[f] >= Cardinality(Parents(f)) + 2
         /\ Cardinality(Parents(f)) \in Nat
<1>1. /\ user[f] \in Nat /\ loose[f] \in Nat /\ orphaned[f] \in Nat
      /\ Cardinality(Parents(f)) \in Nat /\ Cardinality(TopsClosing(f)) \in Nat
      /\ IsFiniteSet(TopsClosing(f))
  BY CountsFacts DEF EfcTypeOK
<1>2. Cardinality(TopsClosing(f)) >= 1
  BY <1>1, FS_EmptySet
<1>3. \/ user[f] > 0 \/ loose[f] > 0 \/ orphaned[f] > 0
      \/ Cardinality(TopsClosing(f)) >= 2
  <2>1. ASSUME NEW i \in TopsClosing(f), i < k PROVE Cardinality(TopsClosing(f)) >= 2
    <3>1. i # j
      BY <2>1 DEF TopsClosing
    <3>2. Cardinality({i, j}) = 2
      BY <3>1, TwoElements
    <3>3. Cardinality({i, j}) <= Cardinality(TopsClosing(f))
      BY <1>1, FS_Subset
    <3> QED BY <3>2, <3>3
  <2> QED BY <2>1 DEF Rooted
<1>4. shared_nrefs[f] = user[f] + loose[f] + orphaned[f]
                        + Cardinality(Parents(f)) + Cardinality(TopsClosing(f))
  BY DEF CountsAgree
<1> QED BY <1>1, <1>2, <1>3, <1>4

\* A cache that holds a file is that of an open file, and the file is open.
LEMMA ParentFacts ==
  ASSUME EfcTypeOK, CountsAgree, NoCacheEmpty, NEW f \in Files, NEW p \in Parents(f)
  PROVE  /\ p \in Files /\ HasEFC(p) /\ lru[p] # <<>>
         /\ shared_nrefs[p] > 0 /\ shared_nrefs[f] > 0
<1>1. p \in Files /\ Cached(p, f)
  BY DEF Parents
<1>2. lru[p] # <<>>
  <2>1. PICK e \in Entries(p) : e.file = f
    BY <1>1 DEF Cached
  <2>2. PICK i \in 1..Len(lru[p]) : TRUE
    BY <1>1, <2>1, EntriesFacts
  <2>3. Len(lru[p]) # 0
    BY <2>2
  <2> QED BY <2>3
<1>3. HasEFC(p) /\ shared_nrefs[p] \in Nat /\ shared_nrefs[p] # 0
  BY <1>1, <1>2 DEF NoCacheEmpty, CountsAgree, EfcTypeOK
<1>4. shared_nrefs[f] > 0
  <2>1. Cardinality(Parents(f)) \in Nat \ {0}
    BY <1>1, CachedCounts
  <2>2. Cardinality(TopsClosing(f)) \in Nat
    BY CountsFacts
  <2>3. user[f] \in Nat /\ loose[f] \in Nat /\ orphaned[f] \in Nat
    BY DEF EfcTypeOK
  <2>4. shared_nrefs[f] = user[f] + loose[f] + orphaned[f]
                          + Cardinality(Parents(f)) + Cardinality(TopsClosing(f))
    BY DEF CountsAgree
  <2> QED BY <2>1, <2>2, <2>3, <2>4
<1> QED BY <1>1, <1>2, <1>3, <1>4

\* A file whose cache a call before k releases is kept open by its identifier or
\* by the call that makes the release.
LEMMA ReleasedRooted ==
  ASSUME EfcTypeOK, Callers, NEW j, Releasing(j), NEW k \in Nat, j <= k
  PROVE  Rooted(calls[j].file, k)
<1>1. j \in 1..Len(calls) /\ calls[j].fn = "efc_release_real" /\ Caller(j)
  BY DEF Releasing, Callers
<1>2. CASE j = 1
  BY <1>1, <1>2 DEF Caller, Rooted
<1>3. CASE j # 1
  <2>1. Len(calls) \in Nat
    BY DEF EfcTypeOK
  <2>2. j - 1 \in TopsClosing(calls[j].file) /\ j - 1 < k
    BY <1>1, <1>3, <2>1 DEF Caller, TopsClosing, Closing
  <2> QED BY <2>2 DEF Rooted
<1> QED BY <1>2, <1>3

\* So is a file whose cache has clients.
LEMMA ClientRooted ==
  ASSUME ClientsHold, ~Idle, NEW p \in Files, NEW e \in Entries(p), e.nopen > 0, NEW k
  PROVE  user[p] > 0 /\ Rooted(p, k)
BY DEF ClientsHold, ParentsHeld, Opened, Rooted

\* Being needed does not depend on the calls from l on, if not on those from k on.
LEMMA NeededLater ==
  ASSUME EfcTypeOK, NEW f, NEW k \in Nat, NEW l \in Nat, k <= l, Needed(f, k)
  PROVE  Needed(f, l)
<1> SUFFICES ASSUME NEW U \in SUBSET Files, Unused(U, l) PROVE f \notin U
  BY DEF Needed
<1>1. \A g : \A i \in TopsClosing(g) : i \in Nat
  BY DEF TopsClosing
<1>2. Unused(U, k)
  BY <1>1 DEF Unused, Rooted
<1> QED BY <1>2 DEF Needed

\* A file that a cache of a needed file holds is needed.
LEMMA NeededChild ==
  ASSUME NEW f, NEW p \in Parents(f), NEW k, Needed(p, k)
  PROVE  Needed(f, k)
BY DEF Needed, Unused

\* So is a file that is referenced from elsewhere.
LEMMA RootedNeeded ==
  ASSUME NEW f, NEW k, Rooted(f, k) PROVE Needed(f, k)
BY DEF Needed, Unused

\* The last reference of a file: the call that closes it.
LEMMA LastUnused ==
  ASSUME EfcTypeOK, CountsAgree, NEW f \in Files, shared_nrefs[f] <= 1,
         NEW k \in TopsClosing(f), NEW r \in Nat, r <= k
  PROVE  ~Rooted(f, r) /\ Parents(f) = {} /\ ~Needed(f, r)
<1>1. /\ user[f] = 0 /\ loose[f] = 0 /\ orphaned[f] = 0 /\ TopsClosing(f) = {k}
      /\ Cardinality(Parents(f)) = 0
  BY LastReference
<1>2. k \in Nat
  BY DEF TopsClosing
<1>3. ~Rooted(f, r)
  BY <1>1, <1>2 DEF Rooted
<1>4. Parents(f) = {}
  BY <1>1, CountsFacts, FS_EmptySet
<1>5. Unused({f}, r)
  BY <1>3, <1>4 DEF Unused
<1> QED BY <1>3, <1>4, <1>5 DEF Needed

\* A file without entries of which the last of the calls that close something
\* closes a top, is needed if it has other references.
LEMMA EmptyDecides ==
  ASSUME EfcTypeOK, CountsAgree, NoCacheEmpty, NoGarbage,
         NEW f \in Files, NEW k \in TopsClosing(f),
         \A i \in k + 1..Len(calls) : calls[i].fn \notin Closing,
         lru[f] = <<>>, shared_nrefs[f] > 1
  PROVE  Needed(f, k)
<1> SUFFICES ASSUME NEW U \in SUBSET Files, Unused(U, k), f \in U PROVE FALSE
  BY DEF Needed
<1>n. k \in Nat /\ Len(calls) \in Nat /\ k \in 1..Len(calls) /\ calls[k].file = f
  BY DEF TopsClosing, EfcTypeOK
<1>1. Unused(U \ {f}, Len(calls) + 1)
  <2> SUFFICES ASSUME NEW g \in U \ {f}
               PROVE  ~Rooted(g, Len(calls) + 1) /\ Parents(g) \subseteq U \ {f}
    BY DEF Unused
  <2>1. ~Rooted(g, k) /\ Parents(g) \subseteq U
    BY DEF Unused
  <2>2. TopsClosing(g) = {}
    <3>1. ASSUME NEW i \in TopsClosing(g) PROVE FALSE
      <4>1. i \in 1..Len(calls) /\ calls[i].fn \in Closing /\ calls[i].file = g
        BY DEF TopsClosing
      <4>2. i \notin k + 1..Len(calls)
        BY <4>1
      <4>3. i < k
        BY <4>1, <4>2, <1>n
      <4> QED BY <4>3, <2>1 DEF Rooted
    <3> QED BY <3>1
  <2>3. f \notin Parents(g)
    BY ParentFacts
  <2> QED BY <2>1, <2>2, <2>3 DEF Rooted
<1>2. \A g \in U \ {f} : shared_nrefs[g] = 0
  BY <1>1 DEF NoGarbage
<1>3. Parents(f) = {}
  <2>1. ASSUME NEW p \in Parents(f) PROVE FALSE
    <3>1. shared_nrefs[p] > 0 /\ lru[p] # <<>>
      BY ParentFacts
    <3>2. p \in U \ {f}
      BY <3>1 DEF Unused
    <3> QED BY <1>2, <3>1, <3>2
  <2> QED BY <2>1
<1>4. TopsClosing(f) = {k}
  <2>1. ~Rooted(f, k)
    BY DEF Unused
  <2>2. ASSUME NEW i \in TopsClosing(f) PROVE i = k
    <3>1. i \in 1..Len(calls) /\ calls[i].fn \in Closing
      BY DEF TopsClosing
    <3>2. i \notin k + 1..Len(calls)
      BY <3>1
    <3>3. ~(i < k)
      BY <2>1 DEF Rooted
    <3> QED BY <3>1, <3>2, <3>3, <1>n
  <2> QED BY <2>2
<1>5. shared_nrefs[f] = Cardinality(Parents(f)) + Cardinality(TopsClosing(f))
  BY <1>n, OutsideCount DEF Unused
<1>6. Cardinality(Parents(f)) = 0 /\ Cardinality(TopsClosing(f)) = 1
  BY <1>3, <1>4, FS_EmptySet, FS_Singleton
<1> QED BY <1>5, <1>6

-----------------------------------------------------------------------------
\* Which call is running in which step.
LEMMA StepCases ==
  ASSUME Step
  PROVE  /\ ~Idle
         /\ \/ /\ Top.fn = "H5F_try_close"
               /\ \/ try_close_objects \/ try_close_top \/ try_close_reentered
                  \/ try_close_root
            \/ Top.fn = "cleanup" /\ try_close_cleanup
            \/ Top.fn = "pass1" /\ (pass1_keep \/ pass1_mark)
            \/ Top.fn = "tag1" /\ (tag1_return \/ tag1_entry)
            \/ Top.fn = "pass2" /\ (pass2_file \/ pass2_done)
            \/ Top.fn = "tag2" /\ (tag2_return \/ tag2_entry)
            \/ /\ Top.fn = "efc_release_real"
               /\ release_entry \/ release_skip \/ release_return
            \/ Top.fn = "H5F__dest" /\ (dest_top \/ dest_efc \/ dest_shared)
            \/ Top.fn = "efc_destroy" /\ dest_shared
            \/ Top.fn = "efc_open" /\ efc_open_evicted
<1>1. ASSUME TryClose
      PROVE  \/ /\ Running("H5F_try_close")
                /\ \/ try_close_objects \/ try_close_top \/ try_close_reentered
                   \/ try_close_root
             \/ Running("cleanup") /\ try_close_cleanup
  BY <1>1 DEF TryClose, try_close_objects, try_close_top, try_close_reentered,
     try_close_root, try_close_cleanup
<1>2. ASSUME Pass1
      PROVE  \/ Running("pass1") /\ (pass1_keep \/ pass1_mark)
             \/ Running("tag1") /\ (tag1_return \/ tag1_entry)
  BY <1>2 DEF Pass1, tag1_return, tag1_entry, pass1_keep, pass1_mark
<1>3. ASSUME Pass2
      PROVE  \/ Running("pass2") /\ (pass2_file \/ pass2_done)
             \/ Running("tag2") /\ (tag2_return \/ tag2_entry)
  BY <1>3 DEF Pass2, tag2_return, tag2_entry, pass2_file, pass2_done
<1>4. ASSUME ReleaseStep
      PROVE  /\ Running("efc_release_real")
             /\ release_entry \/ release_skip \/ release_return
  BY <1>4 DEF ReleaseStep, release_entry, release_skip, release_return
<1>5. ASSUME Dest
      PROVE  \/ Running("H5F__dest") /\ (dest_top \/ dest_efc \/ dest_shared)
             \/ Running("efc_destroy") /\ dest_shared
  BY <1>5 DEF Dest, dest_top, dest_efc, dest_shared
<1>6. efc_open_evicted => Running("efc_open")
  BY DEF efc_open_evicted
<1> QED BY <1>1, <1>2, <1>3, <1>4, <1>5, <1>6 DEF Step, Running

\* How long the stack is after a step; the calls below the running one stay, and
\* the running one stays for its file.
LEMMA StackAfter ==
  ASSUME EfcTypeOK, Step, NEW n, n = Len(calls)
  PROVE  /\ n \in Nat \ {0} /\ Top \in FrameRecord /\ Top = calls[n] /\ n \in 1..Len(calls)
         /\ Len(calls') \in {n - 1, n, n + 1}
         /\ \A i \in 1..n - 1 : calls'[i] = calls[i] /\ i \in 1..Len(calls) /\ i \in 1..Len(calls')
         /\ n <= Len(calls') => /\ calls'[n].file = Top.file
                                /\ \/ calls'[n].fn = Top.fn
                                   \/ calls'[n].fn \in Closing /\ Top.fn \in Closing
<1>1. Moves(StackStep)
  BY StepMoves
<1>2. n \in Nat \ {0} /\ Top \in FrameRecord /\ Top = calls[n] /\ n \in 1..Len(calls)
  BY <1>1 DEF Moves, Top
<1>3. CASE Popped
  BY <1>2, <1>3 DEF Popped
<1>4. ASSUME NEW frame, Stays(frame) PROVE Len(calls') = n /\ calls'[n] = frame
  BY <1>2, <1>4 DEF Stays, Replaced
<1>5. ASSUME NEW frame, NEW callee, Nests(callee, frame)
      PROVE  Len(calls') = n + 1 /\ calls'[n] = frame
  BY <1>2, <1>5 DEF Nests, Pushed
<1>6. \A i \in 1..n - 1 : calls'[i] = calls[i]
  BY <1>1, <1>2 DEF Moves, StackStep, Popped, Stays, Replaced, Nests, Pushed
<1>7. Len(calls') \in {n - 1, n, n + 1}
  BY <1>1, <1>2, <1>4, <1>5 DEF Moves, StackStep, Popped
<1>8. n <= Len(calls') => /\ calls'[n].file = Top.file
                          /\ \/ calls'[n].fn = Top.fn
                             \/ calls'[n].fn \in Closing /\ Top.fn \in Closing
  <2>1. CASE Popped
    BY <1>2, <2>1 DEF Popped
  <2>2. ASSUME NEW frame \in FrameRecord, Stays(frame) \/ \E callee : Nests(callee, frame)
        PROVE  /\ calls'[n].file = Top.file
               /\ \/ calls'[n].fn = Top.fn
                  \/ calls'[n].fn \in Closing /\ Top.fn \in Closing
    BY <1>4, <1>5, <2>2 DEF Stays, Nests, SameKind
  <2> QED BY <1>1, <2>1, <2>2 DEF Moves, StackStep
<1> QED BY <1>2, <1>6, <1>7, <1>8

\* The tops outside the caches are left alone.
LEMMA TopsKept ==
  ASSUME Step, ~try_close_objects
  PROVE  user' = user /\ loose' = loose /\ orphaned' = orphaned
<1>1. TryClose => UNCHANGED TOPS
  BY DEF TryClose, try_close_top, try_close_reentered, try_close_root, try_close_cleanup,
     UNCHANGED_COUNTS
<1>2. Pass1 \/ Pass2 => UNCHANGED TOPS
  BY DEF Pass1, Pass2, tag1_return, tag1_entry, pass1_keep, pass1_mark, tag2_return,
         tag2_entry, pass2_file, pass2_done, UNCHANGED_COUNTS
<1>3. ReleaseStep \/ Dest => UNCHANGED TOPS
  BY DEF ReleaseStep, release_entry, release_skip, release_return, Dest, dest_top, dest_efc,
         dest_shared, UNCHANGED_COUNTS
<1>4. efc_open_evicted => UNCHANGED TOPS
  BY DEF efc_open_evicted, insert, UNCHANGED_COUNTS
<1> QED BY <1>1, <1>2, <1>3, <1>4 DEF Step, TOPS

\* What keeps a file open besides the calls from k on is so after a step.
LEMMA RootedKept ==
  ASSUME EfcTypeOK, Step, ~try_close_objects, NEW k \in Nat, k <= Len(calls), NEW f
  PROVE  Rooted(f, k)' <=> Rooted(f, k)
<1>1. user' = user /\ loose' = loose /\ orphaned' = orphaned
  BY TopsKept
<1>n. PICK n \in Nat \ {0} : n = Len(calls)
  BY StackAfter
<1>2. \A i : i < k => (i \in TopsClosing(f)' <=> i \in TopsClosing(f))
  <2> SUFFICES ASSUME NEW i, i < k PROVE i \in TopsClosing(f)' <=> i \in TopsClosing(f)
    OBVIOUS
  <2>1. CASE i \in 1..n - 1
    BY <1>n, <2>1, StackAfter DEF TopsClosing
  <2>2. CASE i \notin 1..n - 1
    <3>1. Len(calls') \in Nat
      BY <1>n, StackAfter
    <3>2. i \notin 1..Len(calls) /\ i \notin 1..Len(calls')
      BY <1>n, <2>2, <3>1
    <3> QED BY <3>2 DEF TopsClosing
  <2> QED BY <2>1, <2>2
<1>3. (\E i \in TopsClosing(f) : i < k) <=> (\E i \in TopsClosing(f)' : i < k)
  BY <1>2
<1> QED BY <1>1, <1>3 DEF Rooted

\* Everything that keeps a file open besides the caches.
LEMMA AllRooted ==
  ASSUME EfcTypeOK, NEW f
  PROVE  Rooted(f, Len(calls) + 1) <=>
           user[f] > 0 \/ loose[f] > 0 \/ orphaned[f] > 0 \/ TopsClosing(f) # {}
<1>1. Len(calls) \in Nat /\ \A i \in TopsClosing(f) : i \in 1..Len(calls)
  BY DEF EfcTypeOK, TopsClosing
<1>2. \A i \in TopsClosing(f) : i < Len(calls) + 1
  BY <1>1
<1> QED BY <1>2 DEF Rooted

\* A step that changes none of the counts.
LEMMA QuietFacts ==
  ASSUME EfcInv, Step, ~try_close_objects, ~dest_top, ~dest_shared, ~release_entry,
         ~efc_open_evicted \/ UNCHANGED_COUNTS
  PROVE  /\ shared_nrefs' = shared_nrefs /\ efc_nrefs' = efc_nrefs /\ lru' = lru
         /\ \A f \in Files : /\ Parents(f)' = Parents(f) /\ Entries(f)' = Entries(f)
                             /\ TopsClosing(f)' = TopsClosing(f)
<1>1. UNCHANGED_COUNTS
  <2>1. TryClose => UNCHANGED_COUNTS
    BY DEF TryClose, try_close_top, try_close_reentered, try_close_root, try_close_cleanup
  <2>2. Pass1 \/ Pass2 => UNCHANGED_COUNTS
    BY DEF Pass1, Pass2, tag1_return, tag1_entry, pass1_keep, pass1_mark, tag2_return,
           tag2_entry, pass2_file, pass2_done
  <2>3. ReleaseStep \/ Dest => UNCHANGED_COUNTS
    BY DEF ReleaseStep, release_skip, release_return, Dest, dest_efc
  <2> QED BY <2>1, <2>2, <2>3 DEF Step
<1>2. EfcTypeOK
  BY DEF EfcInv
<1>3. \A f \in Files : TopsClosing(f)' = TopsClosing(f)
  BY <1>2, QuietSteps
<1>4. lru' = lru => \A f : Parents(f)' = Parents(f) /\ Entries(f)' = Entries(f)
  BY DEF Parents, Cached, Entries
<1> QED BY <1>1, <1>3, <1>4 DEF UNCHANGED_COUNTS

\* The release of an entry takes it from the cache and calls for the close of its
\* top.
LEMMA ReleaseEntryFacts ==
  ASSUME EfcInv, release_entry
  PROVE  \E p, g \in Files :
            /\ p = Top.file /\ g = Head(Top.entries).file /\ p \in Parents(g)
            /\ Parents(g)' = Parents(g) \ {p}
            /\ \A h \in Files : h # g => Parents(h)' = Parents(h)
            /\ \A q \in Files : Entries(q)' \subseteq Entries(q)
            /\ lru[p] # <<>> /\ \A q \in Files : q # p => lru'[q] = lru[q]
            /\ Len(calls) + 1 \in TopsClosing(g)'
            /\ \A h \in Files : h # g => TopsClosing(h)' = TopsClosing(h)
            /\ \E callee \in FrameRecord :
                 /\ callee.fn = "H5F_try_close" /\ callee.file = g
                 /\ Nests(callee, Later)
            /\ Later \in FrameRecord /\ Later.fn = "efc_release_real" /\ Later.file = p
<1>0. EfcTypeOK /\ ReleaseWalksList /\ OneEntry /\ ~Idle /\ Step
  BY DEF EfcInv, release_entry, Running, Step, ReleaseStep
<1>1. Top.fn = "efc_release_real" /\ Top.entries # <<>>
  BY DEF release_entry, Running
<1>2. PICK p \in Files : p = Top.file
  BY <1>0, <1>1, AtEntry
<1>3. PICK v \in 1..Len(lru[p]) : Head(Top.entries) = lru[p][v]
  BY <1>0, <1>1, <1>2, AtEntry
<1>4. PICK g \in Files : g = lru[p][v].file /\ g = Head(Top.entries).file
  BY <1>0, <1>3, EntriesFacts
<1>5. remove_ent(p, lru[p][v].file)
  BY <1>2, <1>3 DEF release_entry
<1>6. Cached(p, g) /\ lru[p] # <<>>
  <2>1. Cached(p, g)
    BY <1>0, <1>4, EntriesFacts
  <2>2. Len(lru[p]) # 0
    BY <1>3
  <2> QED BY <2>1, <2>2
<1>7. /\ \A q \in Files : q # p => Entries(q)' = Entries(q)
      /\ Entries(p)' \subseteq Entries(p)
      /\ \A e \in Entries(p)' : e.file # lru[p][v].file
  BY <1>0, <1>5, RemoveEntEntries
<1>8. Parents(g)' = Parents(g) \ {p}
  <2>1. \A q \in Files : q # p => (Cached(q, g)' <=> Cached(q, g))
    BY <1>7 DEF Cached
  <2>2. ~Cached(p, g)'
    BY <1>4, <1>7 DEF Cached
  <2> QED BY <2>1, <2>2 DEF Parents
<1>9. \A h \in Files : h # g => Parents(h)' = Parents(h)
  BY <1>0, <1>4, <1>5, ParentsAfter
<1>10. \A q \in Files : q # p => lru'[q] = lru[q]
  BY <1>0, <1>5, RemoveEntFacts
<1>11. Later \in FrameRecord /\ Later.fn = "efc_release_real" /\ Later.file = p
       /\ Head(Top.entries) \in EntryRecord
  BY <1>0, <1>1, <1>2, LaterFacts
<1>12. PICK callee \in FrameRecord : /\ callee.fn = "H5F_try_close" /\ callee.file = g
                                     /\ Pushed(callee, Later)
  <2> DEFINE c == Frame("H5F_try_close", g, <<>>, {}, Head(Top.entries).objs)
  <2>1. Pushed(c, Later)
    BY <1>0, <1>4, OtherMoves DEF Moves
  <2>2. c \in FrameRecord /\ c.fn = "H5F_try_close" /\ c.file = g
    <3>1. Head(Top.entries).objs \in Nat
      BY <1>11 DEF EntryRecord
    <3> QED BY <3>1, TryCloseFrame
  <2> QED BY <2>1, <2>2
<1>13. Nests(callee, Later)
  BY <1>1, <1>2, <1>11, <1>12 DEF Nests, SameKind, MayCall, Closing
<1>14. Moves(StackStep)
  BY <1>0, StepMoves
<1>15. \A h \in Files : h # g => TopsClosing(h)' = TopsClosing(h)
  BY <1>0, <1>11, <1>12, <1>13, <1>14, TopsAfter
<1>16. Len(calls) + 1 \in TopsClosing(g)'
  BY <1>12, <1>14 DEF Pushed, TopsClosing, Moves, Closing
<1>17. p \in Parents(g) /\ \A q \in Files : Entries(q)' \subseteq Entries(q)
  BY <1>6, <1>7 DEF Parents
<1> QED BY <1>2, <1>4, <1>6, <1>8, <1>9, <1>10, <1>11, <1>12, <1>13, <1>15, <1>16, <1>17

\* H5F__dest gives up a top.
LEMMA DestFacts ==
  ASSUME EfcInv, dest_top \/ dest_shared
  PROVE  LET f == Top.file
             n == Len(calls)
         IN /\ Top.fn \in Closing /\ f \in Files /\ n \in TopsClosing(f) /\ Popped
            /\ lru' = lru /\ found' = found
            /\ \A h \in Files : Parents(h)' = Parents(h) /\ Entries(h)' = Entries(h)
            /\ \A h \in Files : h # f => /\ TopsClosing(h)' = TopsClosing(h)
                                         /\ shared_nrefs'[h] = shared_nrefs[h]
                                         /\ tag'[h] = tag[h]
            /\ dest_top => /\ shared_nrefs'[f] = shared_nrefs[f] - 1 /\ shared_nrefs[f] > 1
                           /\ tag' = tag
            /\ dest_shared => /\ shared_nrefs[f] <= 1 /\ shared_nrefs'[f] = 0
                              /\ lru[f] = <<>> /\ tag'[f] = TAG_DEFAULT
<1>0. EfcTypeOK /\ LastTop /\ Step
  BY DEF EfcInv, Step, Dest
<1>1. /\ Top.fn \in Closing /\ ~Idle
      /\ dest_shared => \/ Top.fn = "H5F__dest" /\ shared_nrefs[Top.file] <= 1 /\ lru[Top.file] = <<>>
                        \/ Top.fn = "efc_destroy"
  BY DEF dest_top, dest_shared, Running, Closing
<1>2. Moves(StackStep) /\ Popped
  BY <1>0, StepMoves, OtherMoves DEF Moves
<1>3. Top.file \in Files /\ Len(calls) \in 1..Len(calls) /\ Top = calls[Len(calls)]
  BY <1>0, StackAfter DEF FrameRecord
<1>4. Len(calls) \in TopsClosing(Top.file)
  BY <1>1, <1>3 DEF TopsClosing
<1>5. dest_shared => shared_nrefs[Top.file] <= 1 /\ lru[Top.file] = <<>>
  BY <1>0, <1>1, <1>3 DEF LastTop
<1>6. lru' = lru /\ found' = found
  BY DEF dest_top, dest_shared
<1>7. \A h \in Files : Parents(h)' = Parents(h) /\ Entries(h)' = Entries(h)
  BY <1>6 DEF Parents, Cached, Entries
<1>8. \A h \in Files : h # Top.file => TopsClosing(h)' = TopsClosing(h)
  BY <1>0, <1>2, TopsAfter
<1>9. shared_nrefs \in [Files -> Nat] /\ tag \in [Files -> Int]
  BY <1>0 DEF EfcTypeOK
<1>10. /\ dest_top => /\ shared_nrefs' = [shared_nrefs EXCEPT ![Top.file] = shared_nrefs[Top.file] - 1]
                      /\ shared_nrefs[Top.file] > 1 /\ tag' = tag
       /\ dest_shared => /\ shared_nrefs' = [shared_nrefs EXCEPT ![Top.file] = 0]
                         /\ tag' = [tag EXCEPT ![Top.file] = TAG_DEFAULT]
  BY DEF dest_top, dest_shared
<1>11. /\ \A h \in Files : h # Top.file => shared_nrefs'[h] = shared_nrefs[h] /\ tag'[h] = tag[h]
       /\ dest_top => shared_nrefs'[Top.file] = shared_nrefs[Top.file] - 1
       /\ dest_shared => shared_nrefs'[Top.file] = 0 /\ tag'[Top.file] = TAG_DEFAULT
  BY <1>3, <1>9, <1>10
<1> QED BY <1>1, <1>2, <1>3, <1>4, <1>5, <1>6, <1>7, <1>8, <1>10, <1>11

\* The entry that is made after an eviction is for a file with a cache, which is
\* open.
LEMMA EvictedInsert ==
  ASSUME EfcInv, efc_open_evicted, ~UNCHANGED_COUNTS
  PROVE  \E p, f \in Files :
           /\ p = Top.file /\ shared_nrefs[p] > 0 /\ Top.fn = "efc_open"
           /\ Parents(f)' = Parents(f) \cup {p}
           /\ \A h \in Files : h # f => /\ Parents(h)' = Parents(h)
                                        /\ shared_nrefs'[h] = shared_nrefs[h]
           /\ \A q \in Files : q # p => lru'[q] = lru[q]
           /\ shared_nrefs'[f] = shared_nrefs[f] + 1
<1>0. EfcTypeOK /\ CountsAgree /\ OneEntry
  BY DEF EfcInv
<1>1. PICK f \in Top.files : insert(Top.file, f)
  BY DEF efc_open_evicted
<1>2. PICK p \in Files : p = Top.file
  BY EvictedFacts
<1>3. f \in Files /\ Held(p) /\ ~Cached(p, f) /\ Top.fn = "efc_open"
  BY <1>1, <1>2, EvictedFacts DEF efc_open_evicted, Running
<1>4. shared_nrefs[p] > 0
  BY <1>0, <1>3, HeldOpen
<1>5. /\ \A q \in Files : q # p => Entries(q)' = Entries(q)
      /\ Entries(p)' = Entries(p) \cup {Entry(f)}
  BY <1>0, <1>1, <1>2, <1>3, InsertEntries
<1>6. Parents(f)' = Parents(f) \cup {p}
  <2>1. \A q \in Files : q # p => (Cached(q, f)' <=> Cached(q, f))
    BY <1>5 DEF Cached
  <2>2. Entry(f) \in Entries(p)' /\ Entry(f).file = f
    BY <1>5 DEF Entry
  <2>3. Cached(p, f)'
    BY <2>2 DEF Cached
  <2> QED BY <2>1, <2>3 DEF Parents
<1>7. \A h \in Files : h # f => Parents(h)' = Parents(h)
  BY <1>0, <1>1, <1>2, <1>3, ParentsAfter
<1>8. \A q \in Files : q # p => lru'[q] = lru[q]
  BY <1>0, <1>1, <1>2, <1>3, InsertFacts
<1>9. shared_nrefs' = [shared_nrefs EXCEPT ![f] = shared_nrefs[f] + 1]
      /\ shared_nrefs \in [Files -> Nat]
  BY <1>0, <1>1 DEF insert, EfcTypeOK
<1>10. /\ shared_nrefs'[f] = shared_nrefs[f] + 1
       /\ \A h \in Files : h # f => shared_nrefs'[h] = shared_nrefs[h]
  BY <1>3, <1>9
<1> QED BY <1>2, <1>3, <1>4, <1>6, <1>7, <1>8, <1>10
-----------------------------------------------------------------------------
\* No garbage arises when every file keeps what refers to it, but for caches of
\* files that are open.
LEMMA GarbageKept ==
  ASSUME EfcTypeOK, EfcTypeOK', NoGarbage,
         \A f \in Files :
           \/ Rooted(f, Len(calls) + 1)'
           \/ /\ ~Rooted(f, Len(calls) + 1) /\ Parents(f) \subseteq Parents(f)'
              /\ \/ shared_nrefs'[f] = 0 \/ shared_nrefs[f] # 0
                 \/ \E p \in Parents(f)' : shared_nrefs[p] # 0
  PROVE  NoGarbage'
<1> SUFFICES ASSUME NEW U \in SUBSET Files, Unused(U, Len(calls) + 1)', NEW g \in U
             PROVE  shared_nrefs'[g] = 0
  BY DEF NoGarbage
<1>1. \A f \in U :
        /\ ~Rooted(f, Len(calls) + 1) /\ Parents(f) \subseteq Parents(f)'
        /\ \/ shared_nrefs'[f] = 0 \/ shared_nrefs[f] # 0
           \/ \E p \in Parents(f)' : shared_nrefs[p] # 0
  BY DEF Unused
<1>2. \A f \in U : Parents(f)' \subseteq U
  BY DEF Unused
<1>3. Unused(U, Len(calls) + 1)
  BY <1>1, <1>2 DEF Unused
<1>4. \A f \in U : shared_nrefs[f] = 0
  BY <1>3 DEF NoGarbage
<1> QED BY <1>1, <1>2, <1>4

\* The steps of a call leave no garbage.
LEMMA NoGarbageKept ==
  ASSUME EfcInv, EfcInv', NoObjects', NoGarbage, DestRight, Step
  PROVE  NoGarbage'
<1>0. EfcTypeOK /\ EfcTypeOK' /\ CountsAgree
  BY DEF EfcInv
<1>n. PICK n \in Nat \ {0} : n = Len(calls)
  BY <1>0, StackAfter
<1>a. ASSUME NEW f
      PROVE  /\ Rooted(f, Len(calls) + 1) <=>
                  user[f] > 0 \/ loose[f] > 0 \/ orphaned[f] > 0 \/ TopsClosing(f) # {}
             /\ Rooted(f, Len(calls) + 1)' <=>
                  user'[f] > 0 \/ loose'[f] > 0 \/ orphaned'[f] > 0 \/ TopsClosing(f)' # {}
  <2>1. Len(calls') \in Nat /\ \A i \in TopsClosing(f)' : i \in 1..Len(calls')
    BY <1>0 DEF EfcTypeOK, TopsClosing
  <2>2. \A i \in TopsClosing(f)' : i < Len(calls') + 1
    BY <2>1
  <2> QED BY <2>2, <1>0, AllRooted DEF Rooted
<1>1. CASE /\ ~try_close_objects /\ ~dest_top /\ ~dest_shared /\ ~release_entry
           /\ ~efc_open_evicted \/ UNCHANGED_COUNTS
  <2>1. /\ shared_nrefs' = shared_nrefs
        /\ \A f \in Files : Parents(f)' = Parents(f) /\ TopsClosing(f)' = TopsClosing(f)
    BY <1>1, QuietFacts
  <2>2. user' = user /\ loose' = loose /\ orphaned' = orphaned
    BY <1>1, TopsKept
  <2>3. \A f \in Files : Rooted(f, Len(calls) + 1)' <=> Rooted(f, Len(calls) + 1)
    BY <1>a, <2>1, <2>2
  <2> QED BY <1>0, <2>1, <2>3, GarbageKept
<1>2. CASE try_close_objects
  <2>1. /\ Top.fn = "H5F_try_close" /\ Popped
        /\ \/ loose' = [loose EXCEPT ![Top.file] = loose[Top.file] + 1] /\ orphaned' = orphaned
           \/ orphaned' = [orphaned EXCEPT ![Top.file] = orphaned[Top.file] + 1] /\ loose' = loose
        /\ UNCHANGED <<shared_nrefs, efc_nrefs, lru, user>>
    BY <1>0, <1>2, ClosingMoves DEF try_close_objects, Running, Moves
  <2>2. Moves(StackStep) /\ Top.file \in Files
    BY <1>0, StepMoves DEF Moves, FrameRecord
  <2>3. \A f \in Files : f # Top.file => TopsClosing(f)' = TopsClosing(f)
    BY <1>0, <2>1, <2>2, TopsAfter
  <2>4. loose \in [Files -> Nat] /\ orphaned \in [Files -> Nat]
    BY <1>0 DEF EfcTypeOK
  <2>5. loose'[Top.file] > 0 \/ orphaned'[Top.file] > 0
    BY <2>1, <2>2, <2>4
  <2>6. \A f \in Files : f # Top.file => loose'[f] = loose[f] /\ orphaned'[f] = orphaned[f]
    BY <2>1, <2>2, <2>4
  <2>7. \A f \in Files : Parents(f)' = Parents(f)
    BY <2>1 DEF Parents, Cached, Entries
  <2>8. ASSUME NEW f \in Files
        PROVE  \/ Rooted(f, Len(calls) + 1)'
               \/ /\ ~Rooted(f, Len(calls) + 1) /\ Parents(f) \subseteq Parents(f)'
                  /\ shared_nrefs'[f] = 0 \/ shared_nrefs[f] # 0
    <3>1. CASE f = Top.file
      BY <1>a, <2>5, <3>1
    <3>2. CASE f # Top.file
      BY <1>a, <2>1, <2>3, <2>6, <2>7, <3>2
    <3> QED BY <3>1, <3>2
  <2> QED BY <1>0, <2>8, GarbageKept
<1>3. CASE release_entry
  <2>1. PICK g \in Files :
        /\ \A h \in Files : h # g => Parents(h)' = Parents(h) /\ TopsClosing(h)' = TopsClosing(h)
        /\ TopsClosing(g)' # {}
    BY <1>3, ReleaseEntryFacts
  <2>2. user' = user /\ loose' = loose /\ orphaned' = orphaned /\ shared_nrefs' = shared_nrefs
    BY <1>3 DEF release_entry, TOPS
  <2>3. ASSUME NEW f \in Files
        PROVE  \/ Rooted(f, Len(calls) + 1)'
               \/ /\ ~Rooted(f, Len(calls) + 1) /\ Parents(f) \subseteq Parents(f)'
                  /\ shared_nrefs'[f] = 0 \/ shared_nrefs[f] # 0
    <3>1. CASE f = g
      BY <1>a, <2>1, <3>1
    <3>2. CASE f # g
      BY <1>a, <2>1, <2>2, <3>2
    <3> QED BY <3>1, <3>2
  <2> QED BY <1>0, <2>3, GarbageKept
<1>4. CASE efc_open_evicted /\ ~UNCHANGED_COUNTS
  <2>1. PICK p, f \in Files :
           /\ shared_nrefs[p] > 0 /\ Top.fn = "efc_open"
           /\ Parents(f)' = Parents(f) \cup {p}
           /\ \A h \in Files : h # f => /\ Parents(h)' = Parents(h)
                                        /\ shared_nrefs'[h] = shared_nrefs[h]
    BY <1>4, EvictedInsert
  <2>2. ~try_close_objects /\ ~dest_top /\ ~dest_shared /\ ~release_entry
    BY <2>1 DEF try_close_objects, dest_top, dest_shared, release_entry, Running
  <2>3. user' = user /\ loose' = loose /\ orphaned' = orphaned
    BY <2>2, TopsKept
  <2>4. \A h \in Files : TopsClosing(h)' = TopsClosing(h)
    BY <1>0, <2>2, QuietSteps
  <2>5. ASSUME NEW h \in Files
        PROVE  \/ Rooted(h, Len(calls) + 1)'
               \/ /\ ~Rooted(h, Len(calls) + 1) /\ Parents(h) \subseteq Parents(h)'
                  /\ \/ shared_nrefs'[h] = 0 \/ shared_nrefs[h] # 0
                     \/ \E q \in Parents(h)' : shared_nrefs[q] # 0
    <3>1. Rooted(h, Len(calls) + 1)' <=> Rooted(h, Len(calls) + 1)
      BY <1>a, <2>3, <2>4
    <3>2. CASE h = f
      <4>1. shared_nrefs[p] # 0
        BY <2>1
      <4> QED BY <2>1, <3>1, <3>2, <4>1
    <3>3. CASE h # f
      BY <2>1, <3>1, <3>3
    <3> QED BY <3>2, <3>3
  <2> QED BY <1>0, <2>5, GarbageKept
<1>5. CASE dest_top \/ dest_shared
  <2>1. PICK f \in Files : f = Top.file
    BY <1>5, DestFacts
  <2>2. /\ n \in TopsClosing(f)
        /\ \A h \in Files : Parents(h)' = Parents(h)
        /\ \A h \in Files : h # f => /\ TopsClosing(h)' = TopsClosing(h)
                                     /\ shared_nrefs'[h] = shared_nrefs[h]
        /\ dest_top => shared_nrefs[f] > 1
        /\ dest_shared => shared_nrefs[f] <= 1 /\ shared_nrefs'[f] = 0 /\ lru[f] = <<>>
    BY <1>5, <1>n, <2>1, DestFacts
  <2>3. ~try_close_objects
    BY <1>5 DEF try_close_objects, dest_top, dest_shared, Running
  <2>4. user' = user /\ loose' = loose /\ orphaned' = orphaned
    BY <2>3, TopsKept
  <2>5. SUFFICES ASSUME NEW U \in SUBSET Files, Unused(U, Len(calls) + 1)', NEW g \in U
                 PROVE  shared_nrefs'[g] = 0
    BY DEF NoGarbage
  <2>6. ASSUME NEW h \in U, h # f
        PROVE  ~Rooted(h, Len(calls) + 1) /\ Parents(h) \subseteq U
    BY <1>a, <2>2, <2>4, <2>5, <2>6 DEF Unused
  <2>7. CASE dest_shared \/ f \notin U
    <3>1. Unused(U \ {f}, Len(calls) + 1)
      <4>1. ASSUME NEW h \in U \ {f} PROVE f \notin U \/ f \notin Parents(h)
        <5>1. CASE f \in Parents(h)
          <6>1. Cached(f, h)
            BY <5>1 DEF Parents
          <6>2. lru[f] # <<>>
            <7>1. PICK e \in Entries(f) : TRUE
              BY <6>1 DEF Cached
            <7>2. PICK i \in 1..Len(lru[f]) : TRUE
              BY <7>1, <1>0, EntriesFacts
            <7> QED BY <7>2
          <6> QED BY <6>2, <2>2, <2>7
        <5> QED BY <5>1
      <4> QED BY <2>6, <4>1 DEF Unused
    <3>2. \A h \in U \ {f} : shared_nrefs[h] = 0
      BY <3>1 DEF NoGarbage
    <3> QED BY <2>2, <2>7, <3>2
  <2>8. CASE dest_top /\ f \in U
    <3>1. Needed(f, n)
      BY <1>n, <2>1, <2>2, <2>8 DEF DestRight, dest_top
    <3>2. Unused(U, n)
      <4> SUFFICES ASSUME NEW h \in U PROVE ~Rooted(h, n) /\ Parents(h) \subseteq U
        BY DEF Unused
      <4>1. ~Rooted(h, Len(calls) + 1)' /\ Parents(h) \subseteq U
        BY <2>2, <2>5 DEF Unused
      <4>2. ~Rooted(h, n)'
        <5>1. \A i \in TopsClosing(h)' : FALSE
          BY <1>a, <4>1
        <5> QED BY <5>1, <4>1, <1>a DEF Rooted
      <4> QED BY <1>n, <1>0, <2>3, <4>1, <4>2, RootedKept
    <3> QED BY <2>8, <3>1, <3>2 DEF Needed
  <2> QED BY <1>5, <2>7, <2>8
<1> QED BY <1>1, <1>2, <1>3, <1>4, <1>5
-----------------------------------------------------------------------------
\* Only a file with a cache has entries.
LEMMA NoCacheEmptyKept ==
  ASSUME EfcInv, NoCacheEmpty, Step PROVE NoCacheEmpty'
<1>0. EfcTypeOK
  BY DEF EfcInv
<1>n. PICK n \in Nat \ {0} : n = Len(calls)
  BY <1>0, StackAfter
<1>1. \A f \in Files : ~HasEFC(f) => lru'[f] = <<>>
  <2>1. CASE lru' = lru
    BY <2>1 DEF NoCacheEmpty
  <2>2. CASE release_entry
    <3>1. PICK p \in Files : lru[p] # <<>> /\ \A q \in Files : q # p => lru'[q] = lru[q]
      BY <2>2, ReleaseEntryFacts
    <3> QED BY <3>1 DEF NoCacheEmpty
  <2>3. CASE efc_open_evicted
    <3>1. CASE UNCHANGED_COUNTS
      BY <2>1, <3>1 DEF UNCHANGED_COUNTS
    <3>2. CASE ~UNCHANGED_COUNTS
      <4>1. PICK p \in Files : /\ p = Top.file /\ Top.fn = "efc_open"
                               /\ \A q \in Files : q # p => lru'[q] = lru[q]
        BY <2>3, <3>2, EvictedInsert
      <4>2. HasEFC(p)
        BY <1>0, <1>n, <4>1, StackAfter DEF NoCacheEmpty
      <4> QED BY <4>1, <4>2 DEF NoCacheEmpty
    <3> QED BY <3>1, <3>2
  <2>4. Callers
    BY DEF EfcInv
  <2> QED BY <1>0, <2>1, <2>2, <2>3, <2>4, CacheSteps
<1>2. ASSUME NEW i \in 1..Len(calls'), calls'[i].fn = "efc_open" PROVE HasEFC(calls'[i].file)
  <2>1. Len(calls') \in Nat
    BY <1>0, <1>n, StackAfter
  <2>2. i < n
    BY <1>0, <1>2, <1>n, <2>1, FrameFrom
  <2>3. i \in 1..n - 1
    BY <2>2, <1>n
  <2>4. i \in 1..Len(calls) /\ calls'[i] = calls[i]
    BY <1>0, <1>n, <2>3, StackAfter
  <2> QED BY <1>2, <2>4 DEF NoCacheEmpty
<1> QED BY <1>1, <1>2 DEF NoCacheEmpty, HasEFC

\* Where a run of the passes after a step comes from.
LEMMA RunAfter ==
  ASSUME EfcTypeOK, Step, NEW i, Run(i)'
  PROVE  /\ Run(i) \/ (try_close_root /\ i = Len(calls))
         /\ i \in 1..Len(calls)
         /\ i < Len(calls) => calls'[i] = calls[i]
<1>n. PICK n \in Nat \ {0} : n = Len(calls)
  BY StackAfter
<1>1. i \in 1..Len(calls') /\ calls'[i].fn \in Runs /\ Len(calls') \in Nat
  BY <1>n, StackAfter DEF Run
<1>2. CASE i < n
  <2>1. i \in 1..n - 1
    BY <1>1, <1>2, <1>n
  <2>2. i \in 1..Len(calls) /\ calls'[i] = calls[i]
    BY <1>n, <2>1, StackAfter
  <2> QED BY <1>1, <1>n, <1>2, <2>2 DEF Run
<1>3. CASE ~(i < n)
  <2>1. i \in n..Len(calls')
    BY <1>1, <1>3, <1>n
  <2>2. /\ i = n
        /\ \/ pass1_mark \/ pass2_file \/ pass2_done \/ try_close_root
    BY <1>1, <1>n, <2>1, FrameFrom DEF Runs
  <2>3. pass1_mark \/ pass2_file \/ pass2_done => Top.fn \in Runs
    BY DEF pass1_mark, pass2_file, pass2_done, Running, Runs
  <2>4. n \in 1..Len(calls) /\ Top = calls[n]
    BY <1>n, StackAfter
  <2> QED BY <2>2, <2>3, <2>4, <1>n DEF Run
<1> QED BY <1>2, <1>3, <1>n

\* What runs while a run of the passes is under way below it.
LEMMA RunBelow ==
  ASSUME EfcInv, OneRun, TagInPass, ~Idle, NEW r, Run(r), r # Len(calls)
  PROVE  /\ r \in 1..Len(calls) - 1 /\ Top.fn \notin Runs /\ Top.fn # "efc_open"
         /\ calls[r].fn = "pass1" => /\ Top.fn = "tag1"
                                     /\ \A i \in r + 1..Len(calls) : calls[i].fn = "tag1"
         /\ calls[r].fn = "pass2" => Top.fn = "tag2"
         /\ calls[r].fn = "cleanup" => /\ Top.fn \notin {"tag1", "tag2"}
                                       /\ \A i \in 1..Len(calls) : ~Tagging(i)
<1>0. EfcTypeOK /\ PassesAlone /\ Callers
  BY DEF EfcInv
<1>n. PICK n \in Nat \ {0} : n = Len(calls) /\ Top = calls[n] /\ n \in 1..Len(calls)
  BY <1>0, TopFacts DEF Top
<1>1. r \in 1..Len(calls) - 1 /\ n \in r + 1..Len(calls) /\ r \in 1..Len(calls)
  BY <1>n DEF Run
<1>2. Top.fn \notin Runs
  <2>1. Top.fn \in Runs => Run(n)
    BY <1>n DEF Run
  <2> QED BY <1>n, <1>1, <2>1 DEF OneRun
<1>3. Top.fn # "efc_open"
  BY <1>0, <1>1, <1>n DEF Callers, Caller
<1>4. /\ calls[r].fn = "pass1" => /\ Top.fn = "tag1"
                                  /\ \A i \in r + 1..Len(calls) : calls[i].fn = "tag1"
      /\ calls[r].fn = "pass2" => Top.fn = "tag2"
  BY <1>0, <1>1, <1>n DEF PassesAlone
<1>5. ASSUME calls[r].fn = "cleanup", NEW i \in 1..Len(calls), Tagging(i) PROVE FALSE
  <2>1. PICK s \in 1..i - 1 : calls[s].fn \in {"pass1", "pass2"}
    BY <1>5 DEF TagInPass, Tagging
  <2>2. s \in 1..Len(calls)
    BY <1>n, <2>1
  <2>3. Run(s) /\ s # r
    BY <1>5, <2>1, <2>2 DEF Run, Runs
  <2> QED BY <2>2, <2>3, <1>1 DEF OneRun
<1>6. calls[r].fn = "cleanup" => Top.fn \notin {"tag1", "tag2"}
  BY <1>5, <1>n DEF Tagging
<1> QED BY <1>1, <1>2, <1>3, <1>4, <1>5, <1>6

\* Nothing walks a cache while a run is between its walks.
LEMMA RunAlone ==
  ASSUME EfcTypeOK, OneRun, TagInPass, ~Idle, Run(Len(calls))
  PROVE  /\ \A i : Tagging(i) => FALSE
         /\ \A p, g : ~Ahead(p, g)
<1>n. PICK n \in Nat \ {0} : n = Len(calls)
  BY TopFacts
<1>1. ASSUME NEW i, Tagging(i) PROVE FALSE
  <2>1. i \in 1..Len(calls)
    BY <1>1 DEF Tagging
  <2>2. PICK s \in 1..i - 1 : calls[s].fn \in {"pass1", "pass2"}
    BY <1>1, <2>1 DEF TagInPass, Tagging
  <2>3. s \in 1..Len(calls) /\ s # Len(calls)
    BY <1>n, <2>1, <2>2
  <2>4. Run(s)
    BY <2>2, <2>3 DEF Run, Runs
  <2> QED BY <2>3, <2>4, <1>n DEF OneRun, Run
<1> QED BY <1>1 DEF Ahead, Coming

\* The walks are part of the passes.
LEMMA TagInPassKept ==
  ASSUME EfcInv, TagInPass, Step PROVE TagInPass'
<1>0. EfcTypeOK
  BY DEF EfcInv
<1>n. PICK n \in Nat \ {0} : n = Len(calls)
  BY <1>0, StackAfter
<1>a. /\ Top = calls[n] /\ n \in 1..Len(calls)
      /\ Len(calls') \in {n - 1, n, n + 1}
      /\ \A i \in 1..n - 1 : calls'[i] = calls[i] /\ i \in 1..Len(calls)
      /\ n <= Len(calls') => \/ calls'[n].fn = Top.fn
                             \/ calls'[n].fn \in Closing /\ Top.fn \in Closing
  BY <1>0, <1>n, StackAfter
<1>1. ASSUME NEW i \in 1..n
      PROVE  /\ calls[i].fn = "tag1" => \E r \in 1..i - 1 : calls'[r].fn = "pass1"
             /\ calls[i].fn = "tag2" => \E r \in 1..i - 1 : calls'[r].fn = "pass2"
  <2>1. \A r \in 1..i - 1 : calls'[r] = calls[r]
    BY <1>a, <1>n
  <2> QED BY <2>1, <1>n DEF TagInPass
<1>2. ASSUME NEW i \in 1..Len(calls')
      PROVE  /\ calls'[i].fn = "tag1" => \E r \in 1..i - 1 : calls'[r].fn = "pass1"
             /\ calls'[i].fn = "tag2" => \E r \in 1..i - 1 : calls'[r].fn = "pass2"
  <2>1. CASE i \in 1..n - 1
    <3>1. calls[i] = calls'[i] /\ i \in 1..n
      BY <1>a, <1>n, <2>1
    <3> QED BY <3>1, <1>1
  <2>2. CASE i = n
    <3>1. \/ calls'[i].fn = calls[n].fn
          \/ calls'[i].fn \in Closing
      BY <1>a, <1>n, <2>2
    <3> QED BY <3>1, <1>1, <1>n, <2>2 DEF Closing
  <2>3. CASE i = n + 1
    <3>1. Moves(StackStep)
      BY <1>0, StepMoves
    <3>2. PICK callee, frame \in FrameRecord : Nests(callee, frame)
      BY <3>1, <1>n, <2>3 DEF Moves, StackStep, Popped, Stays, Replaced
    <3>3. calls'[i] = callee /\ calls'[n] = frame /\ n \in 1..i - 1
      BY <3>2, <1>n, <2>3 DEF Nests, Pushed
    <3>4. /\ callee.fn = "tag1" => frame.fn = "pass1" \/ Top.fn = "tag1"
          /\ callee.fn = "tag2" => frame.fn = "pass2" \/ Top.fn = "tag2"
      BY <3>2 DEF Nests, MayCall, SameKind, Closing
    <3>5. /\ Top.fn = "tag1" => \E r \in 1..n - 1 : calls'[r].fn = "pass1"
          /\ Top.fn = "tag2" => \E r \in 1..n - 1 : calls'[r].fn = "pass2"
      BY <1>1, <1>a, <1>n
    <3>6. \A r \in 1..n - 1 : r \in 1..i - 1
      BY <2>3, <1>n
    <3> QED BY <3>3, <3>4, <3>5, <3>6
  <2>4. i \in 1..n - 1 \/ i = n \/ i = n + 1
    <3>1. Len(calls') = n - 1 \/ Len(calls') = n \/ Len(calls') = n + 1
      BY <1>a
    <3> QED BY <3>1, <1>n
  <2> QED BY <2>1, <2>2, <2>3, <2>4
<1> QED BY <1>2 DEF TagInPass

\* The entries of the running call, as it goes on to the next one.
LEMMA LaterEntries ==
  ASSUME EfcTypeOK, ~Idle, Top.entries # <<>>
  PROVE  /\ Top.entries \in Seq(EntryRecord) /\ Len(Top.entries) \in Nat \ {0}
         /\ Head(Top.entries) = Top.entries[1] /\ 1 \in 1..Len(Top.entries)
         /\ Len(Later.entries) = Len(Top.entries) - 1
         /\ \A k \in 1..Len(Later.entries) : /\ Later.entries[k] = Top.entries[k + 1]
                                             /\ k + 1 \in 1..Len(Top.entries)
         /\ WalkOf(Top) => WalkOf(Later)
<1>1. Top \in FrameRecord
  BY TopFacts
<1>2. Top.entries \in Seq(EntryRecord)
  BY <1>1 DEF FrameRecord
<1>3. Later.entries = Tail(Top.entries)
  BY LaterFacts
<1>4. /\ Head(Top.entries) = Top.entries[1] /\ Len(Top.entries) >= 1
      /\ Len(Tail(Top.entries)) = Len(Top.entries) - 1
      /\ \A k \in 1..Len(Top.entries) - 1 : Tail(Top.entries)[k] = Top.entries[k + 1]
  BY <1>2, TailFacts
<1>5. Len(Top.entries) \in Nat
  BY <1>2
<1>6. \A k \in 1..Len(Later.entries) : /\ Later.entries[k] = Top.entries[k + 1]
                                       /\ k + 1 \in 1..Len(Top.entries)
  BY <1>3, <1>4, <1>5
<1>7. WalkOf(Top) => WalkOf(Later)
  <2> SUFFICES ASSUME WalkOf(Top) PROVE WalkOf(Later)
    OBVIOUS
  <2>1. Later.file = Top.file
    BY LaterFacts
  <2>2. \A k \in 1..Len(Later.entries) : Later.entries[k] \in Entries(Later.file)
    BY <1>6, <2>1 DEF WalkOf
  <2>3. ASSUME NEW k \in 1..Len(Later.entries), NEW l \in 1..Len(Later.entries),
               Later.entries[k].file = Later.entries[l].file
        PROVE  k = l
    <3>1. \A i, j \in 1..Len(Top.entries) :
            Top.entries[i].file = Top.entries[j].file => i = j
      BY DEF WalkOf
    <3>2. /\ k + 1 \in 1..Len(Top.entries) /\ Top.entries[k + 1].file = Later.entries[k].file
          /\ l + 1 \in 1..Len(Top.entries) /\ Top.entries[l + 1].file = Later.entries[l].file
      BY <1>6
    <3>3. k + 1 = l + 1
      BY <2>3, <3>1, <3>2
    <3>4. k \in Int /\ l \in Int
      OBVIOUS
    <3> QED BY <3>3, <3>4
  <2> QED BY <2>2, <2>3 DEF WalkOf
<1> QED BY <1>2, <1>3, <1>4, <1>5, <1>6, <1>7

\* A walk that starts goes through the entries of its cache, which are for
\* different files.
LEMMA WalkStarts ==
  ASSUME EfcTypeOK, OneEntry, NEW f \in Files, NEW fn
  PROVE  LET frame == Over(fn, f, lru[f]) IN
         /\ frame.fn = fn /\ frame.file = f /\ frame.entries = lru[f]
         /\ WalkOf(frame)
         /\ \A g : Cached(f, g) <=> \E k \in 1..Len(frame.entries) : frame.entries[k].file = g
<1>1. /\ Over(fn, f, lru[f]).fn = fn /\ Over(fn, f, lru[f]).file = f
      /\ Over(fn, f, lru[f]).entries = lru[f]
  BY DEF Over, Frame
<1>2. \A k \in 1..Len(lru[f]) : lru[f][k] \in Entries(f)
  BY EntriesFacts
<1>3. \A g : Cached(f, g) <=> \E k \in 1..Len(lru[f]) : lru[f][k].file = g
  BY CachedAt
<1> QED BY <1>1, <1>2, <1>3 DEF OneEntry, WalkOf

\* The walks of the passes are over entries of their caches.
LEMMA TagWalksKept ==
  ASSUME EfcInv, OneRun, TagInPass, TagWalks, Step PROVE TagWalks'
<1>0. EfcTypeOK /\ OneEntry /\ PassesAlone /\ ~Idle
  BY StepCases DEF EfcInv
<1>n. PICK n \in Nat \ {0} : n = Len(calls)
  BY <1>0, StackAfter
<1>a. /\ Top = calls[n] /\ n \in 1..Len(calls) /\ Top \in FrameRecord
      /\ Len(calls') = n - 1 \/ Len(calls') = n \/ Len(calls') = n + 1
      /\ \A i \in 1..n - 1 : calls'[i] = calls[i] /\ i \in 1..Len(calls)
  BY <1>0, <1>n, StackAfter
<1>1. Pass1 \/ Pass2 => lru' = lru
  BY DEF Pass1, Pass2, tag1_return, tag1_entry, pass1_keep, pass1_mark, tag2_return,
         tag2_entry, pass2_file, pass2_done, UNCHANGED_COUNTS
<1>2. Top.fn \in {"tag1", "tag2"} => lru' = lru
  BY <1>1, StepCases DEF Pass1, Pass2
<1>3. ASSUME NEW i \in 1..Len(calls'), Tagging(i)'
      PROVE  /\ lru' = lru
             /\ \E frame : calls'[i] = frame /\ WalkOf(frame)
  <2>0. calls'[i].fn \in {"tag1", "tag2"}
    BY <1>3 DEF Tagging
  <2>1. CASE i \in 1..n - 1
    <3>1. calls'[i] = calls[i] /\ Tagging(i) /\ i \in 1..Len(calls)
      BY <1>a, <2>0, <2>1 DEF Tagging
    <3>2. PICK r \in 1..i - 1 : /\ calls[i].fn = "tag1" => calls[r].fn = "pass1"
                                /\ calls[i].fn = "tag2" => calls[r].fn = "pass2"
      BY <3>1, <2>0 DEF TagInPass
    <3>3. r \in 1..Len(calls) /\ n \in r + 1..Len(calls)
      BY <1>n, <2>1
    <3>4. Top.fn \in {"tag1", "tag2"}
      BY <1>0, <1>a, <2>0, <3>1, <3>2, <3>3 DEF PassesAlone
    <3> QED BY <3>1, <3>4, <1>2 DEF TagWalks
  <2>2. CASE i = n
    <3>1. Top.fn \in {"tag1", "tag2"}
      <4>1. \/ calls'[i].fn = Top.fn \/ calls'[i].fn \in Closing
        BY <1>0, <1>3, <1>n, <2>2, StackAfter
      <4> QED BY <4>1, <2>0 DEF Closing
    <3>2. tag1_entry \/ tag2_entry
      <4>1. tag1_return \/ tag2_return => Popped
        BY <1>0, PassMoves DEF Moves
      <4>2. ~Popped
        BY <1>n, <1>3, <2>2 DEF Popped
      <4> QED BY <3>1, <4>1, <4>2, StepCases
    <3>3. calls'[i] = Later
      <4>1. CASE tag1_entry
        <5>1. Replaced(Later) \/ \E callee : Pushed(callee, Later)
          BY <1>0, <4>1, PassMoves DEF Moves
        <5> QED BY <5>1, <1>n, <2>2 DEF Replaced, Pushed
      <4>2. CASE tag2_entry
        <5>1. Replaced(Later) \/ \E callee : Pushed(callee, Later)
          BY <1>0, <4>2, PassMoves DEF Moves
        <5> QED BY <5>1, <1>n, <2>2 DEF Replaced, Pushed
      <4> QED BY <3>2, <4>1, <4>2
    <3>4. Top.entries # <<>>
      BY <3>2 DEF tag1_entry, tag2_entry
    <3>5. Tagging(n)
      BY <1>a, <3>1 DEF Tagging
    <3>6. WalkOf(Top)
      BY <3>5, <1>a DEF TagWalks
    <3>7. WalkOf(Later)
      BY <1>0, <3>4, <3>6, LaterEntries
    <3> QED BY <1>2, <3>1, <3>3, <3>7
  <2>3. CASE i = n + 1
    <3>1. ~Popped /\ \A frame : ~Replaced(frame)
      BY <1>n, <1>3, <2>3 DEF Popped, Replaced
    <3>2. tag1_entry \/ tag2_entry \/ pass2_file \/ try_close_root
      <4>1. CASE release_entry
        <5>1. PICK callee \in FrameRecord : callee.fn = "H5F_try_close" /\ Nests(callee, Later)
          BY <4>1, ReleaseEntryFacts
        <5>2. calls'[n + 1] = callee
          BY <5>1, <1>n DEF Nests, Pushed
        <5> QED BY <5>1, <5>2, <2>0, <2>3
      <4>2. CASE pass2_done \/ try_close_reentered \/ dest_efc
        <5>1. PICK frame : Pushed(Over("efc_release_real", Top.file, lru[Top.file]), frame)
          <6>1. CASE pass2_done
            BY <1>0, <6>1, <3>1, PassMoves DEF Moves
          <6>2. CASE try_close_reentered
            BY <1>0, <6>2, ClosingMoves DEF Moves
          <6>3. CASE dest_efc
            BY <1>0, <6>3, OtherMoves DEF Moves
          <6> QED BY <4>2, <6>1, <6>2, <6>3
        <5>2. calls'[n + 1].fn = "efc_release_real"
          BY <5>1, <1>n DEF Pushed, Over, Frame
        <5> QED BY <5>2, <2>0, <2>3
      <4>3. /\ ~try_close_objects /\ ~try_close_top /\ ~try_close_cleanup
            /\ ~tag1_return /\ ~tag2_return /\ ~pass1_keep /\ ~pass1_mark
            /\ ~release_skip /\ ~release_return /\ ~dest_top /\ ~dest_shared
            /\ ~efc_open_evicted
        BY <1>0, <3>1, ClosingMoves, PassMoves, OtherMoves DEF Moves
      <4> QED BY <4>1, <4>2, <4>3, StepCases
    <3>3. PICK f \in Files : \E fn : calls'[i] = Over(fn, f, lru[f])
      <4>1. CASE try_close_root
        <5>1. Pushed(Over("tag1", Top.file, lru[Top.file]), At("pass1", Top.file))
          BY <1>0, <4>1, ClosingMoves DEF Moves
        <5>2. Top.file \in Files
          BY <1>a DEF FrameRecord
        <5> QED BY <5>1, <5>2, <1>n, <2>3 DEF Pushed
      <4>2. CASE pass2_file
        <5>1. PICK g \in Top.files :
                Pushed(Over("tag2", g, lru[g]), [Top EXCEPT !.files = @ \ {g}])
          BY <1>0, <4>2, PassMoves DEF Moves
        <5>2. g \in Files
          BY <1>a DEF FrameRecord
        <5> QED BY <5>1, <5>2, <1>n, <2>3 DEF Pushed
      <4>3. ASSUME NEW fn, Top.entries # <<>>,
                   LET esf == Head(Top.entries).file
                   IN Pushed(Over(fn, esf, lru[esf]), Later)
            PROVE  \E f \in Files : \E fn1 : calls'[i] = Over(fn1, f, lru[f])
        <5>1. Head(Top.entries).file \in Files
          BY <1>0, <4>3, LaterFacts DEF EntryRecord
        <5> QED BY <5>1, <4>3, <1>n, <2>3 DEF Pushed
      <4>4. CASE tag1_entry
        BY <1>0, <3>1, <4>3, <4>4, PassMoves DEF Moves, tag1_entry
      <4>5. CASE tag2_entry
        BY <1>0, <3>1, <4>3, <4>5, PassMoves DEF Moves, tag2_entry
      <4> QED BY <3>2, <4>1, <4>2, <4>4, <4>5
    <3>4. lru' = lru
      BY <3>2 DEF tag1_entry, tag2_entry, pass2_file, try_close_root, UNCHANGED_COUNTS
    <3> QED BY <1>0, <3>3, <3>4, WalkStarts
  <2>4. i \in 1..n - 1 \/ i = n \/ i = n + 1
    <3>1. Len(calls') = n - 1 \/ Len(calls') = n \/ Len(calls') = n + 1
      BY <1>a, <1>n
    <3> QED BY <3>1, <1>n
  <2> QED BY <2>1, <2>2, <2>3, <2>4
<1>4. ASSUME NEW i \in 1..Len(calls'), Tagging(i)' PROVE WalkOf(calls[i])'
  <2>1. PICK frame : calls'[i] = frame /\ WalkOf(frame)
    BY <1>3, <1>4
  <2>2. lru' = lru
    BY <1>3, <1>4
  <2>3. \A p : Entries(p)' = Entries(p)
    BY <2>2 DEF Entries
  <2> QED BY <2>1, <2>3 DEF WalkOf
<1> QED BY <1>4 DEF TagWalks
-----------------------------------------------------------------------------
\* A close that leads to a run of the passes is not part of one.
LEMMA RootAlone ==
  ASSUME EfcInv, OneRun, TagInPass, CleanupRight, TagsTell, try_close_root,
         NEW n, n = Len(calls), NEW f, f = Top.file
  PROVE  /\ \A i : ~Run(i)
         /\ f \in Files /\ HasEFC(f) /\ shared_nrefs[f] > 1
         /\ n \in Nat \ {0} /\ n \in TopsClosing(f) /\ ~Rooted(f, n)
         /\ efc_nrefs[f] = Cardinality(Parents(f))
<1>0. EfcTypeOK /\ CountsAgree /\ Callers /\ Step /\ ~Idle
  BY DEF EfcInv, Step, TryClose, try_close_root, Running
<1>1. /\ n \in Nat \ {0} /\ n \in 1..Len(calls) /\ Top = calls[n] /\ f \in Files
      /\ Top.fn = "H5F_try_close"
  BY <1>0, StackAfter DEF FrameRecord, try_close_root, Running
<1>2. /\ HasEFC(f) /\ shared_nrefs[f] > 1 /\ tag[f] # TAG_CLOSE /\ tag[f] # TAG_DONTCLOSE
      /\ shared_nrefs[f] = efc_nrefs[f] + 1 /\ lru[f] # <<>>
  BY DEF try_close_root, EntersEFC, NothingToDo
<1>3. n \in TopsClosing(f)
  BY <1>1 DEF TopsClosing, Closing
<1>4. efc_nrefs[f] = Cardinality(Parents(f)) /\ Cardinality(Parents(f)) \in Nat
  BY <1>0, <1>1, <1>2, CountsFacts DEF CountsAgree
<1>5. ASSUME NEW k \in Nat, k <= n PROVE ~Rooted(f, k)
  <2>1. Rooted(f, k) => shared_nrefs[f] >= Cardinality(Parents(f)) + 2
    BY <1>0, <1>1, <1>3, <1>5, RootedCount
  <2> QED BY <2>1, <1>2, <1>4
<1>6. ASSUME NEW r, Run(r) PROVE FALSE
  <2>1. r # n
    BY <1>1, <1>6 DEF Run, Runs
  <2>2. calls[r].fn = "cleanup" /\ r \in 1..Len(calls) - 1
    BY <1>0, <1>1, <1>6, <2>1, RunBelow DEF Run, Runs
  <2>3. r \in 1..Len(calls) /\ n \in r + 1..Len(calls) /\ r \in Nat /\ r <= n
    BY <1>1, <2>2
  <2>4. PICK V, W \in SUBSET Files : CleanupOK(r, V, W)
    BY <2>2, <2>3 DEF CleanupRight
  <2>5. f \in V
    <3>1. ~Releasing(n) /\ calls[n].file = f
      BY <1>1 DEF Releasing
    <3>2. f \in V \/ ~HasEFC(f) \/ Rooted(f, r)
      BY <1>1, <2>3, <2>4, <3>1 DEF CleanupOK
    <3> QED BY <3>2, <1>2, <1>5, <2>3
  <2>6. f \in W
    <3>1. f \in V \ W => tag[f] = TAG_DONTCLOSE \/ shared_nrefs[f] <= 1
      BY <2>4 DEF CleanupOK
    <3> QED BY <3>1, <2>5, <1>1, <1>2, <1>0 DEF EfcTypeOK
  <2>7. tag[f] = TAG_LOCK
    BY <2>4, <2>6, <1>2 DEF CleanupOK
  <2>8. PICK j \in 1..Len(calls) : Releasing(j) /\ calls[j].file = f
    BY <1>1, <2>7 DEF TagsTell
  <2> QED BY <1>0, <1>1, <1>2, <2>8, NotReleased DEF Closing
<1> QED BY <1>1, <1>2, <1>3, <1>4, <1>5, <1>6

\* There is one run of the passes at a time.
LEMMA OneRunKept ==
  ASSUME EfcInv, OneRun, TagInPass, CleanupRight, TagsTell, Step PROVE OneRun'
<1>0. EfcTypeOK
  BY DEF EfcInv
<1>1. \A i : Run(i)' => \/ Run(i) \/ (try_close_root /\ i = Len(calls))
  BY <1>0, RunAfter
<1>2. CASE try_close_root
  <2>1. \A i : ~Run(i)
    BY <1>2, RootAlone
  <2> QED BY <1>1, <2>1 DEF OneRun
<1>3. CASE ~try_close_root
  <2>1. \A i : Run(i)' => Run(i) /\ i \in 1..Len(calls)
    BY <1>1, <1>3 DEF Run
  <2> QED BY <2>1 DEF OneRun
<1> QED BY <1>2, <1>3

\* How a run starts: with the root, all of whose caches are still to be walked.
LEMMA RootPass ==
  ASSUME EfcInv, OneRun, TagInPass, CleanupRight, TagsTell, RunTags,
         try_close_root, NEW n, n = Len(calls), NEW f, f = Top.file
  PROVE  Pass1OK(n, {f})'
<1>0. EfcTypeOK /\ OneEntry /\ Step
  BY DEF EfcInv, Step, TryClose
<1>1. /\ \A i : ~Run(i)
      /\ f \in Files /\ HasEFC(f) /\ shared_nrefs[f] > 1
      /\ n \in Nat \ {0} /\ n \in TopsClosing(f) /\ ~Rooted(f, n)
      /\ efc_nrefs[f] = Cardinality(Parents(f))
  BY RootAlone
<1>2. Pushed(Over("tag1", f, lru[f]), At("pass1", f))
  BY <1>0, ClosingMoves DEF Moves
<1>3. /\ tag' = [tag EXCEPT ![f] = efc_nrefs[f]] /\ found' = {f} /\ UNCHANGED_COUNTS
      /\ Top.fn = "H5F_try_close"
  BY DEF try_close_root, Running
<1>4. /\ ~try_close_objects /\ ~dest_top /\ ~dest_shared /\ ~release_entry /\ ~efc_open_evicted
  <2>1. Top.objs = 0
    BY DEF try_close_root
  <2> QED BY <1>3, <2>1 DEF try_close_objects, dest_top, dest_shared, release_entry,
        efc_open_evicted, Running
<1>5. /\ shared_nrefs' = shared_nrefs /\ lru' = lru
      /\ \A g \in Files : Parents(g)' = Parents(g) /\ TopsClosing(g)' = TopsClosing(g)
  BY <1>0, <1>4, QuietFacts
<1>6. /\ calls'[n].file = f /\ calls'[n].fn = "pass1" /\ Len(calls') = n + 1
      /\ calls'[n + 1].file = f /\ calls'[n + 1].fn = "tag1" /\ calls'[n + 1].entries = lru[f]
      /\ \A i \in 1..n - 1 : calls'[i] = calls[i]
  BY <1>2 DEF Pushed, Over, At, Frame
<1>7. ASSUME NEW g, f \in Parents(g) PROVE Ahead(f, g)'
  <2>1. PICK k \in 1..Len(lru[f]) : lru[f][k].file = g
    BY <1>0, <1>1, <1>7, CachedAt DEF Parents
  <2>2. n + 1 \in 1..Len(calls')
    BY <1>1, <1>6
  <2> QED BY <1>6, <2>1, <2>2 DEF Ahead, Coming, Tagging
<1>8. \A g \in Files : Unseen(g, {f})' = Parents(g)
  BY <1>5, <1>7 DEF Unseen
<1>9. \A g : ~Rooted(g, n) => ~Rooted(g, n)'
  BY <1>0, <1>1, <1>4, RootedKept
<1>10. tag'[f] = Cardinality(Parents(f)) /\ \A g \in Files : g # f => tag'[g] = tag[g]
  BY <1>0, <1>1, <1>3 DEF EfcTypeOK
<1>11. \A g \in Files \ {f} : tag[g] \in {TAG_DEFAULT, TAG_LOCK}
  BY <1>1 DEF RunTags
<1>12. \A i \in n + 1..Len(calls') : i = n + 1
  BY <1>1, <1>6
<1> QED BY <1>1, <1>3, <1>5, <1>6, <1>8, <1>9, <1>10, <1>11, <1>12 DEF Pass1OK, HasEFC
-----------------------------------------------------------------------------
\* A pass goes on to the next entry of a walk, for g in the cache of x, and
\* perhaps walks the cache of g before.
LEMMA EntryMoves ==
  ASSUME EfcInv, TagWalks, tag1_entry \/ tag2_entry,
         NEW n, n = Len(calls), NEW x, x = Top.file, NEW g, g = Head(Top.entries).file
  PROVE  /\ n \in Nat \ {0} /\ n \in 1..Len(calls) /\ Top = calls[n]
         /\ x \in Files /\ g \in Files /\ x \in Parents(g) /\ Head(Top.entries) \in Entries(x)
         /\ Coming(n, x, g)
         /\ calls'[n].file = x /\ calls'[n].fn = Top.fn
         /\ \/ Replaced(Later) /\ Len(calls') = n
            \/ /\ Pushed(Over(Top.fn, g, lru[g]), Later) /\ Len(calls') = n + 1
               /\ calls'[n + 1].file = g
         /\ \A i \in 1..n - 1 : calls'[i] = calls[i]
         /\ \A i \in 1..n - 1 : \A p, h : Coming(i, p, h)' <=> Coming(i, p, h)
         /\ \A p, h : Coming(n, p, h)' <=> Coming(n, p, h) /\ h # g
         /\ Len(calls') = n + 1 => \A p, h : Coming(n + 1, p, h)' <=> p = g /\ Cached(g, h)
<1>0. EfcTypeOK /\ OneEntry /\ Step /\ ~Idle
  BY DEF EfcInv, Step, Pass1, Pass2, tag1_entry, tag2_entry, Running
<1>1. n \in Nat \ {0} /\ n \in 1..Len(calls) /\ Top = calls[n] /\ Top \in FrameRecord
  BY <1>0, StackAfter
<1>2. Top.fn \in {"tag1", "tag2"} /\ Top.entries # <<>>
  BY DEF tag1_entry, tag2_entry, Running
<1>3. /\ Later \in FrameRecord /\ Later.fn = Top.fn /\ Later.file = Top.file
      /\ Head(Top.entries) \in EntryRecord
  BY <1>0, <1>2, LaterFacts
<1>4. x \in Files /\ g \in Files
  BY <1>1, <1>3 DEF FrameRecord, EntryRecord
<1>5. \/ Replaced(Later)
      \/ Pushed(Over(Top.fn, g, lru[g]), Later)
  <2>1. CASE tag1_entry
    BY <1>0, <2>1, PassMoves DEF Moves, tag1_entry, Running
  <2>2. CASE tag2_entry
    BY <1>0, <2>2, PassMoves DEF Moves, tag2_entry, Running
  <2> QED BY <2>1, <2>2
<1>6. /\ Top.entries \in Seq(EntryRecord) /\ Len(Top.entries) \in Nat \ {0}
      /\ Head(Top.entries) = Top.entries[1] /\ 1 \in 1..Len(Top.entries)
      /\ Len(Later.entries) = Len(Top.entries) - 1
      /\ \A k \in 1..Len(Later.entries) : /\ Later.entries[k] = Top.entries[k + 1]
                                          /\ k + 1 \in 1..Len(Top.entries)
  BY <1>0, <1>2, LaterEntries
<1>7. WalkOf(Top) /\ Tagging(n)
  BY <1>1, <1>2 DEF TagWalks, Tagging
<1>8. x \in Parents(g) /\ Head(Top.entries) \in Entries(x)
  <2>1. Head(Top.entries) \in Entries(x)
    BY <1>6, <1>7 DEF WalkOf
  <2> QED BY <2>1, <1>4 DEF Parents, Cached
<1>9. Coming(n, x, g)
  BY <1>1, <1>6, <1>7 DEF Coming
<1>10. /\ Len(calls') = n \/ Len(calls') = n + 1
       /\ calls'[n] = Later
       /\ Len(calls') = n + 1 => calls'[n + 1] = Over(Top.fn, g, lru[g])
       /\ \A i \in 1..n - 1 : calls'[i] = calls[i]
  BY <1>1, <1>5 DEF Replaced, Pushed
<1>11. \A i \in 1..n - 1 : \A p, h : Coming(i, p, h)' <=> Coming(i, p, h)
  <2>1. \A i \in 1..n - 1 : i \in 1..Len(calls) /\ i \in 1..Len(calls')
    BY <1>1, <1>10
  <2> QED BY <2>1, <1>10 DEF Coming, Tagging
<1>12. ASSUME NEW p, NEW h PROVE Coming(n, p, h)' <=> Coming(n, p, h) /\ h # g
  <2>1. n \in 1..Len(calls')
    BY <1>1, <1>10
  <2>2. /\ Coming(n, p, h)' <=> p = x /\ \E k \in 1..Len(Later.entries) : Later.entries[k].file = h
        /\ Coming(n, p, h) <=> p = x /\ \E k \in 1..Len(Top.entries) : Top.entries[k].file = h
    BY <2>1, <1>1, <1>2, <1>3, <1>10 DEF Coming, Tagging
  <2>3. ASSUME NEW k \in 1..Len(Later.entries), Later.entries[k].file = h
        PROVE  h # g /\ \E l \in 1..Len(Top.entries) : Top.entries[l].file = h
    <3>1. k + 1 \in 1..Len(Top.entries) /\ Top.entries[k + 1].file = h /\ k + 1 # 1
      BY <1>6, <2>3
    <3> QED BY <3>1, <1>6, <1>7 DEF WalkOf
  <2>4. ASSUME NEW k \in 1..Len(Top.entries), Top.entries[k].file = h, h # g
        PROVE  \E l \in 1..Len(Later.entries) : Later.entries[l].file = h
    <3>1. k # 1
      BY <1>6, <2>4
    <3>2. k - 1 \in 1..Len(Later.entries) /\ (k - 1) + 1 = k
      BY <1>6, <3>1
    <3> QED BY <3>2, <1>6, <2>4
  <2> QED BY <2>2, <2>3, <2>4
<1>13. ASSUME Len(calls') = n + 1, NEW p, NEW h
       PROVE  Coming(n + 1, p, h)' <=> p = g /\ Cached(g, h)
  <2>1. n + 1 \in 1..Len(calls')
    BY <1>1, <1>13
  <2>2. /\ calls'[n + 1].fn = Top.fn /\ calls'[n + 1].file = g /\ calls'[n + 1].entries = lru[g]
    BY <1>10, <1>13 DEF Over, Frame
  <2>3. Cached(g, h) <=> \E k \in 1..Len(lru[g]) : lru[g][k].file = h
    BY <1>0, <1>4, CachedAt
  <2> QED BY <2>1, <2>2, <2>3, <1>2 DEF Coming, Tagging
<1>14. Len(calls') = n + 1 => calls'[n + 1].file = g
  BY <1>10 DEF Over, Frame
<1> QED BY <1>1, <1>3, <1>4, <1>5, <1>8, <1>9, <1>10, <1>11, <1>12, <1>13, <1>14
        DEF Replaced, Pushed

\* So the walks have still the same files before them but for g, and those of the
\* cache of g if that is walked.
LEMMA EntryAhead ==
  ASSUME EfcInv, TagWalks, tag1_entry \/ tag2_entry,
         NEW n, n = Len(calls), NEW x, x = Top.file, NEW g, g = Head(Top.entries).file
  PROVE  /\ Ahead(x, g)
         /\ \A p, h : h # g /\ Ahead(p, h) => Ahead(p, h)'
         /\ \A p, h : h # g /\ Ahead(p, h)' => Ahead(p, h) \/ (p = g /\ Len(calls') = n + 1)
         /\ Len(calls') = n + 1 => \A h : g \in Parents(h) => Ahead(g, h)'
         /\ \A p : p # x /\ (p # g \/ Len(calls') = n) => (Ahead(p, g)' <=> Ahead(p, g))
         /\ (\A i \in 1..n - 1 : Tagging(i) => calls[i].file # x) /\ (x # g \/ Len(calls') = n)
              => ~Ahead(x, g)'
<1>1. /\ n \in Nat \ {0} /\ n \in 1..Len(calls) /\ Top = calls[n]
      /\ Coming(n, x, g)
      /\ Len(calls') = n \/ Len(calls') = n + 1
      /\ \A i \in 1..n - 1 : \A p, h : Coming(i, p, h)' <=> Coming(i, p, h)
      /\ \A p, h : Coming(n, p, h)' <=> Coming(n, p, h) /\ h # g
      /\ Len(calls') = n + 1 => \A p, h : Coming(n + 1, p, h)' <=> p = g /\ Cached(g, h)
  <2>1. /\ n \in Nat \ {0} /\ n \in 1..Len(calls) /\ Top = calls[n] /\ Coming(n, x, g)
        /\ Len(calls') = n \/ Len(calls') = n + 1
    BY EntryMoves
  <2>2. /\ \A i \in 1..n - 1 : \A p, h : Coming(i, p, h)' <=> Coming(i, p, h)
        /\ \A p, h : Coming(n, p, h)' <=> Coming(n, p, h) /\ h # g
    BY EntryMoves
  <2>3. Len(calls') = n + 1 => \A p, h : Coming(n + 1, p, h)' <=> p = g /\ Cached(g, h)
    BY EntryMoves
  <2> QED BY <2>1, <2>2, <2>3
<1>8. \A p, h : Coming(n, p, h) => p = x
  BY <1>1 DEF Coming
<1>2. \A p, h : Ahead(p, h) <=> Coming(n, p, h) \/ \E i \in 1..n - 1 : Coming(i, p, h)
  <2>1. \A i : i \in 1..Len(calls) <=> i = n \/ i \in 1..n - 1
    BY <1>1
  <2> QED BY <2>1 DEF Ahead
<1>3. \A p, h : Ahead(p, h)' <=> \/ Coming(n, p, h)' \/ \E i \in 1..n - 1 : Coming(i, p, h)'
                                 \/ Len(calls') = n + 1 /\ Coming(n + 1, p, h)'
  <2>1. \A i : i \in 1..Len(calls') <=> i = n \/ i \in 1..n - 1 \/ (i = n + 1 /\ Len(calls') = n + 1)
    BY <1>1
  <2> QED BY <2>1 DEF Ahead
<1>4. \A p, h : Ahead(p, h)' <=> \/ Coming(n, p, h) /\ h # g
                                 \/ \E i \in 1..n - 1 : Coming(i, p, h)
                                 \/ Len(calls') = n + 1 /\ p = g /\ Cached(g, h)
  BY <1>1, <1>3
<1>5. Len(calls') = n => Len(calls') # n + 1
  BY <1>1
<1>6. \A h : g \in Parents(h) => Cached(g, h)
  BY DEF Parents
<1>7. (\A i \in 1..n - 1 : Tagging(i) => calls[i].file # x)
        => \A i \in 1..n - 1 : ~Coming(i, x, g)
  BY DEF Coming
<1> QED BY <1>1, <1>2, <1>4, <1>5, <1>6, <1>7, <1>8

\* What pass 1 does with an entry.
LEMMA Tag1Cases ==
  ASSUME EfcInv, tag1_entry,
         NEW n, n = Len(calls), NEW g, g = Head(Top.entries).file
  PROVE  /\ shared_nrefs' = shared_nrefs /\ efc_nrefs' = efc_nrefs /\ lru' = lru
         /\ \A f \in Files : Parents(f)' = Parents(f) /\ TopsClosing(f)' = TopsClosing(f)
         /\ \A f, k : k \in Nat /\ k <= n => (Rooted(f, k)' <=> Rooted(f, k))
         /\ \/ /\ HasEFC(g) /\ tag[g] > 0 /\ Len(calls') = n
               /\ tag'[g] = tag[g] - 1 /\ found' = found
               /\ \A h \in Files \ {g} : tag'[h] = tag[h]
            \/ /\ HasEFC(g) /\ ~(tag[g] > 0) /\ NoOutsideRefs(g) /\ tag[g] # TAG_LOCK
               /\ Head(Top.entries).nopen = 0 /\ Len(calls') = n + 1
               /\ IF shared_nrefs[g] > 1
                  THEN tag'[g] = shared_nrefs[g] - 1 /\ found' = found \cup {g}
                  ELSE tag'[g] = tag[g] /\ found' = found
               /\ \A h \in Files \ {g} : tag'[h] = tag[h]
            \/ /\ ~(HasEFC(g) /\ tag[g] > 0)
               /\ ~(/\ HasEFC(g) /\ NoOutsideRefs(g) /\ tag[g] # TAG_LOCK
                    /\ Head(Top.entries).nopen = 0)
               /\ Len(calls') = n /\ tag' = tag /\ found' = found
<1>0. EfcTypeOK /\ Step /\ ~Idle
  BY DEF EfcInv, Step, Pass1, tag1_entry, Running
<1>1. ~try_close_objects /\ ~dest_top /\ ~dest_shared /\ ~release_entry /\ ~efc_open_evicted
  BY DEF tag1_entry, try_close_objects, dest_top, dest_shared, release_entry, efc_open_evicted,
         Running
<1>2. /\ shared_nrefs' = shared_nrefs /\ efc_nrefs' = efc_nrefs /\ lru' = lru
      /\ \A f \in Files : Parents(f)' = Parents(f) /\ TopsClosing(f)' = TopsClosing(f)
  BY <1>0, <1>1, QuietFacts
<1>3. \A f, k : k \in Nat /\ k <= n => (Rooted(f, k)' <=> Rooted(f, k))
  BY <1>0, <1>1, RootedKept
<1>4. tag \in [Files -> Int] /\ g \in Files /\ Len(calls) \in Nat
  <2>1. Head(Top.entries) \in EntryRecord
    BY <1>0, LaterFacts DEF tag1_entry
  <2> QED BY <1>0, <2>1 DEF EntryRecord, EfcTypeOK
<1>5. /\ Continue(Later) => Len(calls') = n
      /\ \A callee : Call(callee, Later) => Len(calls') = n + 1
  BY <1>0, <1>4 DEF Continue, Call, EfcTypeOK
<1>6. CASE HasEFC(g) /\ tag[g] > 0
  <2>1. tag' = [tag EXCEPT ![g] = tag[g] - 1] /\ Continue(Later) /\ found' = found
    BY <1>6 DEF tag1_entry
  <2> QED BY <1>2, <1>3, <1>4, <1>5, <1>6, <2>1
<1>7. CASE /\ ~(HasEFC(g) /\ tag[g] > 0)
           /\ HasEFC(g) /\ NoOutsideRefs(g) /\ tag[g] # TAG_LOCK /\ Head(Top.entries).nopen = 0
  <2>1. /\ IF shared_nrefs[g] > 1
           THEN tag' = [tag EXCEPT ![g] = shared_nrefs[g] - 1] /\ found' = found \cup {g}
           ELSE tag' = tag /\ found' = found
        /\ Call(Over("tag1", g, lru[g]), Later)
    BY <1>7 DEF tag1_entry
  <2> QED BY <1>2, <1>3, <1>4, <1>5, <1>7, <2>1
<1>8. CASE /\ ~(HasEFC(g) /\ tag[g] > 0)
           /\ ~(/\ HasEFC(g) /\ NoOutsideRefs(g) /\ tag[g] # TAG_LOCK
                /\ Head(Top.entries).nopen = 0)
  <2>1. Continue(Later) /\ tag' = tag /\ found' = found
    BY <1>8 DEF tag1_entry
  <2> QED BY <1>2, <1>3, <1>5, <1>8, <2>1
<1> QED BY <1>6, <1>7, <1>8

\* Where pass 1 stands as it comes to g in the cache of x.
LEMMA Tag1Place ==
  ASSUME EfcInv, OneRun, TagInPass, TagWalks, tag1_entry,
         NEW n, n = Len(calls), NEW x, x = Top.file, NEW g, g = Head(Top.entries).file,
         NEW r, r \in 1..Len(calls), calls[r].fn = "pass1",
         NEW V \in SUBSET Files, Pass1OK(r, V)
  PROVE  /\ n \in Nat \ {0} /\ r \in 1..n - 1 /\ r \in Nat /\ x \in V /\ g \in Files
         /\ HasEFC(x) /\ ~Rooted(x, r) /\ calls'[r] = calls[r]
         /\ \A i \in 1..n - 1 : Tagging(i) => calls[i].file # x
         /\ x \in Unseen(g, V) /\ x \in Parents(g)
         /\ g \in found => tag[g] > 0
         /\ g \in V => g \in found
         /\ Head(Top.entries).nopen = 0
<1>0. EfcTypeOK /\ ~Idle /\ Top.fn = "tag1" /\ ClientsHold
  BY DEF EfcInv, tag1_entry, Running
<1>1. /\ n \in Nat \ {0} /\ n \in 1..Len(calls) /\ Top = calls[n] /\ x \in Files /\ g \in Files
      /\ x \in Parents(g) /\ Head(Top.entries) \in Entries(x)
      /\ \A i \in 1..n - 1 : calls'[i] = calls[i]
  BY EntryMoves
<1>2. Run(r) /\ r # n
  BY <1>0, <1>1 DEF Run, Runs
<1>3. r \in 1..n - 1 /\ n \in r + 1..Len(calls) /\ r \in Nat
  BY <1>0, <1>1, <1>2, RunBelow
<1>4. x \in V
  BY <1>1, <1>3 DEF Pass1OK
<1>5. HasEFC(x) /\ ~Rooted(x, r)
  BY <1>4 DEF Pass1OK
<1>6. ASSUME NEW i \in 1..n - 1, Tagging(i) PROVE calls[i].file # x
  <2>1. PICK s \in 1..i - 1 : calls[s].fn \in {"pass1", "pass2"}
    BY <1>1, <1>6 DEF TagInPass, Tagging
  <2>2. Run(s) /\ s \in 1..Len(calls)
    BY <1>1, <2>1 DEF Run, Runs
  <2>3. s = r
    BY <1>2, <1>3, <1>1, <2>2 DEF OneRun
  <2>4. i \in r + 1..Len(calls) /\ i # n
    BY <1>1, <2>1, <2>3
  <2> QED BY <2>4, <1>1, <1>3 DEF Pass1OK
<1>7. x \in Unseen(g, V)
  <2>1. Ahead(x, g)
    BY EntryAhead
  <2> QED BY <2>1, <1>1 DEF Unseen
<1>8. g \in found => tag[g] > 0
  <2>1. IsFiniteSet(Unseen(g, V))
    <3>1. IsFiniteSet(Parents(g)) /\ Unseen(g, V) \subseteq Parents(g)
      BY <1>0, CountsFacts DEF Unseen
    <3> QED BY <3>1, FS_Subset
  <2>2. Cardinality(Unseen(g, V)) > 0
    <3>1. Cardinality(Unseen(g, V)) \in Nat
      BY <2>1, FS_CardinalityType
    <3>2. Cardinality(Unseen(g, V)) # 0
      BY <1>7, <2>1, FS_EmptySet
    <3> QED BY <3>1, <3>2
  <2> QED BY <2>2 DEF Pass1OK
<1>9. g \in V => g \in found
  BY <1>7 DEF Pass1OK
<1>10. Head(Top.entries).nopen = 0
  <2>1. Head(Top.entries).nopen > 0 => Rooted(x, r)
    BY <1>0, <1>1, ClientRooted
  <2>2. Head(Top.entries).nopen \in Nat
    BY <1>0, LaterFacts DEF EntryRecord, tag1_entry
  <2> QED BY <2>1, <2>2, <1>5
<1> QED BY <1>1, <1>3, <1>4, <1>5, <1>6, <1>7, <1>8, <1>9, <1>10

\* A file that the walk of x has passed has been seen there.
LEMMA SeenPassed ==
  ASSUME EfcInv, OneRun, TagInPass, TagWalks, tag1_entry,
         NEW n, n = Len(calls), NEW x, x = Top.file, NEW g, g = Head(Top.entries).file,
         NEW r, r \in 1..Len(calls), calls[r].fn = "pass1",
         NEW V \in SUBSET Files, Pass1OK(r, V), Len(calls') = n, NEW h \in Files
  PROVE  Unseen(h, V)' = IF h = g THEN Unseen(h, V) \ {x} ELSE Unseen(h, V)
<1>1. /\ n \in Nat \ {0} /\ x \in V /\ g \in Files
      /\ \A i \in 1..n - 1 : Tagging(i) => calls[i].file # x
  BY Tag1Place
<1>2. \A f \in Files : Parents(f)' = Parents(f)
  BY Tag1Cases
<1>3. /\ \A p, h1 : h1 # g /\ Ahead(p, h1) => Ahead(p, h1)'
      /\ \A p, h1 : h1 # g /\ Ahead(p, h1)' => Ahead(p, h1) \/ (p = g /\ Len(calls') = n + 1)
      /\ Len(calls') = n + 1 => \A h1 : g \in Parents(h1) => Ahead(g, h1)'
      /\ \A p : p # x /\ (p # g \/ Len(calls') = n) => (Ahead(p, g)' <=> Ahead(p, g))
      /\ (\A i \in 1..n - 1 : Tagging(i) => calls[i].file # x) /\ (x # g \/ Len(calls') = n)
           => ~Ahead(x, g)'
  BY EntryAhead
<1>4. Len(calls') # n + 1
  BY <1>1
<1>5. CASE h # g
  <2>1. \A p : Ahead(p, h)' <=> Ahead(p, h)
    BY <1>3, <1>4, <1>5
  <2> QED BY <1>2, <1>5, <2>1 DEF Unseen
<1>6. CASE h = g
  <2>1. ~Ahead(x, g)' /\ \A p : p # x => (Ahead(p, g)' <=> Ahead(p, g))
    BY <1>1, <1>3
  <2> QED BY <1>1, <1>2, <1>6, <2>1 DEF Unseen
<1> QED BY <1>5, <1>6

\* What referred to a file before the cache of x was opened by NoOutsideRefs, ...
LEMMA OnlyCaches ==
  ASSUME EfcTypeOK, CountsAgree, NEW g \in Files, HasEFC(g), NoOutsideRefs(g), NEW k
  PROVE  ~Rooted(g, k) /\ TopsClosing(g) = {} /\ shared_nrefs[g] = Cardinality(Parents(g))
<1>1. PICK u, l, o, P, T \in Nat : /\ u = user[g] /\ l = loose[g] /\ o = orphaned[g]
                                  /\ P = Cardinality(Parents(g))
                                  /\ T = Cardinality(TopsClosing(g))
  BY CountsFacts DEF EfcTypeOK
<1>2. u + l + o + P + T = P
  BY <1>1 DEF CountsAgree, NoOutsideRefs
<1>3. u = 0 /\ l = 0 /\ o = 0 /\ T = 0
  BY <1>2
<1>4. TopsClosing(g) = {}
  BY <1>1, <1>3, CountsFacts, FS_EmptySet
<1>5. shared_nrefs[g] = P
  BY <1>1, <1>2 DEF CountsAgree
<1> QED BY <1>1, <1>3, <1>4, <1>5 DEF Rooted

\* Pass 1 counts an entry down, visits its file, or neither may be.
LEMMA Tag1EntryKept ==
  ASSUME EfcInv, OneRun, TagInPass, TagWalks, TagsTell, tag1_entry,
         NEW n, n = Len(calls), NEW x, x = Top.file, NEW g, g = Head(Top.entries).file,
         NEW r, r \in 1..Len(calls), calls[r].fn = "pass1",
         NEW V \in SUBSET Files, Pass1OK(r, V)
  PROVE  \E V2 \in SUBSET Files : Pass1OK(r, V2)'
<1>0. EfcTypeOK /\ CountsAgree /\ Callers /\ ~Idle
  BY DEF EfcInv, tag1_entry, Running
<1>1. /\ n \in Nat \ {0} /\ r \in 1..n - 1 /\ r \in Nat /\ x \in V /\ g \in Files
      /\ HasEFC(x) /\ ~Rooted(x, r) /\ calls'[r] = calls[r]
      /\ \A i \in 1..n - 1 : Tagging(i) => calls[i].file # x
      /\ x \in Unseen(g, V) /\ x \in Parents(g)
      /\ g \in found => tag[g] > 0
      /\ g \in V => g \in found
      /\ Head(Top.entries).nopen = 0
  BY Tag1Place
<1>2. ASSUME Len(calls') = n, NEW h \in Files
      PROVE  Unseen(h, V)' = IF h = g THEN Unseen(h, V) \ {x} ELSE Unseen(h, V)
  BY <1>2, SeenPassed
<1>a. /\ \A p, h : h # g /\ Ahead(p, h) => Ahead(p, h)'
      /\ \A p, h : h # g /\ Ahead(p, h)' => Ahead(p, h) \/ (p = g /\ Len(calls') = n + 1)
      /\ Len(calls') = n + 1 => \A h : g \in Parents(h) => Ahead(g, h)'
      /\ \A p : p # x /\ (p # g \/ Len(calls') = n) => (Ahead(p, g)' <=> Ahead(p, g))
      /\ (\A i \in 1..n - 1 : Tagging(i) => calls[i].file # x) /\ (x # g \/ Len(calls') = n)
           => ~Ahead(x, g)'
  BY EntryAhead, SMTT(60)
<1>3. /\ shared_nrefs' = shared_nrefs
      /\ \A f \in Files : Parents(f)' = Parents(f)
      /\ \A f : Rooted(f, r)' <=> Rooted(f, r)
  BY <1>1, Tag1Cases, SMTT(60)
<1>4. /\ calls'[n].file = x /\ Top = calls[n]
      /\ Len(calls') = n \/ Len(calls') = n + 1
      /\ Len(calls') = n + 1 => calls'[n + 1].file = g
      /\ \A i \in 1..n - 1 : calls'[i] = calls[i]
  BY EntryMoves, SMTT(60)
<1>5. /\ calls[r].file \in found /\ found \subseteq V
      /\ \A i \in r + 1..n : calls[i].file \in V
      /\ \A i, j \in r + 1..n : calls[i].file = calls[j].file => i = j
      /\ \A h \in V : HasEFC(h) /\ ~Rooted(h, r)
      /\ \A h \in found : tag[h] = Cardinality(Unseen(h, V)) /\ shared_nrefs[h] > 1
      /\ \A h \in V \ found : shared_nrefs[h] = 1 /\ Unseen(h, V) = {}
      /\ \A h \in Files \ V : HasEFC(h) /\ ~Rooted(h, r) => Unseen(h, V) = Parents(h)
      /\ \A h \in Files \ found : tag[h] \in {TAG_DEFAULT, TAG_LOCK}
  BY DEF Pass1OK
<1>6. \A i \in r + 1..n : calls'[i].file = calls[i].file
  <2>1. \A i \in r + 1..n : i = n \/ i \in 1..n - 1
    BY <1>1
  <2> QED BY <2>1, <1>4
<1>7. \A h : IsFiniteSet(Parents(h)) /\ Cardinality(Parents(h)) \in Nat
  BY <1>0, CountsFacts
<1>8. Cardinality(Unseen(g, V) \ {x}) = Cardinality(Unseen(g, V)) - 1
  <2>1. IsFiniteSet(Unseen(g, V))
    <3>1. Unseen(g, V) \subseteq Parents(g)
      BY DEF Unseen
    <3> QED BY <3>1, <1>7, FS_Subset
  <2> QED BY <2>1, <1>1, FS_RemoveElement
<1>9. CASE /\ HasEFC(g) /\ tag[g] > 0 /\ Len(calls') = n
           /\ tag'[g] = tag[g] - 1 /\ found' = found
           /\ \A h \in Files \ {g} : tag'[h] = tag[h]
  <2>1. g \in found /\ V \subseteq Files
    BY <1>1, <1>5, <1>9 DEF TAG_DEFAULT, TAG_LOCK
  <2>2. tag'[g] = Cardinality(Unseen(g, V)')
    BY <1>2, <1>5, <1>8, <1>9, <2>1
  <2>3. \A h \in found : tag'[h] = Cardinality(Unseen(h, V)')
    BY <1>2, <1>5, <1>9, <2>1, <2>2
  <2>4. \A h \in V \ found : Unseen(h, V)' = {}
    BY <1>2, <1>5, <1>9, <2>1
  <2>5. \A h \in Files \ V : HasEFC(h) /\ ~Rooted(h, r)' => Unseen(h, V)' = Parents(h)'
    BY <1>2, <1>3, <1>5, <1>9, <2>1
  <2>6. \A h \in Files \ found : tag'[h] \in {TAG_DEFAULT, TAG_LOCK}
    BY <1>5, <1>9, <2>1
  <2>7. Pass1OK(r, V)'
    BY <1>1, <1>3, <1>5, <1>6, <1>9, <2>3, <2>4, <2>5, <2>6 DEF Pass1OK, HasEFC
  <2> QED BY <2>7
<1>10. CASE /\ HasEFC(g) /\ ~(tag[g] > 0) /\ NoOutsideRefs(g) /\ Len(calls') = n + 1
            /\ IF shared_nrefs[g] > 1
               THEN tag'[g] = shared_nrefs[g] - 1 /\ found' = found \cup {g}
               ELSE tag'[g] = tag[g] /\ found' = found
            /\ \A h \in Files \ {g} : tag'[h] = tag[h]
  <2>0. PICK V2 : V2 = V \cup {g}
    OBVIOUS
  <2>1. g \notin V /\ g \notin found /\ V2 \in SUBSET Files /\ V \subseteq Files
    BY <1>1, <1>5, <1>10, <2>0
  <2>a. ASSUME NEW h \in Files
        PROVE  Unseen(h, V2)' = IF h = g THEN Unseen(h, V) \ {x} ELSE Unseen(h, V)
    <3>1. x # g
      BY <1>1, <2>1
    <3>2. CASE h # g
      <4>1. \A p : p # g => (Ahead(p, h)' <=> Ahead(p, h))
        BY <1>a, <3>2
      <4>2. g \in Parents(h) => Ahead(g, h)'
        BY <1>a, <1>10
      <4> QED BY <1>3, <2>0, <2>1, <3>2, <4>1, <4>2 DEF Unseen
    <3>3. CASE h = g
      <4>1. ~Ahead(x, g)' /\ \A p : p # x /\ p # g => (Ahead(p, g)' <=> Ahead(p, g))
        BY <1>1, <1>a, <3>1
      <4>2. g \in Parents(g) => Ahead(g, g)'
        BY <1>a, <1>10
      <4> QED BY <1>1, <1>3, <2>0, <2>1, <3>1, <3>3, <4>1, <4>2 DEF Unseen
    <3> QED BY <3>2, <3>3
  <2>2. ~Rooted(g, r) /\ shared_nrefs[g] = Cardinality(Parents(g))
    BY <1>0, <1>1, <1>10, OnlyCaches
  <2>3. Unseen(g, V) = Parents(g)
    BY <1>1, <1>5, <1>10, <2>1, <2>2
  <2>4. Cardinality(Unseen(g, V2)') = shared_nrefs[g] - 1
    BY <1>1, <2>a, <1>8, <2>2, <2>3
  <2>5. ASSUME ~(shared_nrefs[g] > 1) PROVE shared_nrefs[g] = 1 /\ Unseen(g, V2)' = {}
    <3>1. Cardinality(Parents(g)) = 1
      <4>1. Cardinality(Parents(g)) # 0
        BY <1>1, <1>7, FS_EmptySet
      <4> QED BY <4>1, <1>7, <2>2, <2>5
    <3>2. PICK p : Parents(g) = {p}
      BY <3>1, <1>7, FS_Singleton
    <3> QED BY <3>1, <3>2, <1>1, <2>a, <1>10, <2>1, <2>2, <2>3
  <2>6. \A h \in found' : tag'[h] = Cardinality(Unseen(h, V2)') /\ shared_nrefs[h] > 1
    <3>1. ASSUME NEW h \in found PROVE tag'[h] = Cardinality(Unseen(h, V2)') /\ shared_nrefs[h] > 1
      <4>1. h # g /\ h \in Files
        BY <1>5, <2>1
      <4> QED BY <4>1, <2>a, <1>5, <1>10
    <3>2. shared_nrefs[g] > 1 => tag'[g] = Cardinality(Unseen(g, V2)')
      BY <1>10, <2>4
    <3> QED BY <3>1, <3>2, <1>10
  <2>7. \A h \in V2 \ found' : shared_nrefs[h] = 1 /\ Unseen(h, V2)' = {}
    <3>1. ASSUME NEW h \in V \ found PROVE shared_nrefs[h] = 1 /\ Unseen(h, V2)' = {}
      <4>1. h # g /\ h \in Files
        BY <1>5, <2>1
      <4> QED BY <4>1, <2>a, <1>5, <1>10
    <3> QED BY <3>1, <1>10, <2>0, <2>5
  <2>8. ASSUME NEW h \in Files \ V2, HasEFC(h), ~Rooted(h, r)'
        PROVE  Unseen(h, V2)' = Parents(h)'
    <3>1. h \in Files \ V /\ h # g
      BY <2>0
    <3>2. ~Rooted(h, r)
      BY <1>3, <2>8
    <3>3. Unseen(h, V) = Parents(h) /\ Parents(h)' = Parents(h)
      BY <1>3, <1>5, <2>8, <3>1, <3>2
    <3> QED BY <2>a, <3>1, <3>3
  <2>9. \A h \in Files \ found' : tag'[h] \in {TAG_DEFAULT, TAG_LOCK}
    BY <1>1, <1>5, <1>10, <2>1
  <2>10. \A i \in r + 1..Len(calls') : calls'[i].file \in V2
    <3>1. \A i \in (r + 1)..(n + 1) : i = n + 1 \/ i \in r + 1..n
      BY <1>1
    <3> QED BY <3>1, <1>4, <1>5, <1>6, <1>10, <2>0
  <2>11. \A i, j \in r + 1..Len(calls') : calls'[i].file = calls'[j].file => i = j
    <3>1. \A i \in (r + 1)..(n + 1) : i = n + 1 \/ i \in r + 1..n
      BY <1>1
    <3>2. \A i \in r + 1..n : calls'[i].file # g
      BY <1>5, <1>6, <2>1
    <3> QED BY <3>1, <3>2, <1>4, <1>5, <1>6, <1>10
  <2>12. calls'[r].file \in found' /\ found' \subseteq V2
    BY <1>1, <1>5, <1>10, <2>0
  <2>13. \A h \in V2 : HasEFC(h) /\ ~Rooted(h, r)'
    BY <1>3, <1>5, <1>10, <2>0, <2>2
  <2>14. Pass1OK(r, V2)'
    BY <1>1, <1>3, <2>6, <2>7, <2>8, <2>9, <2>10, <2>11, <2>12, <2>13 DEF Pass1OK, HasEFC
  <2> QED BY <2>1, <2>14
<1>11. CASE /\ ~(HasEFC(g) /\ tag[g] > 0)
            /\ ~(/\ HasEFC(g) /\ NoOutsideRefs(g) /\ tag[g] # TAG_LOCK
                 /\ Head(Top.entries).nopen = 0)
            /\ Len(calls') = n /\ tag' = tag /\ found' = found
  <2>1. g \notin V
    BY <1>1, <1>5, <1>11
  <2>2. ASSUME HasEFC(g), ~Rooted(g, r) PROVE FALSE
    <3>1. /\ user[g] = 0 /\ loose[g] = 0 /\ orphaned[g] = 0
          /\ shared_nrefs[g] = Cardinality(Parents(g)) + Cardinality(TopsClosing(g))
          /\ \A i \in TopsClosing(g) : i >= r
      BY <1>0, <1>1, <2>2, OutsideCount
    <3>2. TopsClosing(g) = {}
      <4>1. ASSUME NEW i \in TopsClosing(g) PROVE FALSE
        <5>1. i \in 1..Len(calls) /\ calls[i].fn \in Closing /\ calls[i].file = g /\ i >= r
          BY <3>1 DEF TopsClosing
        <5>2. i # r
          BY <5>1, <1>5, <2>1
        <5>3. i \in r + 1..n
          BY <5>1, <5>2, <1>1
        <5> QED BY <5>1, <5>3, <1>4, <1>5, <2>1
      <4> QED BY <4>1
    <3>3. NoOutsideRefs(g)
      <4>1. Cardinality(TopsClosing(g)) = 0
        BY <3>2, FS_EmptySet
      <4> QED BY <4>1, <3>1, <1>0, <1>1, <1>7, <2>2 DEF NoOutsideRefs, CountsAgree
    <3>4. tag[g] # TAG_LOCK
      <4>1. ASSUME tag[g] = TAG_LOCK PROVE FALSE
        <5>1. PICK j \in 1..Len(calls) : Releasing(j) /\ calls[j].file = g
          BY <4>1, <1>1 DEF TagsTell
        <5>2. j \notin r + 1..n
          BY <5>1, <1>5, <2>1
        <5>3. j <= r
          BY <5>2, <1>1
        <5> QED BY <5>1, <5>3, <1>0, <1>1, <2>2, ReleasedRooted
      <4> QED BY <4>1
    <3> QED BY <3>3, <3>4, <1>1, <1>11, <2>2
  <2>3. \A h \in found : tag'[h] = Cardinality(Unseen(h, V)')
    BY <1>2, <1>5, <1>11, <2>1
  <2>4. \A h \in V \ found : Unseen(h, V)' = {}
    BY <1>2, <1>5, <1>11, <2>1
  <2>5. \A h \in Files \ V : HasEFC(h) /\ ~Rooted(h, r)' => Unseen(h, V)' = Parents(h)'
    BY <1>2, <1>3, <1>5, <1>11, <2>2
  <2>6. \A h \in Files \ found : tag'[h] \in {TAG_DEFAULT, TAG_LOCK}
    BY <1>5, <1>11
  <2>7. Pass1OK(r, V)'
    BY <1>1, <1>3, <1>5, <1>6, <1>11, <2>3, <2>4, <2>5, <2>6 DEF Pass1OK, HasEFC
  <2> QED BY <2>7
<1>12. \/ /\ HasEFC(g) /\ tag[g] > 0 /\ Len(calls') = n
          /\ tag'[g] = tag[g] - 1 /\ found' = found
          /\ \A h \in Files \ {g} : tag'[h] = tag[h]
       \/ /\ HasEFC(g) /\ ~(tag[g] > 0) /\ NoOutsideRefs(g) /\ tag[g] # TAG_LOCK
          /\ Head(Top.entries).nopen = 0 /\ Len(calls') = n + 1
          /\ IF shared_nrefs[g] > 1
             THEN tag'[g] = shared_nrefs[g] - 1 /\ found' = found \cup {g}
             ELSE tag'[g] = tag[g] /\ found' = found
          /\ \A h \in Files \ {g} : tag'[h] = tag[h]
       \/ /\ ~(HasEFC(g) /\ tag[g] > 0)
          /\ ~(/\ HasEFC(g) /\ NoOutsideRefs(g) /\ tag[g] # TAG_LOCK
               /\ Head(Top.entries).nopen = 0)
          /\ Len(calls') = n /\ tag' = tag /\ found' = found
  BY Tag1Cases, SMTT(60)
<1> QED BY <1>9, <1>10, <1>11, <1>12

\* The end of a walk leaves nothing ahead that is not in another walk.
LEMMA Tag1ReturnKept ==
  ASSUME EfcInv, OneRun, TagInPass, tag1_return,
         NEW r, r \in 1..Len(calls), calls[r].fn = "pass1",
         NEW V \in SUBSET Files, Pass1OK(r, V)
  PROVE  Pass1OK(r, V)'
<1>0. EfcTypeOK /\ ~Idle /\ Step /\ Top.fn = "tag1" /\ Top.entries = <<>> /\ Popped
  BY PassMoves DEF EfcInv, tag1_return, Running, Step, Pass1, Moves
<1>p. PICK n : n = Len(calls)
  OBVIOUS
<1>1. n \in Nat \ {0} /\ Top = calls[n] /\ Len(calls') = n - 1 /\ n \in 1..Len(calls)
  BY <1>0, <1>p, StackAfter DEF Popped
<1>2. ~try_close_objects /\ ~dest_top /\ ~dest_shared /\ ~release_entry /\ ~efc_open_evicted
  BY DEF tag1_return, try_close_objects, dest_top, dest_shared, release_entry, efc_open_evicted,
         Running
<1>3. /\ shared_nrefs' = shared_nrefs /\ tag' = tag /\ found' = found
      /\ \A f \in Files : Parents(f)' = Parents(f)
  BY <1>0, <1>2, QuietFacts DEF tag1_return
<1>4. Run(r) /\ r # n
  BY <1>0, <1>1 DEF Run, Runs
<1>5. r \in 1..n - 1 /\ r \in Nat
  BY <1>0, <1>1, <1>p, <1>4, RunBelow
<1>6. \A f : Rooted(f, r)' <=> Rooted(f, r)
  BY <1>0, <1>1, <1>2, <1>5, <1>p, RootedKept
<1>7. \A i \in 1..n - 1 : calls'[i] = calls[i]
  BY <1>0, <1>p DEF Popped
<1>8. \A p, g : Ahead(p, g)' <=> Ahead(p, g)
  <2>1. \A i \in 1..n - 1 : \A p, g : Coming(i, p, g)' <=> Coming(i, p, g)
    <3>1. \A i \in 1..n - 1 : i \in 1..Len(calls) /\ i \in 1..Len(calls')
      BY <1>1, <1>p
    <3> QED BY <3>1, <1>7 DEF Coming, Tagging
  <2>2. \A p, g : ~Coming(n, p, g)
    <3>1. 1..Len(calls[n].entries) = {}
      BY <1>0, <1>1
    <3> QED BY <3>1 DEF Coming
  <2>3. \A i \in 1..Len(calls) : i = n \/ i \in 1..n - 1
    BY <1>1, <1>p
  <2>4. \A i \in 1..n - 1 : i \in 1..Len(calls) /\ i \in 1..Len(calls')
    BY <1>1, <1>p
  <2> QED BY <2>1, <2>2, <2>3, <2>4, <1>1 DEF Ahead
<1>9. \A g \in Files : Unseen(g, V)' = Unseen(g, V)
  BY <1>3, <1>8 DEF Unseen
<1>10. \A i \in r + 1..n - 1 : i \in r + 1..n /\ i \in 1..n - 1
  BY <1>1, <1>5
<1>11. V \subseteq Files
  OBVIOUS
<1>12. /\ calls'[r].file \in found' /\ found' \subseteq V
       /\ \A i \in r + 1..Len(calls') : calls'[i].file \in V
       /\ \A i, j \in r + 1..Len(calls') : calls'[i].file = calls'[j].file => i = j
  BY <1>1, <1>3, <1>5, <1>7, <1>10, <1>p DEF Pass1OK
<1>13. /\ \A g \in V : HasEFC(g) /\ ~Rooted(g, r)'
       /\ \A g \in found' : tag'[g] = Cardinality(Unseen(g, V)') /\ shared_nrefs'[g] > 1
       /\ \A g \in V \ found' : shared_nrefs'[g] = 1 /\ Unseen(g, V)' = {}
       /\ \A g \in Files \ V : HasEFC(g) /\ ~Rooted(g, r)' => Unseen(g, V)' = Parents(g)'
       /\ \A g \in Files \ found' : tag'[g] \in {TAG_DEFAULT, TAG_LOCK}
  BY <1>3, <1>6, <1>9, <1>11 DEF Pass1OK
<1> QED BY <1>12, <1>13 DEF Pass1OK, HasEFC

\* A step that changes none of the counts: nothing comes or goes that keeps a file
\* open besides the calls from k on.
LEMMA QuietNeeds ==
  ASSUME EfcInv, Step, ~try_close_objects, ~dest_top, ~dest_shared, ~release_entry,
         ~efc_open_evicted
  PROVE  /\ shared_nrefs' = shared_nrefs /\ efc_nrefs' = efc_nrefs /\ lru' = lru
         /\ \A f \in Files : Parents(f)' = Parents(f) /\ TopsClosing(f)' = TopsClosing(f)
         /\ \A f : \A k \in 0..Len(calls) : Rooted(f, k)' <=> Rooted(f, k)
         /\ \A U \in SUBSET Files : \A k \in 0..Len(calls) : Unused(U, k)' <=> Unused(U, k)
         /\ \A f : \A k \in 0..Len(calls) : Needed(f, k)' <=> Needed(f, k)
<1>0. EfcTypeOK /\ Len(calls) \in Nat
  BY DEF EfcInv, EfcTypeOK
<1>1. /\ shared_nrefs' = shared_nrefs /\ efc_nrefs' = efc_nrefs /\ lru' = lru
      /\ \A f \in Files : Parents(f)' = Parents(f) /\ TopsClosing(f)' = TopsClosing(f)
  BY QuietFacts
<1>2. ASSUME NEW f, NEW k \in 0..Len(calls) PROVE Rooted(f, k)' <=> Rooted(f, k)
  <2>1. k \in Nat /\ k <= Len(calls)
    BY <1>0
  <2> QED BY <1>0, <2>1, RootedKept
<1>3. ASSUME NEW U \in SUBSET Files, NEW k \in 0..Len(calls)
      PROVE  Unused(U, k)' <=> Unused(U, k)
  BY <1>1, <1>2 DEF Unused
<1>4. ASSUME NEW f, NEW k \in 0..Len(calls) PROVE Needed(f, k)' <=> Needed(f, k)
  BY <1>3 DEF Needed
<1> QED BY <1>1, <1>2, <1>3, <1>4

\* The steps of the passes are such steps.
LEMMA PassQuiet ==
  ASSUME Step, Top.fn \in {"pass1", "tag1", "pass2", "tag2", "cleanup"}
  PROVE  ~try_close_objects /\ ~dest_top /\ ~dest_shared /\ ~release_entry /\ ~efc_open_evicted
BY DEF try_close_objects, dest_top, dest_shared, release_entry, efc_open_evicted, Running

\* After pass 1, a file is needed of which it has not seen all references.
LEMMA Pass1Complete ==
  ASSUME EfcInv, NoGarbage, NoCacheEmpty, OneRun, TagInPass, ~Idle, Top.fn = "pass1",
         NEW n, n = Len(calls), NEW V \in SUBSET Files, Pass1OK(n, V),
         NEW g \in V, Unseen(g, V) # {}
  PROVE  Needed(g, n)
<1> SUFFICES ASSUME NEW U \in SUBSET Files, Unused(U, n), g \in U PROVE FALSE
  BY DEF Needed
<1>0. EfcTypeOK /\ CountsAgree
  BY DEF EfcInv
<1>1. n \in Nat \ {0} /\ n \in 1..Len(calls) /\ Top = calls[n]
  BY <1>0, TopFacts DEF Top
<1>2. Run(Len(calls))
  BY <1>1 DEF Run, Runs
<1>3. \A p, h : ~Ahead(p, h)
  BY <1>0, <1>2, RunAlone
<1>4. PICK p \in Unseen(g, V) : TRUE
  OBVIOUS
<1>5. p \in Parents(g) /\ p \notin V /\ p \in U
  BY <1>3, <1>4 DEF Unseen, Unused
<1>6. /\ calls[n].file \in V
      /\ \A q \in Files \ V : HasEFC(q) /\ ~Rooted(q, n) => Unseen(q, V) = Parents(q)
  BY DEF Pass1OK
<1> DEFINE G == {q \in U \ V : HasEFC(q)}
<1>7. Unused(G, Len(calls) + 1)
  <2> SUFFICES ASSUME NEW q \in G
               PROVE  ~Rooted(q, Len(calls) + 1) /\ Parents(q) \subseteq G
    BY DEF Unused
  <2>1. q \in Files \ V /\ HasEFC(q) /\ ~Rooted(q, n) /\ Parents(q) \subseteq U
    BY DEF Unused
  <2>2. \A s \in Parents(q) : s \notin V
    BY <1>3, <1>6, <2>1 DEF Unseen
  <2>3. \A s \in Parents(q) : HasEFC(s)
    BY <1>0, <2>1, ParentFacts
  <2>4. ASSUME NEW i \in TopsClosing(q) PROVE FALSE
    <3>1. i \in 1..Len(calls) /\ calls[i].file = q
      BY DEF TopsClosing
    <3>2. i = n \/ i < n
      BY <1>1, <3>1
    <3> QED BY <1>6, <2>1, <3>1, <3>2 DEF Rooted
  <2>5. ~Rooted(q, Len(calls) + 1)
    BY <2>1, <2>4 DEF Rooted
  <2> QED BY <2>1, <2>2, <2>3, <2>5
<1>8. shared_nrefs[p] > 0 /\ p \in G
  BY <1>0, <1>5, ParentFacts
<1>9. shared_nrefs[p] = 0
  BY <1>7, <1>8 DEF NoGarbage
<1> QED BY <1>8, <1>9

\* How many references pass 1 has not seen.
LEMMA UnseenCount ==
  ASSUME EfcTypeOK, NEW g, NEW V
  PROVE  Cardinality(Unseen(g, V)) \in Nat /\ (Cardinality(Unseen(g, V)) = 0 <=> Unseen(g, V) = {})
<1>1. IsFiniteSet(Parents(g)) /\ Unseen(g, V) \subseteq Parents(g)
  BY CountsFacts DEF Unseen
<1>2. IsFiniteSet(Unseen(g, V))
  BY <1>1, FS_Subset
<1> QED BY <1>2, FS_CardinalityType, FS_EmptySet

\* The root of a run that ends with pass 1 is needed.
LEMMA RootKept ==
  ASSUME EfcInv, NoGarbage, NoCacheEmpty, OneRun, TagInPass, pass1_keep,
         NEW n, n = Len(calls), NEW V \in SUBSET Files, Pass1OK(n, V)
  PROVE  Needed(Top.file, n) /\ Needed(Top.file, n)'
<1>0. EfcTypeOK /\ ~Idle /\ Step /\ Top.fn = "pass1"
  BY DEF EfcInv, pass1_keep, Running, Step, Pass1
<1>1. n \in Nat \ {0} /\ Top = calls[n] /\ Top.file \in V /\ n \in 0..Len(calls)
      /\ tag[Top.file] = Cardinality(Unseen(Top.file, V))
  BY <1>0, StackAfter DEF Pass1OK
<1>2. Unseen(Top.file, V) # {}
  <2>1. tag[Top.file] > 0
    BY DEF pass1_keep
  <2> QED BY <1>0, <1>1, <2>1, UnseenCount
<1>3. Needed(Top.file, n)
  BY <1>0, <1>1, <1>2, Pass1Complete
<1>4. PICK f : f = Top.file
  OBVIOUS
<1>5. Needed(f, n)'
  BY <1>0, <1>1, <1>3, <1>4, PassQuiet, QuietNeeds
<1>6. Top.file' = f
  <2>1. calls'[n].file = f /\ Len(calls') = n
    BY <1>0, <1>4, PassMoves DEF Moves, Replaced, At, Frame
  <2> QED BY <2>1 DEF Top
<1> QED BY <1>3, <1>5, <1>6

\* What pass 1 has visited is not locked.
LEMMA VisitedUnlocked ==
  ASSUME EfcInv, TagsTell, ~Idle, NEW g \in Files, ~Rooted(g, Len(calls))
  PROVE  tag[g] # TAG_LOCK
<1>0. EfcTypeOK /\ Callers
  BY DEF EfcInv
<1> SUFFICES ASSUME tag[g] = TAG_LOCK PROVE FALSE
  OBVIOUS
<1>1. PICK j \in 1..Len(calls) : Releasing(j) /\ calls[j].file = g
  BY DEF TagsTell
<1>2. Len(calls) \in Nat /\ j <= Len(calls)
  BY <1>0 DEF EfcTypeOK
<1> QED BY <1>0, <1>1, <1>2, ReleasedRooted

\* Pass 2 starts from the files that keep a reference.
LEMMA MarkPass ==
  ASSUME EfcInv, NoGarbage, NoCacheEmpty, OneRun, TagInPass, TagsTell, pass1_mark,
         NEW n, n = Len(calls), NEW V \in SUBSET Files, Pass1OK(n, V),
         NEW X, X = {g \in found : tag[g] > 0}
  PROVE  Pass2OK(n, V, X)'
<1> USE DEF TAG_DEFAULT, TAG_LOCK, TAG_CLOSE, TAG_DONTCLOSE
<1>0. EfcTypeOK /\ ~Idle /\ Step /\ Top.fn = "pass1"
  BY DEF EfcInv, pass1_mark, Running, Step, Pass1
<1>1. n \in Nat \ {0} /\ n \in 1..Len(calls) /\ Top = calls[n] /\ n \in 0..Len(calls)
  BY <1>0, StackAfter
<1>2. PICK f : f = Top.file
  OBVIOUS
<1>3. /\ Len(calls') = n /\ calls'[n].file = f /\ calls'[n].files = X
  <2>1. Replaced(Frame("pass2", Top.file, <<>>, X, 0))
    BY <1>0, PassMoves DEF Moves
  <2> QED BY <2>1, <1>2 DEF Replaced, Frame
<1>4. /\ tag' = [g \in Files |-> IF g \notin found THEN tag[g]
                                 ELSE IF tag[g] > 0 THEN TAG_DONTCLOSE ELSE TAG_CLOSE]
      /\ found' = X /\ tag \in [Files -> Int] /\ V \subseteq Files
  BY <1>0 DEF pass1_mark, EfcTypeOK
<1>5. /\ shared_nrefs' = shared_nrefs
      /\ \A g \in Files : Parents(g)' = Parents(g)
      /\ \A g : Rooted(g, n)' <=> Rooted(g, n)
      /\ \A g : Needed(g, n)' <=> Needed(g, n)
  BY <1>0, <1>1, PassQuiet, QuietNeeds
<1>6. /\ f \in found /\ found \subseteq V
      /\ \A g \in V : HasEFC(g) /\ ~Rooted(g, n)
      /\ \A g \in found : tag[g] = Cardinality(Unseen(g, V)) /\ shared_nrefs[g] > 1
      /\ \A g \in V \ found : shared_nrefs[g] = 1 /\ Unseen(g, V) = {}
      /\ \A g \in Files \ V : HasEFC(g) /\ ~Rooted(g, n) => Unseen(g, V) = Parents(g)
      /\ \A g \in Files \ found : tag[g] \in {TAG_DEFAULT, TAG_LOCK}
  BY <1>1, <1>2 DEF Pass1OK
<1>7. \A p, h : ~Ahead(p, h)
  <2>1. Run(Len(calls))
    BY <1>0, <1>1 DEF Run, Runs
  <2> QED BY <1>0, <2>1, RunAlone
<1>8. \A g \in V \ found : tag[g] = TAG_DEFAULT
  <2>1. \A g \in V \ found : g \in Files /\ ~Rooted(g, Len(calls))
    BY <1>4, <1>6
  <2> QED BY <1>0, <1>4, <1>6, <2>1, VisitedUnlocked
<1>9. \A g \in V \ X : Parents(g) \subseteq V
  <2> SUFFICES ASSUME NEW g \in V \ X PROVE Parents(g) \subseteq V
    OBVIOUS
  <2>1. Unseen(g, V) = {}
    <3>1. CASE g \in found
      <4>1. ~(tag[g] > 0)
        BY <3>1
      <4>2. tag[g] = Cardinality(Unseen(g, V))
        BY <1>6, <3>1
      <4>3. Cardinality(Unseen(g, V)) \in Nat
            /\ (Cardinality(Unseen(g, V)) = 0 <=> Unseen(g, V) = {})
        BY <1>0, UnseenCount
      <4> QED BY <4>1, <4>2, <4>3
    <3>2. CASE g \notin found
      BY <1>6, <3>2
    <3> QED BY <3>1, <3>2
  <2> QED BY <2>1 DEF Unseen
<1>10. \A g \in Files \ V : \A p \in V \cap Parents(g) : ~HasEFC(g) \/ Rooted(g, n)
  <2> SUFFICES ASSUME NEW g \in Files \ V, NEW p \in V \cap Parents(g), HasEFC(g), ~Rooted(g, n)
               PROVE  FALSE
    OBVIOUS
  <2>1. p \in Unseen(g, V)
    BY <1>6
  <2> QED BY <1>7, <2>1 DEF Unseen
<1>11. \A x \in X : Needed(x, n)
  <2> SUFFICES ASSUME NEW x \in X PROVE Needed(x, n)
    OBVIOUS
  <2>1. x \in V /\ tag[x] > 0 /\ tag[x] = Cardinality(Unseen(x, V))
    BY <1>6
  <2>2. Unseen(x, V) # {}
    BY <1>0, <2>1, UnseenCount
  <2> QED BY <1>0, <2>1, <2>2, Pass1Complete
<1>12. X \subseteq V /\ X \subseteq found /\ calls'[n].file \in V /\ shared_nrefs'[calls'[n].file] > 1
  BY <1>3, <1>5, <1>6
<1>13. \A g \in V : HasEFC(g) /\ ~Rooted(g, n)' /\ shared_nrefs'[g] > 0
  <2> SUFFICES ASSUME NEW g \in V PROVE HasEFC(g) /\ ~Rooted(g, n)' /\ shared_nrefs'[g] > 0
    OBVIOUS
  <2>1. shared_nrefs[g] > 0
    <3>1. CASE g \in found
      BY <1>6, <3>1, <1>0, <1>4 DEF EfcTypeOK
    <3>2. CASE g \notin found
      BY <1>6, <3>2
    <3> QED BY <3>1, <3>2
  <2>2. HasEFC(g) /\ ~Rooted(g, n)'
    BY <1>5, <1>6
  <2> QED BY <2>1, <2>2, <1>5
<1>14. \A g \in V : IF shared_nrefs'[g] > 1 THEN tag'[g] \in {TAG_CLOSE, TAG_DONTCLOSE}
                                            ELSE tag'[g] = TAG_DEFAULT
  BY <1>4, <1>5, <1>6, <1>8
<1>15. found' = {g \in V : tag'[g] = TAG_DONTCLOSE}
  <2>1. \A g \in V : tag'[g] = TAG_DONTCLOSE <=> g \in X
    BY <1>4, <1>6
  <2> QED BY <2>1, <1>4, <1>12
<1>16. found' = {g \in X : shared_nrefs'[g] > 1}
  BY <1>4, <1>5, <1>6, <1>12
<1>17. \A g \in Files \ V : tag'[g] \in {TAG_DEFAULT, TAG_LOCK}
  BY <1>4, <1>6
<1>18. \A g \in V \ X : (Parents(g))' \subseteq V
  BY <1>4, <1>5, <1>9
<1>19. \A g \in Files \ V : \A p \in V \cap Parents(g)' : ~HasEFC(g) \/ Rooted(g, n)'
  BY <1>5, <1>10
<1>20. \A x \in X : Needed(x, n)'
  BY <1>5, <1>11
<1>21. n + 1..Len(calls') = {}
  BY <1>1, <1>3
<1> HIDE DEF TAG_DEFAULT, TAG_LOCK, TAG_CLOSE, TAG_DONTCLOSE
<1> QED BY <1>3, <1>12, <1>13, <1>14, <1>15, <1>16, <1>17, <1>18, <1>19, <1>20, <1>21
        DEF Pass2OK, HasEFC
-----------------------------------------------------------------------------
\* Pass 2 takes the next of the files that keep a reference.
LEMMA Pass2FileKept ==
  ASSUME EfcInv, OneRun, TagInPass, pass2_file,
         NEW n, n = Len(calls), NEW V \in SUBSET Files, NEW X \in SUBSET Files, Pass2OK(n, V, X)
  PROVE  Pass2OK(n, V, X)'
<1>0. EfcTypeOK /\ OneEntry /\ ~Idle /\ Step /\ Top.fn = "pass2"
  BY DEF EfcInv, pass2_file, Running, Step, Pass2
<1>1. /\ n \in Nat \ {0} /\ n \in 1..Len(calls) /\ Top = calls[n] /\ n \in 0..Len(calls)
      /\ Top \in FrameRecord
  BY <1>0, StackAfter
<1>2. PICK z \in Top.files : Pushed(Over("tag2", z, lru[z]), [Top EXCEPT !.files = @ \ {z}])
  BY <1>0, PassMoves DEF Moves
<1>3. /\ Len(calls') = n + 1 /\ calls'[n].file = Top.file /\ calls'[n].files = Top.files \ {z}
      /\ calls'[n + 1].fn = "tag2" /\ calls'[n + 1].file = z /\ calls'[n + 1].entries = lru[z]
  BY <1>1, <1>2 DEF Pushed, Over, Frame, FrameRecord
<1>4. tag' = tag /\ found' = found /\ z \in Files
  BY <1>1 DEF pass2_file, FrameRecord
<1>5. /\ shared_nrefs' = shared_nrefs
      /\ \A g \in Files : Parents(g)' = Parents(g)
      /\ \A g : Rooted(g, n)' <=> Rooted(g, n)
      /\ \A g : Needed(g, n)' <=> Needed(g, n)
  BY <1>0, <1>1, PassQuiet, QuietNeeds
<1>6. \A p, h : ~Ahead(p, h)
  <2>1. Run(Len(calls))
    BY <1>0, <1>1 DEF Run, Runs
  <2> QED BY <1>0, <2>1, RunAlone
<1>7. ASSUME NEW h, z \in Parents(h) PROVE Ahead(z, h)'
  <2>1. PICK k \in 1..Len(lru[z]) : lru[z][k].file = h
    BY <1>0, <1>4, <1>7, CachedAt DEF Parents
  <2>2. n + 1 \in 1..Len(calls')
    BY <1>1, <1>3
  <2> QED BY <1>3, <2>1, <2>2 DEF Ahead, Coming, Tagging
<1>8. /\ Top.files \subseteq X
      /\ \A x \in X \ Top.files : \A g \in V \ X : x \notin Parents(g)
  BY <1>1, <1>6 DEF Pass2OK
<1>9. calls'[n].files \subseteq X
  BY <1>3, <1>8
<1>10. \A i \in n + 1..Len(calls') : calls'[i].file \in X
  <2>1. \A i \in n + 1..Len(calls') : i = n + 1
    BY <1>1, <1>3
  <2> QED BY <1>3, <1>8, <2>1
<1>11. ASSUME NEW x \in X \ calls'[n].files, NEW g \in V \ X, x \in Parents(g)'
       PROVE  Ahead(x, g)'
  <2>1. x \in Parents(g)
    BY <1>5, <1>11
  <2>2. x = z
    BY <1>3, <1>8, <1>11, <2>1
  <2> QED BY <1>7, <2>1, <2>2
<1>12. /\ calls'[n].file \in V /\ X \subseteq V
       /\ shared_nrefs'[calls'[n].file] > 1
       /\ \A g \in V : HasEFC(g) /\ ~Rooted(g, n)' /\ shared_nrefs'[g] > 0
       /\ \A g \in V : IF shared_nrefs'[g] > 1 THEN tag'[g] \in {TAG_CLOSE, TAG_DONTCLOSE}
                                               ELSE tag'[g] = TAG_DEFAULT
       /\ \A g \in V \ X : Parents(g)' \subseteq V
       /\ found' = {g \in V : tag'[g] = TAG_DONTCLOSE}
       /\ found' = {g \in X : shared_nrefs'[g] > 1}
  BY <1>1, <1>3, <1>4, <1>5 DEF Pass2OK
<1>13. /\ \A g \in Files \ V : \A p \in V \cap Parents(g)' : ~HasEFC(g) \/ Rooted(g, n)'
       /\ \A x \in X : Needed(x, n)'
       /\ \A g \in Files \ V : tag'[g] \in {TAG_DEFAULT, TAG_LOCK}
  BY <1>4, <1>5 DEF Pass2OK
<1> QED BY <1>9, <1>10, <1>11, <1>12, <1>13 DEF Pass2OK, HasEFC

\* The end of a walk leaves nothing ahead that is not in another walk.
LEMMA WalkEnds ==
  ASSUME EfcInv, OneRun, TagInPass, tag1_return \/ tag2_return,
         NEW n, n = Len(calls), NEW r, Run(r)
  PROVE  /\ n \in Nat \ {0} /\ r \in 1..n - 1 /\ r \in 0..Len(calls) /\ Len(calls') = n - 1
         /\ \A i \in 1..n - 1 : calls'[i] = calls[i] /\ i \in 1..Len(calls)
         /\ \A i \in r + 1..Len(calls') : i \in 1..n - 1 /\ i \in r + 1..Len(calls)
         /\ tag' = tag /\ found' = found
         /\ \A p, g : Ahead(p, g)' <=> Ahead(p, g)
<1>0. /\ EfcTypeOK /\ ~Idle /\ Step /\ Top.fn \in {"tag1", "tag2"} /\ Top.entries = <<>>
      /\ Popped /\ tag' = tag /\ found' = found
  BY PassMoves DEF EfcInv, tag1_return, tag2_return, Running, Step, Pass1, Pass2, Moves
<1>1. n \in Nat \ {0} /\ Top = calls[n] /\ Len(calls') = n - 1 /\ n \in 1..Len(calls)
  BY <1>0, StackAfter DEF Popped
<1>2. r # n
  BY <1>0, <1>1 DEF Run, Runs
<1>3. r \in 1..n - 1
  BY <1>0, <1>1, <1>2, RunBelow
<1>4. \A i \in 1..n - 1 : calls'[i] = calls[i] /\ i \in 1..Len(calls) /\ i \in 1..Len(calls')
  BY <1>0, <1>1 DEF Popped
<1>5. \A p, g : Ahead(p, g)' <=> Ahead(p, g)
  <2>1. \A i \in 1..n - 1 : \A p, g : Coming(i, p, g)' <=> Coming(i, p, g)
    BY <1>4 DEF Coming, Tagging
  <2>2. \A p, g : ~Coming(n, p, g)
    <3>1. 1..Len(calls[n].entries) = {}
      BY <1>0, <1>1
    <3> QED BY <3>1 DEF Coming
  <2>3. \A i \in 1..Len(calls) : i = n \/ i \in 1..n - 1
    BY <1>1
  <2> QED BY <2>1, <2>2, <2>3, <1>1, <1>4 DEF Ahead
<1>6. \A i \in r + 1..Len(calls') : i \in 1..n - 1 /\ i \in r + 1..Len(calls)
  BY <1>1, <1>3
<1>7. r \in 0..Len(calls)
  BY <1>1, <1>3
<1> QED BY <1>0, <1>1, <1>3, <1>4, <1>5, <1>6, <1>7

\* The walk of pass 2 over a cache ends.
LEMMA Tag2ReturnKept ==
  ASSUME EfcInv, OneRun, TagInPass, tag2_return,
         NEW r, r \in 1..Len(calls), calls[r].fn = "pass2",
         NEW V \in SUBSET Files, NEW X \in SUBSET Files, Pass2OK(r, V, X)
  PROVE  Pass2OK(r, V, X)'
<1>0. Step /\ Top.fn = "tag2" /\ Run(r) /\ Len(calls) = Len(calls)
  BY DEF tag2_return, Running, Step, Pass2, Run, Runs
<1>n. PICK n : n = Len(calls)
  OBVIOUS
<1>1. /\ n \in Nat \ {0} /\ r \in 1..n - 1 /\ r \in 0..Len(calls) /\ Len(calls') = n - 1
      /\ \A i \in 1..n - 1 : calls'[i] = calls[i] /\ i \in 1..Len(calls)
      /\ \A i \in r + 1..Len(calls') : i \in 1..n - 1 /\ i \in r + 1..Len(calls)
      /\ tag' = tag /\ found' = found
      /\ \A p, g : Ahead(p, g)' <=> Ahead(p, g)
  BY <1>0, <1>n, WalkEnds
<1>2. /\ shared_nrefs' = shared_nrefs
      /\ \A g \in Files : Parents(g)' = Parents(g)
      /\ \A g : Rooted(g, r)' <=> Rooted(g, r)
      /\ \A g : Needed(g, r)' <=> Needed(g, r)
  BY <1>0, <1>1, PassQuiet, QuietNeeds
<1>3. calls'[r] = calls[r]
  BY <1>1
<1>4. \A i \in r + 1..Len(calls') : calls'[i].file \in X
  BY <1>1 DEF Pass2OK
<1>5. \A x \in X \ calls'[r].files : \A g \in V \ X : x \in Parents(g)' => Ahead(x, g)'
  BY <1>1, <1>2, <1>3 DEF Pass2OK
<1>6. /\ calls'[r].file \in V /\ X \subseteq V /\ calls'[r].files \subseteq X
      /\ shared_nrefs'[calls'[r].file] > 1
      /\ \A g \in V : HasEFC(g) /\ ~Rooted(g, r)' /\ shared_nrefs'[g] > 0
      /\ \A g \in V : IF shared_nrefs'[g] > 1 THEN tag'[g] \in {TAG_CLOSE, TAG_DONTCLOSE}
                                              ELSE tag'[g] = TAG_DEFAULT
      /\ \A g \in V \ X : Parents(g)' \subseteq V
      /\ found' = {g \in V : tag'[g] = TAG_DONTCLOSE}
      /\ found' = {g \in X : shared_nrefs'[g] > 1}
  BY <1>1, <1>2, <1>3 DEF Pass2OK
<1>7. /\ \A g \in Files \ V : \A p \in V \cap Parents(g)' : ~HasEFC(g) \/ Rooted(g, r)'
      /\ \A x \in X : Needed(x, r)'
      /\ \A g \in Files \ V : tag'[g] \in {TAG_DEFAULT, TAG_LOCK}
  BY <1>1, <1>2 DEF Pass2OK
<1> QED BY <1>4, <1>5, <1>6, <1>7 DEF Pass2OK, HasEFC

\* What pass 2 does with an entry.
LEMMA Tag2Cases ==
  ASSUME EfcInv, tag2_entry,
         NEW n, n = Len(calls), NEW g, g = Head(Top.entries).file
  PROVE  \/ /\ HasEFC(g) /\ tag[g] = TAG_CLOSE /\ Len(calls') = n + 1
            /\ tag'[g] = TAG_DONTCLOSE /\ found' = found \cup {g}
            /\ \A h \in Files : h # g => tag'[h] = tag[h]
         \/ /\ HasEFC(g) /\ tag[g] = TAG_DEFAULT /\ NoOutsideRefs(g)
            /\ Len(calls') = n + 1 /\ tag' = tag /\ found' = found
         \/ /\ ~(/\ HasEFC(g)
                 /\ \/ tag[g] = TAG_CLOSE
                    \/ tag[g] = TAG_DEFAULT /\ NoOutsideRefs(g) /\ Head(Top.entries).nopen = 0)
            /\ Len(calls') = n /\ tag' = tag /\ found' = found
<1> USE DEF TAG_DEFAULT, TAG_LOCK, TAG_CLOSE, TAG_DONTCLOSE
<1>0. EfcTypeOK /\ ~Idle /\ Top.entries # <<>>
  BY DEF EfcInv, tag2_entry, Running
<1>1. tag \in [Files -> Int] /\ g \in Files /\ Len(calls) \in Nat
  <2>1. Head(Top.entries) \in EntryRecord
    BY <1>0, LaterFacts
  <2> QED BY <1>0, <2>1 DEF EntryRecord, EfcTypeOK
<1>2. /\ Continue(Later) => Len(calls') = n
      /\ \A callee : Call(callee, Later) => Len(calls') = n + 1
  BY <1>0, <1>1 DEF Continue, Call, EfcTypeOK
<1>3. CASE HasEFC(g) /\ tag[g] = TAG_CLOSE
  <2>1. /\ tag' = [tag EXCEPT ![g] = TAG_DONTCLOSE] /\ found' = found \cup {g}
        /\ Call(Over("tag2", g, lru[g]), Later)
    BY <1>3 DEF tag2_entry
  <2> QED BY <1>1, <1>2, <1>3, <2>1
<1>4. CASE HasEFC(g) /\ tag[g] = TAG_DEFAULT /\ NoOutsideRefs(g) /\ Head(Top.entries).nopen = 0
  <2>1. tag' = tag /\ found' = found /\ Call(Over("tag2", g, lru[g]), Later)
    BY <1>4 DEF tag2_entry
  <2> QED BY <1>2, <1>4, <2>1
<1>5. CASE ~(/\ HasEFC(g)
             /\ \/ tag[g] = TAG_CLOSE
                \/ tag[g] = TAG_DEFAULT /\ NoOutsideRefs(g) /\ Head(Top.entries).nopen = 0)
  <2>1. Continue(Later) /\ tag' = tag /\ found' = found
    BY <1>5 DEF tag2_entry
  <2> QED BY <1>2, <1>5, <2>1
<1> QED BY <1>3, <1>4, <1>5

\* Pass 2 visits the file of an entry, unless it has been there.
LEMMA Tag2EntryKept ==
  ASSUME EfcInv, OneRun, TagInPass, TagWalks, tag2_entry,
         NEW n, n = Len(calls), NEW x, x = Top.file, NEW g, g = Head(Top.entries).file,
         NEW r, r \in 1..Len(calls), calls[r].fn = "pass2",
         NEW V \in SUBSET Files, NEW X \in SUBSET Files, Pass2OK(r, V, X)
  PROVE  \E Y \in SUBSET Files : Pass2OK(r, V, Y)'
<1> USE DEF TAG_DEFAULT, TAG_LOCK, TAG_CLOSE, TAG_DONTCLOSE
<1>0. EfcTypeOK /\ CountsAgree /\ ClientsHold /\ ~Idle /\ Step /\ Top.fn = "tag2" /\ Run(r)
      /\ Top.entries # <<>>
  BY DEF EfcInv, tag2_entry, Running, Step, Pass2, Run, Runs
<1>a. tag1_entry \/ tag2_entry
  OBVIOUS
<1>b. /\ calls'[n].file = x /\ Top = calls[n]
      /\ Len(calls') = n \/ Len(calls') = n + 1
      /\ Len(calls') = n + 1 => calls'[n + 1].file = g
      /\ \A i \in 1..n - 1 : calls'[i] = calls[i]
  BY <1>a, EntryMoves, SMTT(60)
<1>c. /\ n \in Nat \ {0} /\ n \in 1..Len(calls)
      /\ x \in Files /\ g \in Files /\ x \in Parents(g) /\ Head(Top.entries) \in Entries(x)
  BY <1>a, EntryMoves, SMTT(60)
<1>1. /\ n \in Nat \ {0} /\ n \in 1..Len(calls) /\ Top = calls[n] /\ x \in Files /\ g \in Files
      /\ x \in Parents(g) /\ Head(Top.entries) \in Entries(x)
      /\ calls'[n].file = x
      /\ Len(calls') = n \/ Len(calls') = n + 1
      /\ Len(calls') = n + 1 => calls'[n + 1].file = g
      /\ \A i \in 1..n - 1 : calls'[i] = calls[i]
  BY <1>b, <1>c
<1>2. /\ \A p, h : h # g /\ Ahead(p, h) => Ahead(p, h)'
      /\ Len(calls') = n + 1 => \A h : g \in Parents(h) => Ahead(g, h)'
  BY EntryAhead, SMTT(60)
<1>3. r \in 1..n - 1 /\ r \in 0..Len(calls) /\ r \in Nat /\ n \in r + 1..Len(calls)
  <2>1. r # n
    BY <1>0, <1>1
  <2>2. r \in 1..Len(calls) - 1
    BY <1>0, <1>1, <2>1, RunBelow
  <2> QED BY <1>1, <2>2
<1>4. /\ shared_nrefs' = shared_nrefs
      /\ \A h \in Files : Parents(h)' = Parents(h)
      /\ \A h : Rooted(h, r)' <=> Rooted(h, r)
      /\ \A h : Needed(h, r)' <=> Needed(h, r)
  BY <1>0, <1>3, PassQuiet, QuietNeeds
<1>5. /\ calls[r].file \in V /\ X \subseteq V
      /\ shared_nrefs[calls[r].file] > 1
      /\ \A h \in V : HasEFC(h) /\ ~Rooted(h, r) /\ shared_nrefs[h] > 0
      /\ \A h \in V : IF shared_nrefs[h] > 1 THEN tag[h] \in {TAG_CLOSE, TAG_DONTCLOSE}
                                             ELSE tag[h] = TAG_DEFAULT
      /\ \A h \in V \ X : Parents(h) \subseteq V
      /\ found = {h \in V : tag[h] = TAG_DONTCLOSE}
      /\ found = {h \in X : shared_nrefs[h] > 1}
      /\ \A h \in Files \ V : \A p \in V \cap Parents(h) : ~HasEFC(h) \/ Rooted(h, r)
      /\ calls[r].files \subseteq X
      /\ \A i \in r + 1..n : calls[i].file \in X
  BY DEF Pass2OK
<1>6. /\ \A y \in X \ calls[r].files : \A h \in V \ X : y \in Parents(h) => Ahead(y, h)
      /\ \A h \in X : Needed(h, r)
      /\ \A h \in Files \ V : tag[h] \in {TAG_DEFAULT, TAG_LOCK}
  BY DEF Pass2OK
<1>7. x \in X /\ calls'[r] = calls[r]
  BY <1>1, <1>3, <1>5
<1>8. \A i \in r + 1..n : calls'[i].file \in X
  <2>1. \A i \in r + 1..n : i = n \/ i \in 1..n - 1
    BY <1>1, <1>3
  <2> QED BY <2>1, <1>1, <1>5, <1>7
<1>9. ASSUME HasEFC(g), Len(calls') = n + 1,
             \/ /\ tag[g] = TAG_CLOSE /\ tag'[g] = TAG_DONTCLOSE /\ found' = found \cup {g}
                /\ \A h \in Files : h # g => tag'[h] = tag[h]
             \/ tag[g] = TAG_DEFAULT /\ NoOutsideRefs(g) /\ tag' = tag /\ found' = found
      PROVE  \E Y \in SUBSET Files : Pass2OK(r, V, Y)'
  <2>1. g \in V
    <3>1. CASE tag[g] = TAG_CLOSE
      BY <1>1, <1>6, <3>1
    <3>2. CASE NoOutsideRefs(g)
      <4>1. ~Rooted(g, r)
        BY <1>0, <1>1, <1>9, <3>2, OnlyCaches
      <4> QED BY <1>1, <1>5, <1>7, <1>9, <4>1
    <3> QED BY <1>9, <3>1, <3>2
  <2>2. PICK Y : Y = X \cup {g}
    OBVIOUS
  <2>3. Y \in SUBSET Files /\ Y \subseteq V /\ X \subseteq Y /\ V \ Y \subseteq V \ X /\ V \subseteq Files
    BY <1>5, <2>1, <2>2
  <2>4. \A h \in V : IF shared_nrefs'[h] > 1 THEN tag'[h] \in {TAG_CLOSE, TAG_DONTCLOSE}
                                             ELSE tag'[h] = TAG_DEFAULT
    <3> SUFFICES ASSUME NEW h \in V
                 PROVE  IF shared_nrefs'[h] > 1 THEN tag'[h] \in {TAG_CLOSE, TAG_DONTCLOSE}
                                                ELSE tag'[h] = TAG_DEFAULT
      OBVIOUS
    <3>1. IF shared_nrefs[h] > 1 THEN tag[h] \in {TAG_CLOSE, TAG_DONTCLOSE}
                                 ELSE tag[h] = TAG_DEFAULT
      BY <1>5
    <3>2. h \in Files
      OBVIOUS
    <3> QED BY <1>4, <1>9, <3>1, <3>2
  <2>5. found' = {h \in V : tag'[h] = TAG_DONTCLOSE}
    <3>1. tag[g] = TAG_CLOSE => tag[g] # TAG_DONTCLOSE
      OBVIOUS
    <3> QED BY <1>5, <1>9, <2>1, <2>3
  <2>6. found' = {h \in Y : shared_nrefs'[h] > 1}
    <3>1. IF shared_nrefs[g] > 1 THEN tag[g] \in {TAG_CLOSE, TAG_DONTCLOSE}
                                 ELSE tag[g] = TAG_DEFAULT
      BY <1>5, <2>1
    <3> QED BY <1>4, <1>5, <1>9, <2>2, <3>1
  <2>7. \A i \in r + 1..Len(calls') : calls'[i].file \in Y
    <3>1. \A i \in (r + 1)..(n + 1) : i = n + 1 \/ i \in r + 1..n
      BY <1>1, <1>3
    <3> QED BY <3>1, <1>1, <1>8, <1>9, <2>2
  <2>8. ASSUME NEW y \in Y \ calls'[r].files, NEW h \in V \ Y, y \in Parents(h)'
        PROVE  Ahead(y, h)'
    <3>1. h # g /\ h \in V \ X /\ h \in Files
      BY <2>2, <2>3
    <3>2. y \in Parents(h)
      BY <1>4, <2>8, <3>1
    <3>3. CASE y = g
      BY <1>2, <1>9, <3>2, <3>3
    <3>4. CASE y # g
      <4>1. y \in X \ calls[r].files
        BY <1>7, <2>2, <3>4
      <4> QED BY <1>2, <1>6, <3>1, <3>2, <4>1
    <3> QED BY <3>3, <3>4
  <2>9. \A y \in Y : Needed(y, r)'
    <3>1. Needed(g, r)
      BY <1>1, <1>6, <1>7, NeededChild
    <3> QED BY <3>1, <1>4, <1>6, <2>2
  <2>10. \A h \in Files \ V : tag'[h] \in {TAG_DEFAULT, TAG_LOCK}
    BY <1>6, <1>9, <2>1
  <2>11. /\ calls'[r].file \in V /\ calls'[r].files \subseteq Y
         /\ shared_nrefs'[calls'[r].file] > 1
         /\ \A h \in V : HasEFC(h) /\ ~Rooted(h, r)' /\ shared_nrefs'[h] > 0
         /\ \A h \in V \ Y : Parents(h)' \subseteq V
         /\ \A h \in Files \ V : \A p \in V \cap Parents(h)' : ~HasEFC(h) \/ Rooted(h, r)'
    BY <1>4, <1>5, <1>7, <2>3
  <2>12. Pass2OK(r, V, Y)'
    <3> HIDE DEF TAG_DEFAULT, TAG_LOCK, TAG_CLOSE, TAG_DONTCLOSE
    <3> QED BY <2>3, <2>4, <2>5, <2>6, <2>7, <2>8, <2>9, <2>10, <2>11 DEF Pass2OK, HasEFC
  <2> QED BY <2>3, <2>12
<1>10. ASSUME ~(/\ HasEFC(g)
                /\ \/ tag[g] = TAG_CLOSE
                   \/ tag[g] = TAG_DEFAULT /\ NoOutsideRefs(g) /\ Head(Top.entries).nopen = 0),
              Len(calls') = n, tag' = tag, found' = found
       PROVE  \E Y \in SUBSET Files : Pass2OK(r, V, Y)'
  <2>1. g \notin V \ X
    <3> SUFFICES ASSUME g \in V \ X PROVE FALSE
      OBVIOUS
    <3>1. HasEFC(g) /\ ~Rooted(g, r) /\ tag[g] # TAG_CLOSE
      BY <1>5, <1>10
    <3>2. ~(shared_nrefs[g] > 1) /\ tag[g] = TAG_DEFAULT
      BY <1>5, <3>1
    <3>3. /\ shared_nrefs[g] = Cardinality(Parents(g)) + Cardinality(TopsClosing(g))
          /\ Cardinality(Parents(g)) \in Nat /\ Cardinality(TopsClosing(g)) \in Nat
      BY <1>0, <1>1, <1>3, <3>1, OutsideCount
    <3>4. Cardinality(Parents(g)) # 0
      BY <1>0, <1>1, CountsFacts, FS_EmptySet
    <3>5. shared_nrefs[g] = Cardinality(Parents(g))
      BY <3>2, <3>3, <3>4
    <3>6. NoOutsideRefs(g)
      BY <1>0, <1>1, <3>1, <3>5 DEF NoOutsideRefs, CountsAgree
    <3>7. Head(Top.entries).nopen = 0
      <4>1. Head(Top.entries).nopen \in Nat
        BY <1>0, LaterFacts DEF EntryRecord
      <4>2. Head(Top.entries).nopen > 0 => Rooted(x, r)
        BY <1>0, <1>1, ClientRooted
      <4>3. ~Rooted(x, r)
        BY <1>5, <1>7
      <4> QED BY <4>1, <4>2, <4>3
    <3> QED BY <1>10, <3>1, <3>2, <3>6, <3>7
  <2>2. ASSUME NEW y \in X \ calls'[r].files, NEW h \in V \ X, y \in Parents(h)'
        PROVE  Ahead(y, h)'
    <3>1. h # g /\ h \in Files
      BY <2>1
    <3>2. y \in Parents(h) /\ y \in X \ calls[r].files
      BY <1>4, <1>7, <2>2, <3>1
    <3> QED BY <1>2, <1>6, <3>1, <3>2
  <2>3. \A i \in r + 1..Len(calls') : calls'[i].file \in X
    BY <1>8, <1>10
  <2>4. /\ calls'[r].file \in V /\ X \subseteq V
        /\ shared_nrefs'[calls'[r].file] > 1
        /\ \A h \in V : HasEFC(h) /\ ~Rooted(h, r)' /\ shared_nrefs'[h] > 0
        /\ \A h \in V : IF shared_nrefs'[h] > 1 THEN tag'[h] \in {TAG_CLOSE, TAG_DONTCLOSE}
                                                ELSE tag'[h] = TAG_DEFAULT
        /\ \A h \in V \ X : Parents(h)' \subseteq V
        /\ found' = {h \in V : tag'[h] = TAG_DONTCLOSE}
        /\ found' = {h \in X : shared_nrefs'[h] > 1}
        /\ \A h \in Files \ V : \A p \in V \cap Parents(h)' : ~HasEFC(h) \/ Rooted(h, r)'
        /\ calls'[r].files \subseteq X
    BY <1>4, <1>5, <1>7, <1>10
  <2>5. /\ \A h \in X : Needed(h, r)'
        /\ \A h \in Files \ V : tag'[h] \in {TAG_DEFAULT, TAG_LOCK}
    BY <1>4, <1>6, <1>10
  <2>6. Pass2OK(r, V, X)'
    <3> HIDE DEF TAG_DEFAULT, TAG_LOCK, TAG_CLOSE, TAG_DONTCLOSE
    <3> QED BY <2>2, <2>3, <2>4, <2>5 DEF Pass2OK, HasEFC
  <2> QED BY <2>6
<1>11. \/ /\ HasEFC(g) /\ tag[g] = TAG_CLOSE /\ Len(calls') = n + 1
          /\ tag'[g] = TAG_DONTCLOSE /\ found' = found \cup {g}
          /\ \A h \in Files : h # g => tag'[h] = tag[h]
       \/ /\ HasEFC(g) /\ tag[g] = TAG_DEFAULT /\ NoOutsideRefs(g)
          /\ Len(calls') = n + 1 /\ tag' = tag /\ found' = found
       \/ /\ ~(/\ HasEFC(g)
               /\ \/ tag[g] = TAG_CLOSE
                  \/ tag[g] = TAG_DEFAULT /\ NoOutsideRefs(g) /\ Head(Top.entries).nopen = 0)
          /\ Len(calls') = n /\ tag' = tag /\ found' = found
  BY Tag2Cases, SMTT(60)
<1> QED BY <1>9, <1>10, <1>11

\* Pass 3 starts when pass 2 has looked at the caches of all the files it found.
LEMMA Pass2Done ==
  ASSUME EfcInv, OneRun, TagInPass, pass2_done,
         NEW n, n = Len(calls), NEW V \in SUBSET Files, NEW X \in SUBSET Files, Pass2OK(n, V, X),
         NEW W, W = V \ X
  PROVE  CleanupOK(n, V, W)'
<1> USE DEF TAG_DEFAULT, TAG_LOCK, TAG_CLOSE, TAG_DONTCLOSE
<1>0. EfcTypeOK /\ ~Idle /\ Step /\ Top.fn = "pass2" /\ Top.files = {}
  BY DEF EfcInv, pass2_done, Running, Step, Pass2
<1>1. /\ n \in Nat \ {0} /\ n \in 1..Len(calls) /\ Top = calls[n] /\ n \in 0..Len(calls)
      /\ Top \in FrameRecord
  BY <1>0, StackAfter
<1>2. PICK f \in Files : f = Top.file
  BY <1>1 DEF FrameRecord
<1>3. /\ tag[f] = TAG_CLOSE =>
           /\ Pushed(Over("efc_release_real", f, lru[f]), Frame("cleanup", f, <<>>, found, 0))
           /\ tag' = [tag EXCEPT ![f] = TAG_LOCK]
      /\ tag[f] # TAG_CLOSE => Replaced(Frame("cleanup", f, <<>>, found, 0)) /\ tag' = tag
  <2>1. IF tag[f] = TAG_CLOSE
        THEN Pushed(Over("efc_release_real", f, lru[f]), Frame("cleanup", f, <<>>, found, 0))
        ELSE Replaced(Frame("cleanup", f, <<>>, found, 0))
    BY <1>0, <1>2, PassMoves DEF Moves
  <2>2. IF tag[f] = TAG_CLOSE THEN tag' = [tag EXCEPT ![f] = TAG_LOCK] ELSE tag' = tag
    BY <1>2 DEF pass2_done, Release
  <2> QED BY <2>1, <2>2
<1>4. /\ calls'[n].file = f /\ calls'[n].files = found
      /\ tag[f] # TAG_CLOSE => Len(calls') = n
      /\ tag[f] = TAG_CLOSE => Len(calls') = n + 1 /\ calls'[n + 1].file = f
                               /\ calls'[n + 1].fn = "efc_release_real"
  BY <1>1, <1>3 DEF Replaced, Pushed, Over, Frame
<1>5. /\ shared_nrefs' = shared_nrefs /\ lru' = lru
      /\ \A g \in Files : Parents(g)' = Parents(g)
      /\ \A g : Rooted(g, n)' <=> Rooted(g, n)
      /\ \A U \in SUBSET Files : Unused(U, n)' <=> Unused(U, n)
      /\ \A g : Needed(g, n)' <=> Needed(g, n)
  BY <1>0, <1>1, PassQuiet, QuietNeeds
<1>6. \A p, h : ~Ahead(p, h)
  <2>1. Run(Len(calls))
    BY <1>0, <1>1 DEF Run, Runs
  <2> QED BY <1>0, <2>1, RunAlone
<1>7. /\ f \in V /\ X \subseteq V /\ shared_nrefs[f] > 1
      /\ \A g \in V : HasEFC(g) /\ ~Rooted(g, n) /\ shared_nrefs[g] > 0
      /\ \A g \in V : IF shared_nrefs[g] > 1 THEN tag[g] \in {TAG_CLOSE, TAG_DONTCLOSE}
                                             ELSE tag[g] = TAG_DEFAULT
      /\ \A g \in V \ X : Parents(g) \subseteq V
      /\ found = {g \in V : tag[g] = TAG_DONTCLOSE}
      /\ found = {g \in X : shared_nrefs[g] > 1}
  BY <1>1, <1>2 DEF Pass2OK
<1>8. /\ \A g \in Files \ V : \A p \in V \cap Parents(g) : ~HasEFC(g) \/ Rooted(g, n)
      /\ \A x \in X : \A g \in V \ X : x \in Parents(g) => Ahead(x, g)
      /\ \A x \in X : Needed(x, n)
      /\ \A g \in Files \ V : tag[g] \in {TAG_DEFAULT, TAG_LOCK}
  BY <1>0, <1>1 DEF Pass2OK
<1>9. Unused(W, n)
  BY <1>6, <1>7, <1>8 DEF Unused
<1>10. f \in W <=> tag[f] = TAG_CLOSE
  BY <1>7
<1>11. tag \in [Files -> Int] /\ V \subseteq Files /\ W \subseteq V
  BY <1>0 DEF EfcTypeOK
<1>12. \A g \in Files : tag'[g] = IF g = f /\ tag[f] = TAG_CLOSE THEN TAG_LOCK ELSE tag[g]
  BY <1>2, <1>3, <1>11
<1>13. \A i \in n + 1..Len(calls') : Releasing(i)' /\ calls'[i].file \in W
  <2> SUFFICES ASSUME NEW i \in n + 1..Len(calls') PROVE Releasing(i)' /\ calls'[i].file \in W
    OBVIOUS
  <2>1. tag[f] = TAG_CLOSE /\ Len(calls') = n + 1
    BY <1>1, <1>4
  <2>2. i = n + 1 /\ i \in 1..Len(calls')
    BY <1>1, <2>1
  <2> QED BY <2>1, <2>2, <1>4, <1>10 DEF Releasing
<1>14. \A g \in V \ W :
         /\ Needed(g, n)'
         /\ IF g \in calls'[n].files THEN tag'[g] = TAG_DONTCLOSE
                                     ELSE tag'[g] = TAG_DEFAULT /\ shared_nrefs'[g] <= 1
  <2> SUFFICES ASSUME NEW g \in V \ W
               PROVE  /\ Needed(g, n)'
                      /\ IF g \in calls'[n].files
                         THEN tag'[g] = TAG_DONTCLOSE
                         ELSE tag'[g] = TAG_DEFAULT /\ shared_nrefs'[g] <= 1
    OBVIOUS
  <2>1. g \in X /\ g \in Files /\ tag'[g] = tag[g]
    BY <1>10, <1>11, <1>12
  <2>2. shared_nrefs[g] \in Nat
    BY <1>0, <2>1 DEF EfcTypeOK
  <2>3. IF g \in found THEN tag[g] = TAG_DONTCLOSE
                       ELSE tag[g] = TAG_DEFAULT /\ shared_nrefs[g] <= 1
    BY <1>7, <2>1, <2>2
  <2> QED BY <1>4, <1>5, <1>8, <2>1, <2>3
<1>15. \A g \in W : /\ tag'[g] \in {TAG_CLOSE, TAG_LOCK, TAG_DEFAULT}
                    /\ tag'[g] = TAG_DEFAULT /\ shared_nrefs'[g] > 1 => lru'[g] = <<>>
  <2> SUFFICES ASSUME NEW g \in W
               PROVE  /\ tag'[g] \in {TAG_CLOSE, TAG_LOCK, TAG_DEFAULT}
                      /\ ~(tag'[g] = TAG_DEFAULT /\ shared_nrefs'[g] > 1)
    OBVIOUS
  <2>1. g \in V /\ g \notin X /\ g \in Files
    BY <1>11
  <2>2. tag[g] # TAG_DONTCLOSE
    BY <1>7, <2>1
  <2>3. IF shared_nrefs[g] > 1 THEN tag[g] = TAG_CLOSE ELSE tag[g] = TAG_DEFAULT
    BY <1>7, <2>1, <2>2
  <2> QED BY <1>5, <1>12, <2>1, <2>3
<1>16. ~(n = Len(calls') /\ calls'[n].file \in W)
  BY <1>1, <1>4, <1>10
<1>17. \A g \in Files \ V : tag'[g] \in {TAG_DEFAULT, TAG_LOCK}
  BY <1>7, <1>8, <1>12
<1>18. \A g \in Files \ V : \A p \in W \cap Parents(g)' : ~HasEFC(g) \/ Rooted(g, n)'
  BY <1>5, <1>8, <1>11
<1>19. /\ calls'[n].file \in V /\ W \subseteq V /\ calls'[n].files \subseteq V \ W
       /\ \A g \in V : HasEFC(g) /\ ~Rooted(g, n)'
       /\ Unused(W, n)'
  <2>1. W \in SUBSET Files
    BY <1>11
  <2> QED BY <1>4, <1>5, <1>7, <1>9, <1>11, <2>1
<1> HIDE DEF TAG_DEFAULT, TAG_LOCK, TAG_CLOSE, TAG_DONTCLOSE
<1> QED BY <1>13, <1>14, <1>15, <1>16, <1>17, <1>18, <1>19 DEF CleanupOK, HasEFC

\* Pass 1 goes right, whatever the step.
LEMMA Pass1RightKept ==
  ASSUME EfcInv, OneRun, TagInPass, TagWalks, TagsTell, RunTags, CleanupRight, Pass1Right, Step
  PROVE  Pass1Right'
<1>0. EfcTypeOK /\ ~Idle
  BY StepCases DEF EfcInv
<1>n. PICK n \in Nat \ {0} : n = Len(calls) /\ Top = calls[n] /\ n \in 1..Len(calls)
  BY <1>0, StackAfter
<1> SUFFICES ASSUME NEW r \in 1..Len(calls'), calls'[r].fn = "pass1"
             PROVE  \E V \in SUBSET Files : Pass1OK(r, V)'
  BY DEF Pass1Right
<1>1. Run(r)'
  BY DEF Run, Runs
<1>2. /\ Run(r) \/ (try_close_root /\ r = n)
      /\ r \in 1..Len(calls)
      /\ r < n => calls'[r] = calls[r]
  BY <1>0, <1>1, <1>n, RunAfter
<1>3. CASE r < n
  <2>1. calls[r].fn = "pass1" /\ Run(r) /\ r # Len(calls)
    BY <1>2, <1>3, <1>n
  <2>2. Top.fn = "tag1"
    BY <1>0, <2>1, RunBelow
  <2>3. PICK V \in SUBSET Files : Pass1OK(r, V)
    BY <1>2, <2>1 DEF Pass1Right
  <2>4. CASE tag1_return
    BY <1>2, <2>1, <2>3, <2>4, Tag1ReturnKept
  <2>5. CASE tag1_entry
    <3>1. PICK x, g : x = Top.file /\ g = Head(Top.entries).file
      OBVIOUS
    <3> QED BY <1>2, <1>n, <2>1, <2>3, <2>5, <3>1, Tag1EntryKept
  <2> QED BY <2>2, <2>4, <2>5, StepCases
<1>4. CASE r = n
  <2>1. r \in n..Len(calls')
    BY <1>4
  <2>2. pass1_mark \/ pass2_file \/ try_close_root
    BY <1>0, <1>n, <2>1, FrameFrom
  <2>3. CASE pass1_mark
    <3>1. calls'[n].fn = "pass2"
      BY <1>0, <1>n, <2>3, PassMoves DEF Moves, Replaced, Frame
    <3> QED BY <1>4, <3>1
  <2>4. CASE pass2_file
    <3>1. calls[n].fn = "pass2"
      BY <1>n, <2>4 DEF pass2_file, Running
    <3>2. calls'[n].fn = calls[n].fn \/ calls'[n].fn = "pass2"
      <4>1. PICK g \in Top.files : Pushed(Over("tag2", g, lru[g]), [Top EXCEPT !.files = @ \ {g}])
        BY <1>0, <2>4, PassMoves DEF Moves
      <4>2. Top \in FrameRecord
        BY <1>0, TopFacts
      <4> QED BY <1>n, <4>1, <4>2 DEF Pushed, FrameRecord
    <3> QED BY <1>4, <3>1, <3>2
  <2>5. CASE try_close_root
    <3>1. PICK f : f = Top.file
      OBVIOUS
    <3>2. Pass1OK(n, {f})'
      BY <1>n, <2>5, <3>1, RootPass
    <3>3. f \in Files
      BY <1>0, <3>1, TopFacts DEF FrameRecord
    <3>4. PICK V : V = {f}
      OBVIOUS
    <3>5. V \in SUBSET Files /\ Pass1OK(r, V)'
      BY <1>4, <3>2, <3>3, <3>4
    <3> QED BY <3>5
  <2> QED BY <2>2, <2>3, <2>4, <2>5
<1> QED BY <1>2, <1>3, <1>4, <1>n

\* So does pass 2.
LEMMA Pass2RightKept ==
  ASSUME EfcInv, NoGarbage, NoCacheEmpty, OneRun, TagInPass, TagWalks, TagsTell, Pass1Right,
         Pass2Right, Step
  PROVE  Pass2Right'
<1>0. EfcTypeOK /\ ~Idle
  BY StepCases DEF EfcInv
<1>n. PICK n \in Nat \ {0} : n = Len(calls) /\ Top = calls[n] /\ n \in 1..Len(calls)
  BY <1>0, StackAfter
<1> SUFFICES ASSUME NEW r \in 1..Len(calls'), calls'[r].fn = "pass2"
             PROVE  \E V, X \in SUBSET Files : Pass2OK(r, V, X)'
  BY DEF Pass2Right
<1>1. Run(r)'
  BY DEF Run, Runs
<1>2. /\ Run(r) \/ (try_close_root /\ r = n)
      /\ r \in 1..Len(calls)
      /\ r < n => calls'[r] = calls[r]
  BY <1>0, <1>1, <1>n, RunAfter
<1>3. CASE r < n
  <2>1. calls[r].fn = "pass2" /\ Run(r) /\ r # Len(calls)
    BY <1>2, <1>3, <1>n
  <2>2. Top.fn = "tag2"
    BY <1>0, <2>1, RunBelow
  <2>3. PICK V, X \in SUBSET Files : Pass2OK(r, V, X)
    BY <1>2, <2>1 DEF Pass2Right
  <2>4. CASE tag2_return
    BY <1>2, <2>1, <2>3, <2>4, Tag2ReturnKept
  <2>5. CASE tag2_entry
    <3>1. PICK x, g : x = Top.file /\ g = Head(Top.entries).file
      OBVIOUS
    <3> QED BY <1>2, <1>n, <2>1, <2>3, <2>5, <3>1, Tag2EntryKept
  <2> QED BY <2>2, <2>4, <2>5, StepCases
<1>4. CASE r = n
  <2>1. r \in n..Len(calls')
    BY <1>4
  <2>2. pass1_mark \/ pass2_file \/ try_close_root
    BY <1>0, <1>n, <2>1, FrameFrom
  <2>3. CASE pass1_mark
    <3>1. calls[n].fn = "pass1"
      BY <1>n, <2>3 DEF pass1_mark, Running
    <3>2. PICK V \in SUBSET Files : Pass1OK(n, V)
      BY <1>n, <3>1 DEF Pass1Right
    <3>3. PICK X : X = {g \in found : tag[g] > 0}
      OBVIOUS
    <3>4. X \in SUBSET Files
      BY <1>0, <3>3 DEF EfcTypeOK
    <3> QED BY <1>4, <1>n, <2>3, <3>2, <3>3, <3>4, MarkPass
  <2>4. CASE pass2_file
    <3>1. calls[n].fn = "pass2"
      BY <1>n, <2>4 DEF pass2_file, Running
    <3>2. PICK V, X \in SUBSET Files : Pass2OK(n, V, X)
      BY <1>n, <3>1 DEF Pass2Right
    <3> QED BY <1>4, <1>n, <2>4, <3>2, Pass2FileKept
  <2>5. CASE try_close_root
    <3>1. calls'[n].fn = "pass1"
      BY <1>0, <1>n, <2>5, ClosingMoves DEF Moves, Pushed, At, Frame
    <3> QED BY <1>4, <3>1
  <2> QED BY <2>2, <2>3, <2>4, <2>5
<1> QED BY <1>2, <1>3, <1>4, <1>n
-----------------------------------------------------------------------------
\* A release that ends leaves entries with clients only, for which the file is kept
\* open.
LEMMA ReleasedEmpty ==
  ASSUME EfcInv, release_return, NEW r, ~Rooted(Top.file, r)
  PROVE  lru[Top.file] = <<>>
<1>0. /\ EfcTypeOK /\ PassedByOpen /\ ClientsHold /\ ~Idle
      /\ Top.fn = "efc_release_real" /\ Top.entries = <<>>
  BY DEF EfcInv, release_return, Running
<1>n. PICK n \in Nat \ {0} : n = Len(calls) /\ n \in 1..Len(calls) /\ Top = calls[n]
  BY <1>0, TopFacts DEF Top
<1>1. PICK f \in Files : f = Top.file
  BY <1>0, TopFacts DEF FrameRecord
<1>2. Releasing(n) /\ calls[n].file = f
  BY <1>0, <1>1, <1>n DEF Releasing
<1>3. Len(lru[f]) \in Nat /\ lru[f] \in Seq(EntryRecord)
  BY <1>0, EntriesFacts
<1>4. Visited(n) = Len(lru[f])
  <2>1. Len(calls[n].entries) = 0
    BY <1>0, <1>n
  <2> QED BY <1>2, <1>3, <2>1 DEF Visited
<1>5. ASSUME NEW k \in 1..Len(lru[f]) PROVE FALSE
  <2>1. lru[f][k].nopen > 0
    BY <1>0, <1>2, <1>4, <1>n DEF PassedByOpen
  <2>2. lru[f][k] \in Entries(f)
    BY <1>0, EntriesFacts
  <2>3. Rooted(f, r)
    BY <1>0, <2>1, <2>2, ClientRooted
  <2> QED BY <1>1, <2>3
<1>6. Len(lru[f]) = 0
  BY <1>3, <1>5
<1> QED BY <1>1, <1>3, <1>6

\* What happens while pass 3 is under way: files are closed, and nothing else.
LEMMA CleanupSteps ==
  ASSUME EfcInv, OneRun, TagInPass, CleanupRight, TagsTell, NoObjects', Step,
         NEW n, n = Len(calls), NEW r, r \in 1..n, r # n, calls[r].fn = "cleanup"
  PROVE  /\ n \in Nat \ {0} /\ n \in 1..Len(calls) /\ Top = calls[n] /\ Top.file \in Files
         /\ r \in 1..n - 1 /\ r \in Nat /\ r < n /\ n \in r + 1..Len(calls) /\ r \in 0..Len(calls)
         /\ ~try_close_objects /\ ~try_close_root /\ ~efc_open_evicted
         /\ \/ Top.fn = "H5F_try_close" /\ (try_close_top \/ try_close_reentered)
            \/ Top.fn = "efc_release_real" /\ (release_entry \/ release_skip \/ release_return)
            \/ Top.fn = "H5F__dest" /\ (dest_top \/ dest_efc \/ dest_shared)
            \/ Top.fn = "efc_destroy" /\ dest_shared
<1>0. EfcTypeOK /\ ~Idle
  BY StepCases DEF EfcInv
<1>1. /\ n \in Nat \ {0} /\ n \in 1..Len(calls) /\ Top = calls[n] /\ Top.file \in Files
  BY <1>0, StackAfter DEF FrameRecord
<1>2. Run(r)
  BY <1>1 DEF Run, Runs
<1>3. /\ r \in 1..n - 1 /\ Top.fn \notin Runs /\ Top.fn # "efc_open"
      /\ Top.fn \notin {"tag1", "tag2"}
  BY <1>0, <1>2, RunBelow
<1>4. ~try_close_objects
  <2> SUFFICES ASSUME try_close_objects PROVE FALSE
    OBVIOUS
  <2>1. Len(calls) # 1
    BY <1>1, <1>3
  <2>2. orphaned' = [orphaned EXCEPT ![Top.file] = @ + 1]
    BY <2>1 DEF try_close_objects
  <2>3. orphaned'[Top.file] > 0
    BY <1>0, <1>1, <2>2 DEF EfcTypeOK
  <2> QED BY <1>1, <2>3 DEF NoObjects
<1>5. ~try_close_root
  BY <1>1, <1>2, RootAlone
<1>6. ~efc_open_evicted
  BY <1>3 DEF efc_open_evicted, Running
<1>7. \/ Top.fn = "H5F_try_close" /\ (try_close_top \/ try_close_reentered)
      \/ Top.fn = "efc_release_real" /\ (release_entry \/ release_skip \/ release_return)
      \/ Top.fn = "H5F__dest" /\ (dest_top \/ dest_efc \/ dest_shared)
      \/ Top.fn = "efc_destroy" /\ dest_shared
  BY <1>3, <1>4, <1>5, StepCases DEF Runs
<1>8. r \in Nat /\ r < n /\ n \in r + 1..Len(calls) /\ r \in 0..Len(calls)
  BY <1>1, <1>3
<1> QED BY <1>1, <1>3, <1>4, <1>5, <1>6, <1>7, <1>8

\* Pass 3 releases caches of files to be closed only, and the last top that goes
\* is not one of a file to be left alone.
LEMMA CleanupFile ==
  ASSUME EfcInv, NoCacheEmpty, ~Idle,
         NEW n, n = Len(calls), NEW r \in Nat, n \in r + 1..Len(calls),
         NEW V \in SUBSET Files, NEW W \in SUBSET Files, CleanupOK(r, V, W),
         NEW f \in Files, f = Top.file
  PROVE  /\ try_close_reentered => f \in W
         /\ dest_efc => f \in W
         /\ release_entry \/ release_return => f \in W
         /\ dest_shared => f \notin V \ W
<1>0. EfcTypeOK /\ CountsAgree
  BY DEF EfcInv
<1>1. n \in Nat \ {0} /\ n \in 1..Len(calls) /\ Top = calls[n] /\ r <= n
  BY <1>0, TopFacts DEF Top
<1>2. /\ IF Releasing(n) THEN f \in W ELSE f \in V \/ ~HasEFC(f) \/ Rooted(f, r)
      /\ f \in V \ W => /\ Needed(f, r)
                        /\ IF f \in calls[r].files
                           THEN tag[f] = TAG_DONTCLOSE
                           ELSE tag[f] = TAG_DEFAULT /\ shared_nrefs[f] <= 1
      /\ f \notin V => tag[f] \in {TAG_DEFAULT, TAG_LOCK}
  BY <1>1 DEF CleanupOK
<1>3. CASE try_close_reentered
  <2>1. HasEFC(f) /\ tag[f] = TAG_CLOSE /\ Top.fn = "H5F_try_close"
    BY <1>3 DEF try_close_reentered, EntersEFC, Running
  <2>2. f \in V
    BY <1>2, <2>1 DEF TAG_DEFAULT, TAG_LOCK, TAG_CLOSE
  <2>3. f \in W
    BY <1>2, <2>1, <2>2 DEF TAG_DEFAULT, TAG_DONTCLOSE, TAG_CLOSE
  <2> QED BY <1>3, <2>1, <2>3 DEF dest_efc, release_entry, release_return, dest_shared, Running
<1>4. CASE dest_efc \/ dest_shared
  <2>1. Top.fn \in {"H5F__dest", "efc_destroy"} /\ shared_nrefs[f] <= 1
    <3>1. LastTop
      BY DEF EfcInv
    <3> QED BY <1>1, <1>4, <3>1 DEF dest_efc, dest_shared, Running, LastTop
  <2>2. n \in TopsClosing(f)
    BY <1>1, <2>1 DEF TopsClosing, Closing
  <2>3. ~Rooted(f, r) /\ ~Needed(f, r)
    BY <1>0, <1>1, <2>1, <2>2, LastUnused
  <2>4. dest_efc => HasEFC(f)
    BY DEF dest_efc, NoCacheEmpty
  <2>5. ~Releasing(n)
    BY <1>1, <2>1 DEF Releasing
  <2> QED BY <1>2, <2>1, <2>3, <2>4, <2>5
        DEF try_close_reentered, release_entry, release_return, Running
<1>5. CASE release_entry \/ release_return
  <2>1. Top.fn = "efc_release_real"
    BY <1>5 DEF release_entry, release_return, Running
  <2> QED BY <1>1, <1>2, <2>1
        DEF Releasing, try_close_reentered, dest_efc, dest_shared, Running
<1> QED BY <1>3, <1>4, <1>5

\* What pass 3 changes: references go, and files that were needed stay needed.
LEMMA CleanupNeeds ==
  ASSUME EfcInv, Step, ~try_close_objects, ~efc_open_evicted,
         NEW r \in 0..Len(calls), NEW W \in SUBSET Files, Unused(W, r),
         release_entry => Top.file \in W
  PROVE  /\ \A h : Rooted(h, r)' <=> Rooted(h, r)
         /\ \A h \in Files : Parents(h)' \subseteq Parents(h)
         /\ \A h \in Files : shared_nrefs'[h] <= shared_nrefs[h]
         /\ \A h \in Files : lru[h] = <<>> => lru'[h] = <<>>
         /\ Unused(W, r)'
         /\ \A h : Needed(h, r) => Needed(h, r)'
<1>0. EfcTypeOK /\ Len(calls) \in Nat /\ r \in Nat /\ r <= Len(calls)
  BY DEF EfcInv, EfcTypeOK
<1>1. \A h : Rooted(h, r)' <=> Rooted(h, r)
  BY <1>0, RootedKept
<1>2. \A h \in Files : shared_nrefs[h] \in Nat
  BY <1>0 DEF EfcTypeOK
<1>3. /\ \A h \in Files : Parents(h)' \subseteq Parents(h)
      /\ \A h \in Files : shared_nrefs'[h] <= shared_nrefs[h]
      /\ \A h \in Files : lru[h] = <<>> => lru'[h] = <<>>
      /\ \A U \in SUBSET Files : Unused(U, r)' => Unused(U \cup W, r)
  <2>1. CASE ~dest_top /\ ~dest_shared /\ ~release_entry
    <3>1. /\ shared_nrefs' = shared_nrefs /\ lru' = lru
          /\ \A h \in Files : Parents(h)' = Parents(h)
      BY <2>1, QuietFacts
    <3>2. \A h \in Files : Parents(h)' \subseteq Parents(h)
      BY <3>1
    <3>3. \A U \in SUBSET Files : Unused(U, r)' => Unused(U \cup W, r)
      BY <1>1, <3>1 DEF Unused
    <3> QED BY <1>2, <3>1, <3>2, <3>3
  <2>2. CASE dest_top \/ dest_shared
    <3>0. PICK f, n : f = Top.file /\ n = Len(calls)
      OBVIOUS
    <3>1. /\ lru' = lru /\ f \in Files
          /\ \A h \in Files : Parents(h)' = Parents(h) /\ Entries(h)' = Entries(h)
          /\ \A h \in Files : h # f => /\ TopsClosing(h)' = TopsClosing(h)
                                       /\ shared_nrefs'[h] = shared_nrefs[h]
                                       /\ tag'[h] = tag[h]
          /\ dest_top => /\ shared_nrefs'[f] = shared_nrefs[f] - 1 /\ shared_nrefs[f] > 1
                         /\ tag' = tag
          /\ dest_shared => /\ shared_nrefs[f] <= 1 /\ shared_nrefs'[f] = 0
                            /\ lru[f] = <<>> /\ tag'[f] = TAG_DEFAULT
      BY <2>2, <3>0, DestFacts
    <3>2. \A h \in Files : shared_nrefs'[h] <= shared_nrefs[h]
      BY <1>2, <2>2, <3>1
    <3>3. \A U \in SUBSET Files : Unused(U, r)' => Unused(U \cup W, r)
      BY <1>1, <3>1 DEF Unused
    <3> QED BY <3>1, <3>2, <3>3
  <2>3. CASE release_entry
    <3>1. PICK p, g \in Files :
            /\ p = Top.file /\ p \in Parents(g)
            /\ Parents(g)' = Parents(g) \ {p}
            /\ \A h \in Files : h # g => Parents(h)' = Parents(h)
            /\ lru[p] # <<>> /\ \A q \in Files : q # p => lru'[q] = lru[q]
      BY <2>3, ReleaseEntryFacts
    <3>2. shared_nrefs' = shared_nrefs
      BY <2>3 DEF release_entry
    <3>3. ASSUME NEW U \in SUBSET Files, Unused(U, r)' PROVE Unused(U \cup W, r)
      <4> SUFFICES ASSUME NEW h \in U \cup W
                   PROVE  ~Rooted(h, r) /\ Parents(h) \subseteq U \cup W
        BY DEF Unused
      <4>1. CASE h \in W
        BY <4>1 DEF Unused
      <4>2. CASE h \in U
        <5>1. ~Rooted(h, r) /\ Parents(h)' \subseteq U
          BY <1>1, <3>3, <4>2 DEF Unused
        <5>2. Parents(h) \subseteq Parents(h)' \cup {p}
          BY <3>1, <4>2
        <5> QED BY <2>3, <3>1, <5>1, <5>2
      <4> QED BY <4>1, <4>2
    <3>4. \A h \in Files : shared_nrefs'[h] <= shared_nrefs[h]
      BY <1>2, <3>2
    <3>5. \A h \in Files : Parents(h)' \subseteq Parents(h)
      BY <3>1
    <3>6. \A h \in Files : lru[h] = <<>> => lru'[h] = <<>>
      BY <3>1
    <3> QED BY <3>3, <3>4, <3>5, <3>6
  <2> QED BY <2>1, <2>2, <2>3
<1>4. Unused(W, r)'
  BY <1>1, <1>3 DEF Unused
<1>5. ASSUME NEW h, Needed(h, r) PROVE Needed(h, r)'
  <2> SUFFICES ASSUME NEW U \in SUBSET Files, Unused(U, r)' PROVE h \notin U
    BY DEF Needed
  <2>1. Unused(U \cup W, r) /\ U \cup W \in SUBSET Files
    BY <1>3
  <2> QED BY <1>5, <2>1 DEF Needed
<1> QED BY <1>1, <1>3, <1>4, <1>5

\* ... and tags change of the file of the running call only.
LEMMA CleanupTags ==
  ASSUME EfcInv, Step,
         \/ try_close_top \/ try_close_reentered \/ release_entry \/ release_skip
         \/ release_return \/ dest_top \/ dest_efc \/ dest_shared,
         NEW h \in Files
  PROVE  \/ tag'[h] = tag[h]
         \/ h = Top.file /\ tag'[h] = TAG_LOCK /\ (try_close_reentered \/ dest_efc)
         \/ h = Top.file /\ tag'[h] = TAG_DEFAULT /\ (release_return \/ dest_shared)
<1>0. tag \in [Files -> Int]
  BY DEF EfcInv, EfcTypeOK
<1>1. CASE try_close_top \/ release_entry \/ release_skip \/ dest_top
  BY <1>1 DEF try_close_top, release_entry, release_skip, dest_top
<1>2. CASE try_close_reentered \/ dest_efc
  BY <1>0, <1>2 DEF try_close_reentered, dest_efc, Release
<1>3. CASE release_return \/ dest_shared
  BY <1>0, <1>3 DEF release_return, dest_shared
<1> QED BY <1>1, <1>2, <1>3

\* The calls that are under way afterwards.
LEMMA CleanupFrames ==
  ASSUME EfcInv, Step,
         \/ try_close_top \/ try_close_reentered \/ release_entry \/ release_skip
         \/ release_return \/ dest_top \/ dest_efc \/ dest_shared,
         NEW n, n = Len(calls), NEW i \in 1..Len(calls')
  PROVE  \/ i \in 1..n /\ calls'[i].file = calls[i].file /\ (Releasing(i)' <=> Releasing(i))
         \/ /\ i = n + 1 /\ release_entry /\ ~Releasing(i)'
            /\ calls'[i].file = Head(Top.entries).file
         \/ /\ i = n + 1 /\ (try_close_reentered \/ dest_efc) /\ Releasing(i)'
            /\ calls'[i].file = Top.file
<1>0. EfcTypeOK /\ ~Idle
  BY StepCases DEF EfcInv
<1>1. /\ n \in Nat \ {0} /\ Top = calls[n] /\ n \in 1..Len(calls)
      /\ Len(calls') = n - 1 \/ Len(calls') = n \/ Len(calls') = n + 1
      /\ \A k \in 1..n - 1 : calls'[k] = calls[k] /\ k \in 1..Len(calls) /\ k \in 1..Len(calls')
      /\ n <= Len(calls') => /\ calls'[n].file = Top.file
                             /\ \/ calls'[n].fn = Top.fn
                                \/ calls'[n].fn \in Closing /\ Top.fn \in Closing
  BY <1>0, StackAfter
<1>2. CASE i \in 1..n - 1
  BY <1>1, <1>2 DEF Releasing
<1>3. CASE i = n
  BY <1>1, <1>3 DEF Releasing, Closing
<1>4. CASE i = n + 1
  <2>0. Len(calls') = n + 1
    BY <1>1, <1>4
  <2>1. CASE release_entry
    <3>1. Pushed(Frame("H5F_try_close", Head(Top.entries).file, <<>>, {}, Head(Top.entries).objs),
                 Later)
      BY <1>0, <2>1, OtherMoves DEF Moves
    <3>2. calls'[i].fn = "H5F_try_close" /\ calls'[i].file = Head(Top.entries).file
      BY <1>4, <3>1 DEF Pushed, Frame
    <3> QED BY <1>4, <2>1, <3>2 DEF Releasing
  <2>2. CASE try_close_reentered \/ dest_efc
    <3>1. PICK frame : Pushed(Over("efc_release_real", Top.file, lru[Top.file]), frame)
      <4>1. CASE try_close_reentered
        BY <1>0, <4>1, ClosingMoves DEF Moves
      <4>2. CASE dest_efc
        BY <1>0, <4>2, OtherMoves DEF Moves
      <4> QED BY <2>2, <4>1, <4>2
    <3>2. calls'[i].fn = "efc_release_real" /\ calls'[i].file = Top.file
      BY <1>4, <3>1 DEF Pushed, Over, Frame
    <3> QED BY <1>4, <2>2, <3>2 DEF Releasing
  <2>3. CASE release_return \/ dest_top \/ dest_shared
    BY <1>0, <1>1, <2>0, <2>3, OtherMoves DEF Moves, Popped
  <2>4. CASE try_close_top
    BY <1>0, <1>1, <2>0, <2>4, ClosingMoves DEF Moves, Replaced
  <2>5. CASE release_skip
    BY <1>0, <1>1, <2>0, <2>5, OtherMoves DEF Moves, Replaced
  <2> QED BY <2>1, <2>2, <2>3, <2>4, <2>5
<1>5. i \in 1..n - 1 \/ i = n \/ i = n + 1
  BY <1>1
<1> QED BY <1>2, <1>3, <1>4, <1>5

\* Pass 3 goes right while files are being closed.
LEMMA CleanupBelow ==
  ASSUME EfcInv, NoCacheEmpty, OneRun, TagInPass, CleanupRight, TagsTell, NoObjects', Step,
         NEW n, n = Len(calls), NEW r, r \in 1..n, r # n, calls[r].fn = "cleanup",
         NEW V \in SUBSET Files, NEW W \in SUBSET Files, CleanupOK(r, V, W)
  PROVE  CleanupOK(r, V, W)'
<1>0. /\ EfcTypeOK /\ CountsAgree /\ Callers /\ ~Idle
  BY StepCases DEF EfcInv
<1>1. /\ n \in Nat \ {0} /\ n \in 1..Len(calls) /\ Top = calls[n] /\ Top.file \in Files
      /\ r \in 1..n - 1 /\ r \in Nat /\ r < n /\ n \in r + 1..Len(calls) /\ r \in 0..Len(calls)
      /\ ~try_close_objects /\ ~try_close_root /\ ~efc_open_evicted
      /\ \/ Top.fn = "H5F_try_close" /\ (try_close_top \/ try_close_reentered)
         \/ Top.fn = "efc_release_real" /\ (release_entry \/ release_skip \/ release_return)
         \/ Top.fn = "H5F__dest" /\ (dest_top \/ dest_efc \/ dest_shared)
         \/ Top.fn = "efc_destroy" /\ dest_shared
  BY CleanupSteps
<1>2. PICK f \in Files : f = Top.file
  BY <1>1
<1>s. \/ try_close_top \/ try_close_reentered \/ release_entry \/ release_skip
      \/ release_return \/ dest_top \/ dest_efc \/ dest_shared
  BY <1>1
<1>3. /\ try_close_reentered => f \in W
      /\ dest_efc => f \in W
      /\ release_entry \/ release_return => f \in W
      /\ dest_shared => f \notin V \ W
  BY <1>0, <1>1, <1>2, CleanupFile
<1>4. calls'[r] = calls[r]
  BY <1>0, <1>1, StackAfter
<1>5. /\ calls[r].file \in V /\ W \subseteq V
      /\ \A g \in V : HasEFC(g) /\ ~Rooted(g, r)
      /\ Unused(W, r)
      /\ \A i \in r + 1..Len(calls) : \A g \in Files : calls[i].file = g =>
           IF Releasing(i) THEN g \in W ELSE g \in V \/ ~HasEFC(g) \/ Rooted(g, r)
      /\ \A g \in Files \ V : \A p \in W \cap Parents(g) : ~HasEFC(g) \/ Rooted(g, r)
  BY DEF CleanupOK
<1>6. /\ \A g \in V \ W :
           /\ Needed(g, r)
           /\ IF g \in calls[r].files THEN tag[g] = TAG_DONTCLOSE
                                      ELSE tag[g] = TAG_DEFAULT /\ shared_nrefs[g] <= 1
      /\ calls[r].files \subseteq V \ W
      /\ \A g \in W : /\ tag[g] \in {TAG_CLOSE, TAG_LOCK, TAG_DEFAULT}
                      /\ tag[g] = TAG_DEFAULT /\ shared_nrefs[g] > 1 => lru[g] = <<>>
      /\ \A g \in Files \ V : tag[g] \in {TAG_DEFAULT, TAG_LOCK}
  BY DEF CleanupOK
<1>7. release_entry => Top.file \in W
  BY <1>2, <1>3
<1>8. /\ \A h : Rooted(h, r)' <=> Rooted(h, r)
      /\ \A h \in Files : Parents(h)' \subseteq Parents(h)
      /\ \A h \in Files : shared_nrefs'[h] <= shared_nrefs[h]
      /\ \A h \in Files : lru[h] = <<>> => lru'[h] = <<>>
      /\ Unused(W, r)'
      /\ \A h : Needed(h, r) => Needed(h, r)'
  BY <1>1, <1>5, <1>7, CleanupNeeds
<1>9. \A h \in Files :
         \/ tag'[h] = tag[h]
         \/ h = f /\ tag'[h] = TAG_LOCK /\ (try_close_reentered \/ dest_efc)
         \/ h = f /\ tag'[h] = TAG_DEFAULT /\ (release_return \/ dest_shared)
  BY <1>s, <1>2, CleanupTags
<1>10. release_return => lru[f] = <<>>
  <2>1. release_return => ~Rooted(f, r)
    BY <1>3, <1>5
  <2> QED BY <1>2, <2>1, ReleasedEmpty
<1>11. ASSUME NEW i \in r + 1..Len(calls'), NEW g \in Files, calls'[i].file = g
       PROVE  IF Releasing(i)' THEN g \in W ELSE g \in V \/ ~HasEFC(g) \/ Rooted(g, r)'
  <2>0. Len(calls') \in Nat
    BY <1>0, <1>1, StackAfter
  <2>1. i \in 1..Len(calls')
    BY <1>1, <1>11, <2>0
  <2>2. CASE i \in 1..n /\ calls'[i].file = calls[i].file /\ (Releasing(i)' <=> Releasing(i))
    <3>1. i \in r + 1..Len(calls)
      BY <1>1, <1>11, <2>0, <2>2
    <3>2. IF Releasing(i) THEN g \in W ELSE g \in V \/ ~HasEFC(g) \/ Rooted(g, r)
      BY <1>5, <1>11, <2>2, <3>1
    <3>3. Rooted(g, r)' <=> Rooted(g, r)
      BY <1>8
    <3> QED BY <2>2, <3>2, <3>3
  <2>3. CASE /\ i = n + 1 /\ release_entry /\ ~Releasing(i)'
             /\ calls'[i].file = Head(Top.entries).file
    <3>1. PICK p \in Files : p = Top.file /\ p \in Parents(g)
      BY <1>11, <2>3, ReleaseEntryFacts
    <3>2. p \in W
      BY <1>7, <2>3, <3>1
    <3>3. g \in V \/ ~HasEFC(g) \/ Rooted(g, r)
      BY <1>5, <3>1, <3>2
    <3>4. Rooted(g, r)' <=> Rooted(g, r)
      BY <1>8
    <3> QED BY <2>3, <3>3, <3>4
  <2>4. CASE /\ i = n + 1 /\ (try_close_reentered \/ dest_efc) /\ Releasing(i)'
             /\ calls'[i].file = Top.file
    BY <1>2, <1>3, <1>11, <2>4
  <2>5. PICK k \in 1..Len(calls') : k = i
    BY <2>1
  <2>6. \/ k \in 1..n /\ calls'[k].file = calls[k].file /\ (Releasing(k)' <=> Releasing(k))
        \/ /\ k = n + 1 /\ release_entry /\ ~Releasing(k)'
           /\ calls'[k].file = Head(Top.entries).file
        \/ /\ k = n + 1 /\ (try_close_reentered \/ dest_efc) /\ Releasing(k)'
           /\ calls'[k].file = Top.file
    BY <1>s, CleanupFrames
  <2> QED BY <2>2, <2>3, <2>4, <2>5, <2>6
<1>12. \A g \in Files \ V : \A p \in W \cap Parents(g)' : ~HasEFC(g) \/ Rooted(g, r)'
  BY <1>5, <1>8
<1>13. \A g \in V \ W :
         /\ Needed(g, r)'
         /\ IF g \in calls'[r].files THEN tag'[g] = TAG_DONTCLOSE
                                     ELSE tag'[g] = TAG_DEFAULT /\ shared_nrefs'[g] <= 1
  <2> SUFFICES ASSUME NEW g \in V \ W
               PROVE  /\ Needed(g, r)'
                      /\ IF g \in calls'[r].files
                         THEN tag'[g] = TAG_DONTCLOSE
                         ELSE tag'[g] = TAG_DEFAULT /\ shared_nrefs'[g] <= 1
    OBVIOUS
  <2>1. g \in Files
    OBVIOUS
  <2>2. tag'[g] = tag[g]
    BY <1>3, <1>9, <2>1
  <2>3. shared_nrefs[g] <= 1 => shared_nrefs'[g] <= 1
    <3>1. shared_nrefs'[g] <= shared_nrefs[g] /\ shared_nrefs[g] \in Nat
      BY <1>0, <1>8, <2>1 DEF EfcTypeOK
    <3>2. shared_nrefs'[g] \in Int
      BY <1>0, <2>1, StepTypes DEF EfcTypeOK
    <3> QED BY <3>1, <3>2
  <2>4. Needed(g, r)'
    BY <1>6, <1>8
  <2> QED BY <1>4, <1>6, <2>2, <2>3, <2>4
<1>14. \A g \in W : /\ tag'[g] \in {TAG_CLOSE, TAG_LOCK, TAG_DEFAULT}
                    /\ tag'[g] = TAG_DEFAULT /\ shared_nrefs'[g] > 1 => lru'[g] = <<>>
  <2> SUFFICES ASSUME NEW g \in W
               PROVE  /\ tag'[g] \in {TAG_CLOSE, TAG_LOCK, TAG_DEFAULT}
                      /\ tag'[g] = TAG_DEFAULT /\ shared_nrefs'[g] > 1 => lru'[g] = <<>>
    OBVIOUS
  <2>1. g \in Files
    OBVIOUS
  <2>2. CASE tag'[g] = tag[g]
    <3>1. shared_nrefs'[g] > 1 => shared_nrefs[g] > 1
      <4>1. shared_nrefs'[g] <= shared_nrefs[g] /\ shared_nrefs[g] \in Nat
        BY <1>0, <1>8, <2>1 DEF EfcTypeOK
      <4>2. shared_nrefs'[g] \in Int
        BY <1>0, <2>1, StepTypes DEF EfcTypeOK
      <4> QED BY <4>1, <4>2
    <3> QED BY <1>6, <1>8, <2>1, <2>2, <3>1
  <2>3. CASE g = f /\ tag'[g] = TAG_LOCK
    BY <2>3 DEF TAG_LOCK, TAG_DEFAULT
  <2>4. CASE g = f /\ tag'[g] = TAG_DEFAULT /\ release_return
    BY <1>8, <1>10, <2>1, <2>4
  <2>5. CASE g = f /\ tag'[g] = TAG_DEFAULT /\ dest_shared
    <3>1. shared_nrefs'[g] = 0
      BY <1>0, <1>2, <2>1, <2>5 DEF dest_shared, EfcTypeOK
    <3> QED BY <2>5, <3>1
  <2> QED BY <1>9, <2>1, <2>2, <2>3, <2>4, <2>5
<1>15. r = Len(calls') /\ calls'[r].file \in W =>
         tag'[calls'[r].file] = TAG_DEFAULT /\ lru'[calls'[r].file] = <<>>
  <2> SUFFICES ASSUME r = Len(calls') PROVE tag'[calls[r].file] = TAG_DEFAULT /\ lru'[calls[r].file] = <<>>
    BY <1>4
  <2>1. n = r + 1
    <3>1. Len(calls') = n - 1 \/ Len(calls') = n \/ Len(calls') = n + 1
      BY <1>0, StackAfter
    <3> QED BY <3>1, <1>1
  <2>2. calls[n - 1] = calls[r] /\ calls[n - 1].fn = "cleanup" /\ n # 1
    BY <1>1, <2>1
  <2>3. Caller(n)
    BY <1>0, <1>1 DEF Callers
  <2>4. Top.fn = "efc_release_real" /\ calls[r].file = f
    <3>1. Top.fn \notin Closing
      BY <1>1, <2>2, <2>3 DEF Caller
    <3>2. Top.fn = "efc_release_real"
      BY <1>1, <3>1 DEF Closing
    <3> QED BY <1>1, <1>2, <2>2, <2>3, <3>2 DEF Caller
  <2>5. release_return
    <3>1. release_entry => Len(calls') = n + 1
      BY <1>0, <1>1, OtherMoves DEF Moves, Pushed
    <3>2. release_skip => Len(calls') = n
      BY <1>0, <1>1, OtherMoves DEF Moves, Replaced
    <3> QED BY <1>1, <2>1, <2>4, <3>1, <3>2
  <2>6. tag'[f] = TAG_DEFAULT
    BY <1>0, <1>2, <2>5 DEF release_return, EfcTypeOK
  <2> QED BY <1>8, <1>10, <2>4, <2>5, <2>6
<1>16. \A g \in Files \ V : tag'[g] \in {TAG_DEFAULT, TAG_LOCK}
  BY <1>6, <1>9
<1>17. /\ calls'[r].file \in V /\ W \subseteq V /\ calls'[r].files \subseteq V \ W
       /\ \A g \in V : HasEFC(g) /\ ~Rooted(g, r)'
       /\ Unused(W, r)'
  BY <1>4, <1>5, <1>6, <1>8
<1> QED BY <1>11, <1>12, <1>13, <1>14, <1>15, <1>16, <1>17 DEF CleanupOK, HasEFC

\* Pass 3 goes right, whatever the step.
LEMMA CleanupRightKept ==
  ASSUME EfcInv, NoCacheEmpty, OneRun, TagInPass, Pass2Right, CleanupRight, TagsTell,
         NoObjects', Step
  PROVE  CleanupRight'
<1>0. EfcTypeOK /\ ~Idle
  BY StepCases DEF EfcInv
<1>n. PICK n \in Nat \ {0} : n = Len(calls) /\ Top = calls[n] /\ n \in 1..Len(calls)
  BY <1>0, StackAfter
<1> SUFFICES ASSUME NEW r \in 1..Len(calls'), calls'[r].fn = "cleanup"
             PROVE  \E V, W \in SUBSET Files : CleanupOK(r, V, W)'
  BY DEF CleanupRight
<1>1. Run(r)'
  BY DEF Run, Runs
<1>2. r \in 1..n /\ (r < n => calls'[r] = calls[r])
  BY <1>0, <1>1, <1>n, RunAfter
<1>3. CASE r < n
  <2>1. calls[r].fn = "cleanup" /\ r # n
    BY <1>2, <1>3
  <2>2. PICK V, W \in SUBSET Files : CleanupOK(r, V, W)
    BY <1>2, <1>n, <2>1 DEF CleanupRight
  <2> QED BY <1>2, <1>n, <2>1, <2>2, CleanupBelow
<1>4. CASE r = n
  <2>1. r \in n..Len(calls')
    BY <1>4
  <2>2. pass2_done
    BY <1>0, <1>n, <2>1, FrameFrom
  <2>3. calls[n].fn = "pass2"
    BY <1>n, <2>2 DEF pass2_done, Running
  <2>4. PICK V, X \in SUBSET Files : Pass2OK(n, V, X)
    BY <1>n, <2>3 DEF Pass2Right
  <2>5. PICK W : W = V \ X
    OBVIOUS
  <2>6. W \in SUBSET Files
    BY <2>5
  <2> QED BY <1>4, <1>n, <2>2, <2>4, <2>5, <2>6, Pass2Done
<1> QED BY <1>2, <1>3, <1>4, <1>n

\* After pass 3, the files to be closed are closed, all but the root.
LEMMA CleanupClosed ==
  ASSUME EfcInv, NoGarbage, NoCacheEmpty, ~Idle,
         NEW n, n = Len(calls), calls[n].fn = "cleanup",
         NEW V \in SUBSET Files, NEW W \in SUBSET Files, CleanupOK(n, V, W),
         NEW g \in W, g # calls[n].file
  PROVE  shared_nrefs[g] = 0
<1>0. EfcTypeOK /\ CountsAgree
  BY DEF EfcInv
<1>1. n \in Nat \ {0} /\ n \in 1..Len(calls)
  BY <1>0, TopFacts
<1>2. /\ Unused(W, n)
      /\ calls[n].file \in W => lru[calls[n].file] = <<>>
  BY <1>1 DEF CleanupOK
<1>3. PICK U : U = W \ {calls[n].file}
  OBVIOUS
<1>4. ASSUME NEW h \in U
      PROVE  ~Rooted(h, Len(calls) + 1) /\ Parents(h) \subseteq U
  <2>1. h \in Files /\ h # calls[n].file /\ ~Rooted(h, n) /\ Parents(h) \subseteq W
    BY <1>2, <1>3 DEF Unused
  <2>2. calls[n].file \notin Parents(h)
    BY <1>0, <1>2, <2>1, ParentFacts
  <2>3. ASSUME NEW i \in TopsClosing(h) PROVE FALSE
    <3>1. i \in 1..Len(calls) /\ calls[i].file = h
      BY DEF TopsClosing
    <3>2. i < n
      BY <1>1, <2>1, <3>1
    <3> QED BY <2>1, <3>2 DEF Rooted
  <2>4. ~Rooted(h, Len(calls) + 1)
    BY <2>1, <2>3 DEF Rooted
  <2> QED BY <1>3, <2>1, <2>2, <2>4
<1>5. Unused(U, Len(calls) + 1) /\ U \in SUBSET Files /\ g \in U
  BY <1>3, <1>4 DEF Unused
<1> QED BY <1>5 DEF NoGarbage

\* Which files change their tags, and to what.
LEMMA TagChanges ==
  ASSUME EfcTypeOK, Step, NEW f \in Files, tag'[f] # tag[f]
  PROVE  \/ /\ f = Top.file /\ tag'[f] = TAG_LOCK
            /\ \/ try_close_reentered \/ pass2_done \/ dest_efc
         \/ /\ f = Top.file /\ tag'[f] = TAG_DEFAULT /\ (release_return \/ dest_shared)
         \/ /\ f = Top.file /\ try_close_root /\ tag'[f] = efc_nrefs[f]
         \/ /\ pass1_keep /\ f \in found /\ tag'[f] = TAG_DEFAULT
         \/ /\ try_close_cleanup /\ f \in Top.files /\ tag'[f] = TAG_DEFAULT
         \/ /\ pass1_mark /\ f \in found /\ tag'[f] \in {TAG_CLOSE, TAG_DONTCLOSE}
         \/ /\ tag1_entry /\ f = Head(Top.entries).file
            /\ \/ tag[f] > 0 /\ tag'[f] = tag[f] - 1
               \/ shared_nrefs[f] > 1 /\ tag'[f] = shared_nrefs[f] - 1
         \/ tag2_entry /\ f = Head(Top.entries).file /\ tag'[f] = TAG_DONTCLOSE
<1>0. tag \in [Files -> Int]
  BY DEF EfcTypeOK
<1>1. CASE TryClose
  <2>1. CASE try_close_objects \/ try_close_top
    BY <2>1 DEF try_close_objects, try_close_top
  <2>2. CASE try_close_reentered
    BY <1>0, <2>2 DEF try_close_reentered, Release
  <2>3. CASE try_close_root
    BY <1>0, <2>3 DEF try_close_root
  <2>4. CASE try_close_cleanup
    BY <1>0, <2>4 DEF try_close_cleanup, ResetTags
  <2> QED BY <1>1, <2>1, <2>2, <2>3, <2>4 DEF TryClose
<1>2. CASE Pass1
  <2>1. CASE tag1_return
    BY <2>1 DEF tag1_return
  <2>2. CASE tag1_entry
    BY <1>0, <2>2 DEF tag1_entry
  <2>3. CASE pass1_keep
    BY <1>0, <2>3 DEF pass1_keep, ResetTags
  <2>4. CASE pass1_mark
    BY <1>0, <2>4 DEF pass1_mark
  <2> QED BY <1>2, <2>1, <2>2, <2>3, <2>4 DEF Pass1
<1>3. CASE Pass2
  <2>1. CASE tag2_return \/ pass2_file
    BY <2>1 DEF tag2_return, pass2_file
  <2>2. CASE tag2_entry
    BY <1>0, <2>2 DEF tag2_entry
  <2>3. CASE pass2_done
    BY <1>0, <2>3 DEF pass2_done, Release
  <2> QED BY <1>3, <2>1, <2>2, <2>3 DEF Pass2
<1>4. CASE ReleaseStep
  BY <1>0, <1>4 DEF ReleaseStep, release_entry, release_skip, release_return
<1>5. CASE Dest
  <2>1. CASE dest_top
    BY <2>1 DEF dest_top
  <2>2. CASE dest_efc
    BY <1>0, <2>2 DEF dest_efc, Release
  <2>3. CASE dest_shared
    BY <1>0, <2>3 DEF dest_shared
  <2> QED BY <1>5, <2>1, <2>2, <2>3 DEF Dest
<1>6. CASE efc_open_evicted
  BY <1>6 DEF efc_open_evicted
<1> QED BY <1>1, <1>2, <1>3, <1>4, <1>5, <1>6 DEF Step

\* The steps after which the running call is a run of the passes.
LEMMA RunGoesOn ==
  ASSUME EfcTypeOK, pass1_mark \/ pass2_file \/ pass2_done \/ try_close_root,
         NEW n, n = Len(calls)
  PROVE  /\ n \in Nat \ {0} /\ n \in 1..Len(calls')
         /\ calls'[n].fn = IF try_close_root THEN "pass1"
                           ELSE IF pass2_done THEN "cleanup" ELSE "pass2"
<1>0. ~Idle /\ Top \in FrameRecord /\ n \in Nat \ {0}
  BY TopFacts DEF pass1_mark, pass2_file, pass2_done, try_close_root, Running
<1>f. /\ \A f, entries, files, objs : Frame("pass2", f, entries, files, objs).fn = "pass2"
      /\ \A f, entries, files, objs : Frame("cleanup", f, entries, files, objs).fn = "cleanup"
      /\ \A f : At("pass1", f).fn = "pass1"
  BY DEF Frame, At
<1>1. CASE try_close_root
  <2>1. Pushed(Over("tag1", Top.file, lru[Top.file]), At("pass1", Top.file))
    BY <1>1, ClosingMoves DEF Moves
  <2> QED BY <1>0, <1>1, <1>f, <2>1 DEF Pushed
<1>2. CASE pass1_mark
  <2>1. Replaced(Frame("pass2", Top.file, <<>>, {g \in found : tag[g] > 0}, 0))
    BY <1>2, PassMoves DEF Moves
  <2>2. ~try_close_root /\ ~pass2_done
    BY <1>2 DEF pass1_mark, try_close_root, pass2_done, Running
  <2> QED BY <1>0, <1>f, <2>1, <2>2 DEF Replaced
<1>3. CASE pass2_file
  <2>1. PICK g \in Top.files : Pushed(Over("tag2", g, lru[g]), [Top EXCEPT !.files = @ \ {g}])
    BY <1>3, PassMoves DEF Moves
  <2>2. [Top EXCEPT !.files = @ \ {g}].fn = Top.fn /\ Top.fn = "pass2" /\ Top.files # {}
    BY <1>0, <1>3, <2>1 DEF FrameRecord, pass2_file, Running
  <2>3. ~try_close_root /\ ~pass2_done
    BY <2>2 DEF try_close_root, pass2_done, Running
  <2> QED BY <1>0, <2>1, <2>2, <2>3 DEF Pushed
<1>4. CASE pass2_done
  <2>1. PICK cleanup : cleanup = Frame("cleanup", Top.file, <<>>, found, 0)
    OBVIOUS
  <2>2. (\E callee : Pushed(callee, cleanup)) \/ Replaced(cleanup)
    BY <1>4, <2>1, PassMoves DEF Moves
  <2>3. ~try_close_root
    BY <1>4 DEF try_close_root, pass2_done, Running
  <2>4. n \in 1..Len(calls') /\ calls'[n] = cleanup
    BY <1>0, <2>2 DEF Pushed, Replaced
  <2> QED BY <1>0, <1>4, <1>f, <2>1, <2>3, <2>4
<1> QED BY <1>1, <1>2, <1>3, <1>4

\* Without a run of the passes there are no tags of theirs: they clean up.
LEMMA RunTagsKept ==
  ASSUME EfcInv, NoGarbage, NoCacheEmpty, OneRun, TagInPass, TagsTell, RunTags, Pass1Right,
         CleanupRight, Step
  PROVE  RunTags'
<1>0. EfcTypeOK /\ ~Idle
  BY StepCases DEF EfcInv
<1>n. PICK n \in Nat \ {0} : n = Len(calls) /\ Top = calls[n] /\ n \in 1..Len(calls)
  BY <1>0, StackAfter
<1>s. \A i \in 1..n - 1 : calls'[i] = calls[i] /\ i \in 1..Len(calls')
  BY <1>0, <1>n, StackAfter
<1>r. \A i \in 1..Len(calls) : i = n \/ i \in 1..n - 1
  BY <1>n
<1>t. Top.fn \in {"tag1", "tag2"} => \E r \in 1..n - 1 : calls[r].fn \in {"pass1", "pass2"}
  BY <1>n DEF TagInPass
<1>1. ASSUME \A r \in 1..Len(calls') : ~Run(r)', NEW f \in Files
      PROVE  tag'[f] \in {TAG_DEFAULT, TAG_LOCK}
  <2>1. \A r \in 1..n - 1 : calls[r].fn \notin Runs
    BY <1>s, <1>1 DEF Run
  <2>2. ~pass1_mark /\ ~pass2_file /\ ~pass2_done /\ ~try_close_root
    <3> SUFFICES ASSUME pass1_mark \/ pass2_file \/ pass2_done \/ try_close_root PROVE FALSE
      OBVIOUS
    <3>1. n \in 1..Len(calls') /\ calls'[n].fn \in Runs
      BY <1>0, <1>n, RunGoesOn DEF Runs
    <3> QED BY <1>1, <3>1 DEF Run
  <2>3. Top.fn \notin {"tag1", "tag2"}
    BY <1>t, <2>1 DEF Runs
  <2>4. CASE pass1_keep
    <3>1. calls[n].fn = "pass1"
      BY <1>n, <2>4 DEF pass1_keep, Running
    <3>2. PICK V \in SUBSET Files : Pass1OK(n, V)
      BY <1>n, <3>1 DEF Pass1Right
    <3>3. f \notin found => tag[f] \in {TAG_DEFAULT, TAG_LOCK}
      BY <3>2 DEF Pass1OK
    <3> QED BY <2>4, <3>3 DEF pass1_keep, ResetTags
  <2>5. CASE try_close_cleanup
    <3>1. calls[n].fn = "cleanup"
      BY <1>n, <2>5 DEF try_close_cleanup, Running
    <3>2. PICK V, W \in SUBSET Files : CleanupOK(n, V, W)
      BY <1>n, <3>1 DEF CleanupRight
    <3>3. f \notin V => tag[f] \in {TAG_DEFAULT, TAG_LOCK}
      BY <3>2 DEF CleanupOK
    <3>4. f \in V \ W => f \in calls[n].files \/ tag[f] = TAG_DEFAULT
      BY <3>2 DEF CleanupOK
    <3>5. f \in W => tag[f] = TAG_DEFAULT
      <4>1. CASE f = calls[n].file
        BY <1>n, <3>2, <4>1 DEF CleanupOK
      <4>2. CASE f # calls[n].file
        <5>1. f \in W => shared_nrefs[f] = 0
          BY <1>0, <1>n, <3>1, <3>2, <4>2, CleanupClosed
        <5> QED BY <5>1 DEF TagsTell
      <4> QED BY <4>1, <4>2
    <3>6. tag'[f] = IF f \in calls[n].files THEN TAG_DEFAULT ELSE tag[f]
      BY <1>n, <2>5 DEF try_close_cleanup, ResetTags
    <3> QED BY <3>3, <3>4, <3>5, <3>6
  <2>6. CASE ~pass1_keep /\ ~try_close_cleanup
    <3>1. \A r \in 1..Len(calls) : ~Run(r)
      <4>1. Top.fn \notin Runs
        BY <2>2, <2>6, StepCases DEF Runs
      <4> QED BY <1>n, <1>r, <2>1, <4>1 DEF Run
    <3>2. tag[f] \in {TAG_DEFAULT, TAG_LOCK}
      BY <3>1 DEF RunTags
    <3>3. ~tag1_entry /\ ~tag2_entry
      BY <2>3 DEF tag1_entry, tag2_entry, Running
    <3>4. CASE tag'[f] # tag[f]
      BY <1>0, <2>2, <2>6, <3>3, <3>4, TagChanges
    <3> QED BY <3>2, <3>4
  <2> QED BY <2>4, <2>5, <2>6
<1>2. ASSUME \A r \in 1..Len(calls') : calls'[r].fn \notin {"pass1", "pass2"}
      PROVE  found' = {}
  <2>1. \A r \in 1..n - 1 : calls[r].fn \notin {"pass1", "pass2"}
    BY <1>s, <1>2
  <2>2. CASE pass1_keep \/ pass2_done
    BY <2>2 DEF pass1_keep, pass2_done
  <2>3. CASE ~pass1_keep /\ ~pass2_done
    <3>1. ~pass1_mark /\ ~pass2_file /\ ~try_close_root
      <4> SUFFICES ASSUME pass1_mark \/ pass2_file \/ try_close_root PROVE FALSE
        OBVIOUS
      <4>1. n \in 1..Len(calls') /\ calls'[n].fn \in {"pass1", "pass2"}
        BY <1>0, <1>n, <2>3, RunGoesOn
      <4> QED BY <1>2, <4>1
    <3>2. Top.fn \notin {"tag1", "tag2", "pass1", "pass2"}
      BY <1>t, <2>1, <2>3, <3>1, StepCases
    <3>3. found = {}
      BY <1>n, <1>r, <2>1, <3>2 DEF RunTags
    <3>4. found' = found
      BY <2>3, <3>1, <3>2, StepCases
         DEF try_close_objects, try_close_top, try_close_reentered, try_close_cleanup,
             release_entry, release_skip, release_return, dest_top, dest_efc, dest_shared,
             efc_open_evicted
    <3> QED BY <3>3, <3>4
  <2> QED BY <2>2, <2>3
<1> QED BY <1>1, <1>2 DEF RunTags

\* A file of which a call closes a top is open.
LEMMA ClosingOpen ==
  ASSUME EfcTypeOK, CountsAgree, NEW f \in Files, NEW i \in TopsClosing(f)
  PROVE  shared_nrefs[f] > 0
<1>1. Cardinality(TopsClosing(f)) # 0
  BY CountsFacts, FS_EmptySet
<1>2. /\ user[f] \in Nat /\ loose[f] \in Nat /\ orphaned[f] \in Nat
      /\ Cardinality(Parents(f)) \in Nat /\ Cardinality(TopsClosing(f)) \in Nat
      /\ shared_nrefs[f] = user[f] + loose[f] + orphaned[f]
                           + Cardinality(Parents(f)) + Cardinality(TopsClosing(f))
  BY CountsFacts DEF EfcTypeOK, CountsAgree
<1> QED BY <1>1, <1>2

\* The references of a file go when H5F__dest gives one up, and not before.
LEMMA FilesClose ==
  ASSUME EfcInv, EfcInv', Step, NEW f \in Files, shared_nrefs'[f] = 0
  PROVE  shared_nrefs[f] = 0 \/ (dest_shared /\ tag'[f] = TAG_DEFAULT)
<1>0. EfcTypeOK
  BY DEF EfcInv
<1>1. CASE dest_top \/ dest_shared
  <2>1. /\ dest_top => shared_nrefs'[Top.file] = shared_nrefs[Top.file] - 1 /\ shared_nrefs[Top.file] > 1
        /\ dest_shared => tag'[Top.file] = TAG_DEFAULT
        /\ \A h \in Files : h # Top.file => shared_nrefs'[h] = shared_nrefs[h]
    BY <1>1, DestFacts
  <2>2. shared_nrefs[f] \in Nat
    BY <1>0 DEF EfcTypeOK
  <2> QED BY <1>1, <2>1, <2>2
<1>2. CASE release_entry
  BY <1>2 DEF release_entry
<1>3. CASE efc_open_evicted /\ ~UNCHANGED_COUNTS
  <2>1. PICK g \in Files : /\ \A h \in Files : h # g => shared_nrefs'[h] = shared_nrefs[h]
                           /\ shared_nrefs'[g] = shared_nrefs[g] + 1
    BY <1>3, EvictedInsert
  <2>2. shared_nrefs[f] \in Nat
    BY <1>0 DEF EfcTypeOK
  <2> QED BY <2>1, <2>2
<1>4. CASE try_close_objects
  BY <1>4 DEF try_close_objects
<1>5. CASE /\ ~try_close_objects /\ ~dest_top /\ ~dest_shared /\ ~release_entry
           /\ ~efc_open_evicted \/ UNCHANGED_COUNTS
  <2>1. shared_nrefs' = shared_nrefs
    BY <1>5, QuietFacts
  <2> QED BY <2>1
<1> QED BY <1>1, <1>2, <1>3, <1>4, <1>5

\* A cache is locked while it is being released, and a closed file has no tag.
LEMMA TagsTellKept ==
  ASSUME EfcInv, EfcInv', NoCacheEmpty, TagWalks, TagsTell, Pass1Right, Step
  PROVE  TagsTell'
<1>0. EfcTypeOK /\ CountsAgree /\ ~Idle
  BY StepCases DEF EfcInv
<1>n. PICK n \in Nat \ {0} : n = Len(calls) /\ Top = calls[n] /\ n \in 1..Len(calls)
  BY <1>0, StackAfter
<1>s. /\ \A i \in 1..n - 1 : calls'[i] = calls[i] /\ i \in 1..Len(calls')
      /\ Len(calls') = n - 1 \/ Len(calls') = n \/ Len(calls') = n + 1
      /\ n <= Len(calls') => /\ calls'[n].file = Top.file
                             /\ \/ calls'[n].fn = Top.fn
                                \/ calls'[n].fn \in Closing /\ Top.fn \in Closing
  BY <1>0, <1>n, StackAfter
<1>c. \A f \in Files : shared_nrefs[f] \in Nat /\ efc_nrefs[f] \in Nat /\ tag[f] \in Int
  BY <1>0 DEF EfcTypeOK
<1>1. ASSUME NEW f \in Files, tag'[f] = TAG_LOCK
      PROVE  \E i \in 1..Len(calls') : Releasing(i)' /\ calls'[i].file = f
  <2>1. CASE tag'[f] # tag[f]
    <3>1. f = Top.file /\ (try_close_reentered \/ pass2_done \/ dest_efc)
      BY <1>0, <1>1, <1>c, <2>1, TagChanges DEF TAG_LOCK, TAG_DEFAULT, TAG_CLOSE, TAG_DONTCLOSE
    <3>2. pass2_done => tag[f] = TAG_CLOSE
      BY <2>1, <3>1 DEF pass2_done
    <3>3. PICK frame : Pushed(Over("efc_release_real", f, lru[f]), frame)
      <4>1. CASE try_close_reentered
        BY <1>0, <3>1, <4>1, ClosingMoves DEF Moves
      <4>2. CASE pass2_done
        BY <1>0, <3>1, <3>2, <4>2, PassMoves DEF Moves
      <4>3. CASE dest_efc
        BY <1>0, <3>1, <4>3, OtherMoves DEF Moves
      <4> QED BY <3>1, <4>1, <4>2, <4>3
    <3>4. n + 1 \in 1..Len(calls') /\ calls'[n + 1].fn = "efc_release_real" /\ calls'[n + 1].file = f
      BY <1>n, <3>3 DEF Pushed, Over, Frame
    <3> QED BY <3>4 DEF Releasing
  <2>2. CASE tag'[f] = tag[f]
    <3>1. PICK i \in 1..Len(calls) : Releasing(i) /\ calls[i].file = f
      BY <1>1, <2>2 DEF TagsTell
    <3>2. CASE i \in 1..n - 1
      BY <1>s, <3>1, <3>2 DEF Releasing
    <3>3. CASE i = n
      <4>1. Top.fn = "efc_release_real" /\ Top.file = f
        BY <1>n, <3>1, <3>3 DEF Releasing
      <4>2. ~release_return
        <5>1. release_return => tag'[f] = TAG_DEFAULT
          BY <1>c, <4>1, <1>0 DEF release_return, EfcTypeOK
        <5> QED BY <1>1, <5>1 DEF TAG_LOCK, TAG_DEFAULT
      <4>3. n <= Len(calls')
        <5>1. release_entry => Len(calls') = n + 1
          BY <1>0, <1>n, OtherMoves DEF Moves, Pushed
        <5>2. release_skip => Len(calls') = n
          BY <1>0, <1>n, OtherMoves DEF Moves, Replaced
        <5> QED BY <1>n, <4>1, <4>2, <5>1, <5>2, StepCases
      <4>4. n \in 1..Len(calls') /\ calls'[n].fn = "efc_release_real" /\ calls'[n].file = f
        BY <1>n, <1>s, <4>1, <4>3 DEF Closing
      <4> QED BY <4>4 DEF Releasing
    <3> QED BY <1>n, <3>1, <3>2, <3>3
  <2> QED BY <2>1, <2>2
<1>2. ASSUME NEW f \in Files, shared_nrefs'[f] = 0 PROVE tag'[f] = TAG_DEFAULT
  <2>1. CASE shared_nrefs[f] = 0 /\ tag'[f] # tag[f]
    <3>0. ~(shared_nrefs[f] > 0)
      BY <2>1
    <3>1. Top.fn \in Closing => f # Top.file
      <4>1. Top.fn \in Closing /\ f = Top.file => n \in TopsClosing(f)
        BY <1>n DEF TopsClosing
      <4> QED BY <1>0, <3>0, <4>1, ClosingOpen
    <3>2. f = Top.file => ~try_close_reentered /\ ~pass2_done /\ ~dest_efc /\ ~try_close_root
      BY <3>1 DEF try_close_reentered, pass2_done, dest_efc, try_close_root, Running, Closing
    <3>3. ~(pass1_mark /\ f \in found)
      <4> SUFFICES ASSUME pass1_mark, f \in found PROVE FALSE
        OBVIOUS
      <4>1. calls[n].fn = "pass1"
        BY <1>n DEF pass1_mark, Running
      <4>2. PICK V \in SUBSET Files : Pass1OK(n, V)
        BY <1>n, <4>1 DEF Pass1Right
      <4>3. shared_nrefs[f] > 1
        BY <4>2 DEF Pass1OK
      <4> QED BY <2>1, <4>3
    <3>4. ~((tag1_entry \/ tag2_entry) /\ f = Head(Top.entries).file)
      <4> SUFFICES ASSUME tag1_entry \/ tag2_entry, f = Head(Top.entries).file PROVE FALSE
        OBVIOUS
      <4>1. Tagging(n) /\ Top.entries # <<>>
        BY <1>n DEF Tagging, tag1_entry, tag2_entry, Running
      <4>2. /\ Head(Top.entries) = Top.entries[1] /\ 1 \in 1..Len(Top.entries)
        BY <1>0, <4>1, LaterEntries
      <4>3. Head(Top.entries) \in Entries(Top.file) /\ Top.file \in Files
        BY <1>0, <1>n, <4>1, <4>2, TopFacts DEF TagWalks, WalkOf, FrameRecord
      <4>4. Top.file \in Parents(f)
        BY <4>3 DEF Parents, Cached
      <4> QED BY <1>0, <3>0, <4>4, ParentFacts
    <3> QED BY <1>0, <2>1, <3>2, <3>3, <3>4, TagChanges
  <2>2. CASE shared_nrefs[f] = 0 /\ tag'[f] = tag[f]
    BY <2>2 DEF TagsTell
  <2> QED BY <1>2, <2>1, <2>2, FilesClose
<1> QED BY <1>1, <1>2 DEF TagsTell

\* A file that H5F__dest will close after the release of its cache, was marked by
\* a run of the passes.
LEMMA DestInRunKept ==
  ASSUME EfcInv, OneRun, TagInPass, RunTags, DestInRun, Step
  PROVE  DestInRun'
<1>0. EfcTypeOK /\ ~Idle
  BY StepCases DEF EfcInv
<1>n. PICK n \in Nat \ {0} : n = Len(calls) /\ Top = calls[n] /\ n \in 1..Len(calls)
  BY <1>0, StackAfter
<1>s. /\ \A i \in 1..n - 1 : calls'[i] = calls[i] /\ i \in 1..Len(calls')
      /\ Len(calls') = n - 1 \/ Len(calls') = n \/ Len(calls') = n + 1
      /\ n <= Len(calls') => /\ calls'[n].file = Top.file
                             /\ \/ calls'[n].fn = Top.fn
                                \/ calls'[n].fn \in Closing /\ Top.fn \in Closing
  BY <1>0, <1>n, StackAfter
<1> SUFFICES ASSUME NEW i \in 1..Len(calls'), calls'[i].fn = "efc_release_real", i > 1,
                    calls'[i - 1].fn = "H5F__dest"
             PROVE  \E r \in 1..i - 1 : calls'[r].fn = "cleanup"
  BY DEF DestInRun, Releasing
<1>1. CASE i \in 1..n
  <2>1. calls[i].fn = "efc_release_real"
    <3>1. CASE i = n
      BY <1>n, <1>s, <1>1, <3>1 DEF Closing
    <3>2. CASE i # n
      <4>1. i \in 1..n - 1
        BY <1>n, <1>1, <3>2
      <4> QED BY <1>s, <4>1
    <3> QED BY <3>1, <3>2
  <2>2. \A k \in 1..i - 1 : calls'[k] = calls[k]
    BY <1>n, <1>s, <1>1
  <2>3. i - 1 \in 1..i - 1 /\ calls[i - 1].fn = "H5F__dest"
    BY <1>1, <2>2
  <2>4. Releasing(i) /\ i \in 1..Len(calls)
    BY <1>n, <1>1, <2>1 DEF Releasing
  <2>5. PICK r \in 1..i - 1 : calls[r].fn = "cleanup"
    BY <2>3, <2>4 DEF DestInRun
  <2> QED BY <2>2, <2>5
<1>2. CASE i = n + 1
  <2>0. Len(calls') = n + 1 /\ calls'[n].fn = "H5F__dest"
    BY <1>n, <1>s, <1>2
  <2>1. PICK callee, frame \in FrameRecord : Nests(callee, frame)
    <3>1. Moves(StackStep)
      BY <1>0, StepMoves
    <3> QED BY <1>n, <2>0, <3>1 DEF Moves, StackStep, Popped, Stays, Replaced
  <2>2. calls'[n + 1] = callee /\ calls'[n] = frame
    BY <1>n, <2>1 DEF Nests, Pushed
  <2>3. Top.fn \in Closing
    BY <1>2, <2>0, <2>1, <2>2 DEF Nests, MayCall, SameKind, Closing
  <2>4. try_close_reentered
    <3>1. ~pass1_keep /\ ~pass1_mark /\ ~try_close_top /\ ~try_close_objects /\ ~try_close_cleanup
          /\ ~dest_top /\ ~dest_shared
      BY <1>0, <1>n, <2>0, PassMoves, ClosingMoves, OtherMoves DEF Moves, Replaced, Popped
    <3>2. ~try_close_root /\ ~pass2_file /\ ~pass2_done
      BY <1>0, <1>n, <2>0, RunGoesOn
    <3>3. ~dest_efc
      <4>1. dest_efc => calls'[n].fn = "efc_destroy"
        BY <1>0, <1>n, OtherMoves DEF Moves, Pushed, At, Frame
      <4> QED BY <2>0, <4>1
    <3> QED BY <2>3, <3>1, <3>2, <3>3, StepCases DEF Closing
  <2>5. tag[Top.file] = TAG_CLOSE /\ Top.file \in Files /\ Top.fn = "H5F_try_close"
    BY <1>0, <2>4, TopFacts DEF try_close_reentered, FrameRecord, Running
  <2>6. PICK r \in 1..Len(calls) : Run(r)
    <3>1. tag[Top.file] \notin {TAG_DEFAULT, TAG_LOCK}
      BY <2>5 DEF TAG_CLOSE, TAG_DEFAULT, TAG_LOCK
    <3>2. (\A r \in 1..Len(calls) : ~Run(r)) =>
             \A f \in Files : tag[f] \in {TAG_DEFAULT, TAG_LOCK}
      BY DEF RunTags
    <3> QED BY <2>5, <3>1, <3>2
  <2>7. r # n
    BY <1>n, <2>5, <2>6 DEF Run, Runs
  <2>8. calls[r].fn = "cleanup" /\ r \in 1..n - 1
    <3>1. /\ r \in 1..Len(calls) - 1
          /\ calls[r].fn = "pass1" => Top.fn = "tag1"
          /\ calls[r].fn = "pass2" => Top.fn = "tag2"
      BY <1>0, <1>n, <2>6, <2>7, RunBelow
    <3> QED BY <1>n, <2>5, <2>6, <3>1 DEF Run, Runs
  <2>9. calls'[r].fn = "cleanup" /\ r \in 1..i - 1
    BY <1>2, <1>n, <1>s, <2>8
  <2> QED BY <2>9
<1> QED BY <1>1, <1>2, <1>n, <1>s

\* A top that goes alone: its file is needed if it has other references.
LEMMA TopAlone ==
  ASSUME EfcInv, NoGarbage, NoCacheEmpty, OneRun, TagInPass, CleanupRight, RunTags,
         try_close_top, NEW n, n = Len(calls), NEW f, f = Top.file, shared_nrefs[f] > 1
  PROVE  Needed(f, n)
<1>0. EfcTypeOK /\ CountsAgree /\ ~Idle /\ Top.fn = "H5F_try_close"
  BY DEF EfcInv, try_close_top, Running
<1>1. n \in Nat \ {0} /\ n \in 1..Len(calls) /\ Top = calls[n] /\ f \in Files
  BY <1>0, TopFacts DEF Top, FrameRecord
<1>2. n \in TopsClosing(f)
  BY <1>0, <1>1 DEF TopsClosing, Closing
<1>3. CASE lru[f] = <<>>
  <2>1. \A i \in n + 1..Len(calls) : calls[i].fn \notin Closing
    BY <1>1
  <2> QED BY <1>0, <1>2, <1>1, <1>3, <2>1, EmptyDecides
<1>4. CASE ~HasEFC(f)
  BY <1>1, <1>3, <1>4 DEF NoCacheEmpty
<1>5. CASE HasEFC(f) /\ shared_nrefs[f] # efc_nrefs[f] + 1
  <2>1. ASSUME ~Rooted(f, n) PROVE FALSE
    <3>1. /\ shared_nrefs[f] = Cardinality(Parents(f)) + Cardinality(TopsClosing(f))
          /\ \A i \in TopsClosing(f) : i >= n
      BY <1>0, <1>1, <2>1, OutsideCount
    <3>2. TopsClosing(f) = {n}
      <4>1. \A i \in TopsClosing(f) : i \in 1..n
        BY <1>1 DEF TopsClosing
      <4>2. \A i \in TopsClosing(f) : i = n
        BY <1>1, <3>1, <4>1
      <4> QED BY <1>2, <4>2
    <3>3. efc_nrefs[f] = Cardinality(Parents(f))
      BY <1>0, <1>1, <1>5 DEF CountsAgree
    <3>4. Cardinality(TopsClosing(f)) = 1
      BY <3>2, FS_Singleton
    <3> QED BY <1>5, <3>1, <3>3, <3>4
  <2> QED BY <2>1, RootedNeeded
<1>6. CASE tag[f] = TAG_DONTCLOSE
  <2>1. PICK r \in 1..Len(calls) : Run(r)
    <3>1. tag[f] \notin {TAG_DEFAULT, TAG_LOCK}
      BY <1>6 DEF TAG_DONTCLOSE, TAG_DEFAULT, TAG_LOCK
    <3>2. (\A r \in 1..Len(calls) : ~Run(r)) =>
             \A g \in Files : tag[g] \in {TAG_DEFAULT, TAG_LOCK}
      BY DEF RunTags
    <3> QED BY <1>1, <3>1, <3>2
  <2>2. r # n
    BY <1>0, <1>1, <2>1 DEF Run, Runs
  <2>3. /\ r \in 1..Len(calls) - 1
        /\ calls[r].fn = "pass1" => Top.fn = "tag1"
        /\ calls[r].fn = "pass2" => Top.fn = "tag2"
    BY <1>0, <1>1, <2>1, <2>2, RunBelow
  <2>4. calls[r].fn = "cleanup"
    BY <1>0, <2>1, <2>3 DEF Run, Runs
  <2>5. PICK V, W \in SUBSET Files : CleanupOK(r, V, W)
    BY <2>4 DEF CleanupRight
  <2>6. f \in V \ W
    BY <1>1, <1>6, <2>5 DEF CleanupOK, TAG_DONTCLOSE, TAG_DEFAULT, TAG_LOCK, TAG_CLOSE
  <2>7. Needed(f, r) /\ r \in Nat /\ r <= n
    BY <1>1, <2>3, <2>5, <2>6 DEF CleanupOK
  <2> QED BY <1>0, <1>1, <2>7, NeededLater
<1>7. EntersEFC(f) => NothingToDo(f)
  BY DEF try_close_top
<1> QED BY <1>3, <1>4, <1>5, <1>6, <1>7 DEF EntersEFC, NothingToDo

\* The root goes when its cache is released, and is needed otherwise.
LEMMA CleanupAlone ==
  ASSUME EfcInv, NoGarbage, NoCacheEmpty, CleanupRight,
         try_close_cleanup, NEW n, n = Len(calls), NEW f, f = Top.file, shared_nrefs[f] > 1
  PROVE  Needed(f, n)
<1>0. EfcTypeOK /\ CountsAgree /\ ~Idle /\ Top.fn = "cleanup"
  BY DEF EfcInv, try_close_cleanup, Running
<1>1. n \in Nat \ {0} /\ n \in 1..Len(calls) /\ Top = calls[n] /\ f \in Files
  BY <1>0, TopFacts DEF Top, FrameRecord
<1>2. n \in TopsClosing(f)
  BY <1>0, <1>1 DEF TopsClosing, Closing
<1>3. PICK V, W \in SUBSET Files : CleanupOK(n, V, W)
  BY <1>0, <1>1 DEF CleanupRight
<1>4. f \in W => lru[f] = <<>>
  BY <1>1, <1>3 DEF CleanupOK
<1>5. f \notin W => Needed(f, n)
  BY <1>1, <1>3 DEF CleanupOK
<1>6. \A i \in n + 1..Len(calls) : calls[i].fn \notin Closing
  BY <1>1
<1>7. lru[f] = <<>> => Needed(f, n)
  BY <1>0, <1>1, <1>2, <1>6, EmptyDecides
<1> QED BY <1>4, <1>5, <1>7

\* A file whose cache H5F__efc_try_close has released has nothing left.
LEMMA ReleasedAlone ==
  ASSUME EfcInv, NoGarbage, NoCacheEmpty, CleanupRight, DestInRun, release_return,
         NEW n, n = Len(calls), NEW f, f = Top.file, shared_nrefs[f] > 1,
         n > 1, calls[n - 1].fn = "H5F__dest"
  PROVE  Needed(f, n - 1) /\ calls[n - 1].file = f
<1>0. /\ EfcTypeOK /\ CountsAgree /\ Callers /\ ~Idle /\ Top.fn = "efc_release_real"
  BY DEF EfcInv, release_return, Running
<1>1. n \in Nat \ {0} /\ n \in 1..Len(calls) /\ Top = calls[n] /\ f \in Files /\ n - 1 \in 1..Len(calls)
  BY <1>0, TopFacts DEF Top, FrameRecord
<1>2. Releasing(n)
  BY <1>0, <1>1 DEF Releasing
<1>3. calls[n - 1].file = f
  BY <1>0, <1>1 DEF Callers, Caller
<1>4. PICK r \in 1..n - 1 : calls[r].fn = "cleanup"
  BY <1>1, <1>2 DEF DestInRun
<1>5. r \in 1..Len(calls) /\ n \in r + 1..Len(calls)
  BY <1>1
<1>6. PICK V, W \in SUBSET Files : CleanupOK(r, V, W)
  BY <1>4, <1>5 DEF CleanupRight
<1>7. f \in W /\ W \subseteq V
  BY <1>1, <1>2, <1>5, <1>6 DEF CleanupOK
<1>8. ~Rooted(f, r)
  BY <1>6, <1>7 DEF CleanupOK
<1>9. lru[f] = <<>>
  BY <1>8, ReleasedEmpty
<1>10. n - 1 \in TopsClosing(f)
  BY <1>1, <1>3 DEF TopsClosing, Closing
<1>11. PICK k \in Nat : k = n - 1
  BY <1>1
<1>12. \A i \in k + 1..Len(calls) : calls[i].fn \notin Closing
  <2>1. \A i \in k + 1..Len(calls) : i = n
    BY <1>1, <1>11
  <2> QED BY <1>0, <1>1, <2>1 DEF Closing
<1>13. k \in TopsClosing(f)
  BY <1>10, <1>11
<1>14. Needed(f, k)
  BY <1>0, <1>1, <1>9, <1>12, <1>13, EmptyDecides
<1> QED BY <1>3, <1>11, <1>14

\* H5F__dest leaves no file behind that only caches keep open.
LEMMA DestRightKept ==
  ASSUME EfcInv, NoGarbage, NoCacheEmpty, OneRun, TagInPass, CleanupRight, Pass1Right, RunTags,
         DestInRun, Step
  PROVE  DestRight'
<1>0. EfcTypeOK /\ Callers /\ ~Idle
  BY StepCases DEF EfcInv
<1>n. PICK n \in Nat \ {0} : n = Len(calls) /\ Top = calls[n] /\ n \in 1..Len(calls)
  BY <1>0, StackAfter
<1>m. PICK m : m = Len(calls')
  OBVIOUS
<1>g. PICK g : g = calls'[m].file
  OBVIOUS
<1> SUFFICES ASSUME Running("H5F__dest")', shared_nrefs'[g] > 1
             PROVE  Needed(g, m)'
  BY <1>m, <1>g DEF DestRight, Running, Top
<1>1. calls'[m].fn = "H5F__dest"
  BY <1>m DEF Running, Top
<1>s. /\ m = n - 1 \/ m = n \/ m = n + 1
      /\ \A i \in 1..n - 1 : calls'[i] = calls[i]
      /\ n <= m => calls'[n].file = Top.file
  BY <1>0, <1>n, <1>m, StackAfter
<1>2. m # n + 1
  <2> SUFFICES ASSUME m = n + 1 PROVE FALSE
    OBVIOUS
  <2>1. PICK callee, frame \in FrameRecord : Nests(callee, frame)
    <3>1. Moves(StackStep)
      BY <1>0, StepMoves
    <3> QED BY <1>n, <1>m, <3>1 DEF Moves, StackStep, Popped, Stays, Replaced
  <2>2. calls'[m] = callee
    BY <1>n, <2>1 DEF Nests, Pushed
  <2>3. release_entry
    <3>1. Top.fn = "efc_release_real"
      BY <1>1, <2>1, <2>2 DEF Nests, MayCall, SameKind, Closing
    <3>2. ~release_skip /\ ~release_return
      BY <1>0, <1>n, <1>m, OtherMoves DEF Moves, Replaced, Popped
    <3> QED BY <3>1, <3>2, StepCases
  <2>4. PICK c, fr : c.fn = "H5F_try_close" /\ Nests(c, fr)
    BY <2>3, ReleaseEntryFacts
  <2>5. calls'[m].fn = "H5F_try_close"
    BY <1>n, <2>4 DEF Nests, Pushed
  <2> QED BY <1>1, <2>5
<1>q. ASSUME try_close_top \/ pass1_keep \/ try_close_cleanup \/ release_return
      PROVE  /\ shared_nrefs' = shared_nrefs
             /\ \A f : \A k \in 0..Len(calls) : Needed(f, k)' <=> Needed(f, k)
  <2>1. Top.fn \in {"H5F_try_close", "pass1", "cleanup", "efc_release_real"}
    BY <1>q DEF try_close_top, pass1_keep, try_close_cleanup, release_return, Running
  <2>2. ~dest_top /\ ~dest_shared /\ ~efc_open_evicted
    BY <2>1 DEF dest_top, dest_shared, efc_open_evicted, Running
  <2>3. ~try_close_objects /\ ~release_entry
    BY <1>q DEF try_close_top, pass1_keep, try_close_cleanup, release_return, Running,
       try_close_objects, release_entry
  <2> QED BY <2>2, <2>3, QuietNeeds
<1>3. CASE m = n
  <2>1. g = Top.file
    BY <1>g, <1>n, <1>s, <1>3
  <2>2. try_close_top \/ pass1_keep \/ try_close_cleanup
    <3>1. ~Popped /\ \A callee, frame : ~Pushed(callee, frame)
      BY <1>n, <1>m, <1>3 DEF Popped, Pushed
    <3>2. Top.fn \notin {"efc_release_real", "H5F__dest", "efc_destroy", "efc_open", "tag1", "tag2"}
      <4>1. calls'[n].fn = Top.fn \/ (calls'[n].fn \in Closing /\ Top.fn \in Closing)
        BY <1>0, <1>n, <1>m, <1>3, StackAfter
      <4>2. ~dest_top /\ ~dest_shared /\ ~dest_efc
        BY <1>0, <3>1, OtherMoves DEF Moves
      <4>3. Top.fn \in Closing
        BY <1>1, <1>3, <4>1 DEF Closing
      <4> QED BY <4>2, <4>3, StepCases DEF Closing
    <3>3. ~try_close_objects /\ ~try_close_reentered /\ ~try_close_root /\ ~pass2_file
      BY <1>0, <3>1, ClosingMoves, PassMoves DEF Moves
    <3>4. ~pass1_mark /\ ~pass2_done
      BY <1>0, <1>1, <1>3, RunGoesOn, <1>n
    <3> QED BY <3>2, <3>3, <3>4, StepCases
  <2>3. shared_nrefs[g] > 1
    BY <1>q, <2>2
  <2>4. CASE try_close_top
    <3>1. Needed(g, n)
      BY <1>n, <2>1, <2>3, <2>4, TopAlone
    <3>2. n \in 0..Len(calls)
      BY <1>n
    <3> QED BY <1>3, <1>q, <2>4, <3>1, <3>2
  <2>5. CASE pass1_keep
    <3>1. calls[n].fn = "pass1"
      BY <1>n, <2>5 DEF pass1_keep, Running
    <3>2. PICK V \in SUBSET Files : Pass1OK(n, V)
      BY <1>n, <3>1 DEF Pass1Right
    <3>3. Needed(Top.file, n)
      BY <1>n, <2>5, <3>2, RootKept
    <3>4. Needed(g, n)
      BY <2>1, <3>3
    <3>5. n \in 0..Len(calls)
      BY <1>n
    <3> QED BY <1>3, <1>q, <2>5, <3>4, <3>5
  <2>6. CASE try_close_cleanup
    <3>1. Needed(g, n)
      BY <1>n, <2>1, <2>3, <2>6, CleanupAlone
    <3>2. n \in 0..Len(calls)
      BY <1>n
    <3> QED BY <1>3, <1>q, <2>6, <3>1, <3>2
  <2> QED BY <2>2, <2>4, <2>5, <2>6
<1>4. CASE m = n - 1
  <2>0. n > 1
    <3>1. m # 0
      BY <1>m DEF Running, Idle
    <3> QED BY <1>4, <1>n, <3>1
  <2>1. calls[n - 1].fn = "H5F__dest" /\ g = calls[n - 1].file
    <3>1. n - 1 \in 1..n - 1
      BY <1>n, <2>0
    <3> QED BY <1>1, <1>4, <1>g, <1>s, <3>1
  <2>2. Top.fn = "efc_release_real"
    <3>1. Caller(n)
      BY <1>0, <1>n DEF Callers
    <3>2. Top.fn \in Closing \cup Walking
      BY <1>0, TopFacts DEF FrameRecord
    <3> QED BY <1>n, <2>0, <2>1, <3>1, <3>2 DEF Caller, Walking
  <2>3. release_return
    <3>1. release_entry => Len(calls') = n + 1
      BY <1>0, <1>n, OtherMoves DEF Moves, Pushed
    <3>2. release_skip => Len(calls') = n
      BY <1>0, <1>n, OtherMoves DEF Moves, Replaced
    <3> QED BY <1>n, <1>m, <1>4, <2>2, <3>1, <3>2, StepCases
  <2>4. PICK f : f = Top.file
    OBVIOUS
  <2>5. calls[n - 1].file = f
    <3>1. Caller(n)
      BY <1>0, <1>n DEF Callers
    <3> QED BY <1>n, <2>0, <2>2, <2>4, <3>1 DEF Caller
  <2>6. shared_nrefs[f] > 1
    BY <1>q, <2>1, <2>3, <2>5
  <2>7. Needed(f, n - 1)
    BY <1>n, <2>0, <2>1, <2>3, <2>4, <2>6, ReleasedAlone
  <2>8. Needed(g, m) /\ m \in 0..Len(calls)
    BY <1>4, <1>n, <2>0, <2>1, <2>5, <2>7
  <2> QED BY <1>q, <2>3, <2>8
<1> QED BY <1>s, <1>2, <1>3, <1>4
-----------------------------------------------------------------------------
\* Every step of a call keeps what the passes rely on.
LEMMA StepReach ==
  ASSUME EfcInv, EfcInv', NoObjects', ReachInv, Step PROVE ReachInv'
<1> USE DEF ReachInv
<1>1. NoGarbage' /\ NoCacheEmpty'
  BY NoGarbageKept, NoCacheEmptyKept
<1>2. DestRight' /\ OneRun'
  BY DestRightKept, OneRunKept
<1>3. TagWalks' /\ TagInPass'
  BY TagWalksKept, TagInPassKept
<1>4. Pass1Right' /\ Pass2Right'
  BY Pass1RightKept, Pass2RightKept
<1>5. CleanupRight'
  BY CleanupRightKept
<1>6. RunTags' /\ TagsTell'
  BY RunTagsKept, TagsTellKept
<1>7. DestInRun'
  BY DestInRunKept
<1> QED BY <1>1, <1>2, <1>3, <1>4, <1>5, <1>6, <1>7

\* Between two calls there are no tags.
LEMMA IdleTags ==
  ASSUME Idle, RunTags, TagsTell
  PROVE  found = {} /\ \A f \in Files : tag[f] = TAG_DEFAULT
<1>1. 1..Len(calls) = {}
  BY DEF Idle
<1>2. found = {} /\ \A f \in Files : tag[f] \in {TAG_DEFAULT, TAG_LOCK}
  BY <1>1 DEF RunTags
<1>3. \A f \in Files : tag[f] # TAG_LOCK
  BY <1>1 DEF TagsTell
<1> QED BY <1>2, <1>3

\* The calls with which the application begins are no part of a run.
LEMMA BegunCalls ==
  ASSUME EfcTypeOK',
         \A i \in 1..Len(calls') :
           /\ calls'[i].fn \in {"H5F_try_close", "efc_open", "efc_release_real"}
           /\ calls'[i].fn = "efc_release_real" => i = 1
  PROVE  /\ DestRight' /\ OneRun' /\ TagWalks' /\ TagInPass' /\ Pass1Right' /\ Pass2Right'
         /\ CleanupRight' /\ DestInRun' /\ \A r \in 1..Len(calls') : ~Run(r)'
<1>1. Len(calls') \in Nat /\ (~Idle' => Len(calls') \in 1..Len(calls'))
  BY DEF EfcTypeOK, Idle
<1>2. DestRight'
  BY <1>1 DEF DestRight, Running, Top
<1>3. OneRun' /\ \A r \in 1..Len(calls') : ~Run(r)'
  BY DEF OneRun, Run, Runs
<1>4. TagWalks' /\ TagInPass'
  BY DEF TagWalks, TagInPass, Tagging
<1>5. Pass1Right' /\ Pass2Right' /\ CleanupRight'
  BY DEF Pass1Right, Pass2Right, CleanupRight
<1>6. DestInRun'
  BY DEF DestInRun, Releasing
<1> QED BY <1>2, <1>3, <1>4, <1>5, <1>6

\* A call begins without garbage.
LEMMA BegunGarbage ==
  ASSUME EfcInv, EfcInv', NoGarbage, Idle,
         \A f \in Files :
           \/ user'[f] > 0 \/ loose'[f] > 0 \/ orphaned'[f] > 0 \/ TopsClosing(f)' # {}
           \/ /\ user'[f] = user[f] /\ loose'[f] = loose[f] /\ orphaned'[f] = orphaned[f]
              /\ Parents(f) \subseteq Parents(f)'
              /\ \/ shared_nrefs'[f] = shared_nrefs[f]
                 \/ \E p \in Parents(f)' : shared_nrefs[p] # 0
  PROVE  NoGarbage'
<1>0. EfcTypeOK /\ EfcTypeOK'
  BY DEF EfcInv
<1>1. \A f : TopsClosing(f) = {}
  BY DEF TopsClosing, Idle
<1>2. ASSUME NEW f
      PROVE  Rooted(f, Len(calls) + 1)' <=>
                user'[f] > 0 \/ loose'[f] > 0 \/ orphaned'[f] > 0 \/ TopsClosing(f)' # {}
  <2>1. Len(calls') \in Nat /\ \A i \in TopsClosing(f)' : i \in 1..Len(calls')
    BY <1>0 DEF EfcTypeOK, TopsClosing
  <2>2. \A i \in TopsClosing(f)' : i < Len(calls') + 1
    BY <2>1
  <2> QED BY <2>2 DEF Rooted
<1>3. ASSUME NEW f \in Files
      PROVE  \/ Rooted(f, Len(calls) + 1)'
             \/ /\ ~Rooted(f, Len(calls) + 1) /\ Parents(f) \subseteq Parents(f)'
                /\ \/ shared_nrefs'[f] = 0 \/ shared_nrefs[f] # 0
                   \/ \E p \in Parents(f)' : shared_nrefs[p] # 0
  <2>1. Rooted(f, Len(calls) + 1) <=> user[f] > 0 \/ loose[f] > 0 \/ orphaned[f] > 0
    BY <1>0, <1>1, AllRooted
  <2> QED BY <2>1, <1>2
<1> QED BY <1>0, <1>3, GarbageKept

\* Files without a cache stay without entries.
LEMMA BegunCaches ==
  ASSUME NoCacheEmpty, \A f \in Files : HasEFC(f) \/ lru'[f] = lru[f],
         \A i \in 1..Len(calls') : calls'[i].fn = "efc_open" => HasEFC(calls'[i].file)
  PROVE  NoCacheEmpty'
BY DEF NoCacheEmpty, HasEFC

\* No tags but the lock of a cache that is released.
LEMMA BegunTags ==
  ASSUME Idle, RunTags, TagsTell, found' = found, EfcTypeOK, EfcTypeOK',
         \A f \in Files :
           /\ shared_nrefs'[f] = 0 => shared_nrefs[f] = 0
           /\ \/ tag'[f] = tag[f]
              \/ /\ tag'[f] = TAG_LOCK /\ shared_nrefs'[f] # 0
                 /\ \E i \in 1..Len(calls') : Releasing(i)' /\ calls'[i].file = f
  PROVE  RunTags' /\ TagsTell'
<1>1. found' = {} /\ \A f \in Files : tag[f] = TAG_DEFAULT
  BY IdleTags
<1>2. RunTags'
  BY <1>1 DEF RunTags
<1>3. TAG_DEFAULT # TAG_LOCK
  BY DEF TAG_DEFAULT, TAG_LOCK
<1>4. TagsTell'
  BY <1>1, <1>3 DEF TagsTell
<1> QED BY <1>2, <1>4

\* The whole of it.
LEMMA BegunReach ==
  ASSUME EfcInv, EfcInv', ReachInv, Idle, found' = found,
         NoGarbage', NoCacheEmpty',
         \A i \in 1..Len(calls') :
           /\ calls'[i].fn \in {"H5F_try_close", "efc_open", "efc_release_real"}
           /\ calls'[i].fn = "efc_release_real" => i = 1,
         \A f \in Files :
           /\ shared_nrefs'[f] = 0 => shared_nrefs[f] = 0
           /\ \/ tag'[f] = tag[f]
              \/ /\ tag'[f] = TAG_LOCK /\ shared_nrefs'[f] # 0
                 /\ \E i \in 1..Len(calls') : Releasing(i)' /\ calls'[i].file = f
  PROVE  ReachInv'
<1>0. EfcTypeOK /\ EfcTypeOK' /\ RunTags /\ TagsTell
  BY DEF EfcInv, ReachInv
<1>1. RunTags' /\ TagsTell'
  BY <1>0, BegunTags
<1>2. /\ DestRight' /\ OneRun' /\ TagWalks' /\ TagInPass' /\ Pass1Right' /\ Pass2Right'
      /\ CleanupRight' /\ DestInRun'
  BY <1>0, BegunCalls
<1> QED BY <1>1, <1>2 DEF ReachInv
-----------------------------------------------------------------------------
\* H5Fopen, and a file that is opened outside the caches.
LEMMA OpenReach ==
  ASSUME EfcInv, EfcInv', ReachInv, NEW f \in Files, Idle,
         \/ user' = [user EXCEPT ![f] = user[f] + 1] /\ loose' = loose
         \/ loose' = [loose EXCEPT ![f] = loose[f] + 1] /\ user' = user,
         shared_nrefs' = [shared_nrefs EXCEPT ![f] = shared_nrefs[f] + 1],
         UNCHANGED <<efc_nrefs, lru, tag, orphaned, found, calls>>
  PROVE  ReachInv'
<1>0. EfcTypeOK /\ EfcTypeOK' /\ 1..Len(calls') = {} /\ NoGarbage /\ NoCacheEmpty
  BY DEF EfcInv, ReachInv, Idle
<1>1. /\ user \in [Files -> Nat] /\ loose \in [Files -> Nat] /\ shared_nrefs \in [Files -> Nat]
  BY <1>0 DEF EfcTypeOK
<1>2. /\ user'[f] > 0 \/ loose'[f] > 0
      /\ \A g \in Files : g # f => /\ user'[g] = user[g] /\ loose'[g] = loose[g]
                                   /\ shared_nrefs'[g] = shared_nrefs[g]
      /\ shared_nrefs'[f] # 0
  BY <1>1
<1>3. \A g \in Files : Parents(g)' = Parents(g)
  BY DEF Parents, Cached, Entries
<1>4. NoGarbage'
  BY <1>0, <1>2, <1>3, BegunGarbage
<1>5. NoCacheEmpty'
  BY <1>0, BegunCaches
<1>6. \A g \in Files : (shared_nrefs'[g] = 0 => shared_nrefs[g] = 0) /\ tag'[g] = tag[g]
  BY <1>2
<1> QED BY <1>0, <1>4, <1>5, <1>6, BegunReach

\* H5Fclose, and the close of the last object of a top.
LEMMA CloseReach ==
  ASSUME EfcInv, EfcInv', ReachInv, NEW f \in Files, NEW objs \in Nat, Idle,
         calls' = <<Frame("H5F_try_close", f, <<>>, {}, objs)>>,
         \A g \in Files : g # f => /\ user'[g] = user[g] /\ loose'[g] = loose[g]
                                   /\ orphaned'[g] = orphaned[g],
         UNCHANGED <<shared_nrefs, efc_nrefs, lru, tag, found>>
  PROVE  ReachInv'
<1>0. EfcTypeOK /\ EfcTypeOK' /\ NoGarbage /\ NoCacheEmpty
  BY DEF EfcInv, ReachInv
<1>1. /\ Len(calls') = 1 /\ calls'[1].fn = "H5F_try_close" /\ calls'[1].file = f
  BY DEF Frame
<1>2. \A i \in 1..Len(calls') : calls'[i].fn = "H5F_try_close"
  BY <1>1
<1>3. TopsClosing(f)' # {}
  <2>1. 1 \in TopsClosing(f)'
    BY <1>1 DEF TopsClosing, Closing
  <2> QED BY <2>1
<1>4. \A g \in Files : Parents(g)' = Parents(g)
  BY DEF Parents, Cached, Entries
<1>5. NoGarbage'
  BY <1>0, <1>3, <1>4, BegunGarbage
<1>6. NoCacheEmpty'
  BY <1>0, <1>2, BegunCaches
<1> QED BY <1>2, <1>5, <1>6, BegunReach

\* H5Fclear_elink_file_cache.
LEMMA ClearReach ==
  ASSUME EfcInv, EfcInv', ReachInv, NEW f \in Files, efc_release(f) PROVE ReachInv'
<1>0. EfcTypeOK /\ EfcTypeOK' /\ NoGarbage /\ NoCacheEmpty /\ CountsAgree
  BY DEF EfcInv, ReachInv
<1>1. /\ Idle /\ user[f] > 0 /\ tag' = [tag EXCEPT ![f] = TAG_LOCK]
      /\ calls' = <<Over("efc_release_real", f, lru[f])>>
      /\ UNCHANGED <<shared_nrefs, efc_nrefs, lru, user, loose, orphaned, found>>
  BY DEF efc_release, Begin, UNCHANGED_COUNTS, TOPS
<1>2. /\ Len(calls') = 1 /\ calls'[1].fn = "efc_release_real" /\ calls'[1].file = f
  BY <1>1 DEF Over, Frame
<1>3. \A i \in 1..Len(calls') : i = 1 /\ calls'[i].fn = "efc_release_real"
  BY <1>2
<1>4. Releasing(1)' /\ 1 \in 1..Len(calls')
  BY <1>2 DEF Releasing
<1>5. shared_nrefs[f] # 0
  <2>1. Held(f)
    BY <1>1 DEF Held
  <2> QED BY <2>1, <1>0, HeldOpen
<1>6. \A g \in Files : Parents(g)' = Parents(g)
  BY <1>1 DEF Parents, Cached, Entries
<1>7. NoGarbage'
  BY <1>0, <1>1, <1>6, BegunGarbage
<1>8. NoCacheEmpty'
  BY <1>0, <1>1, <1>3, BegunCaches
<1>9. tag \in [Files -> Int]
  BY <1>0 DEF EfcTypeOK
<1>10. ASSUME NEW g \in Files
       PROVE  /\ shared_nrefs'[g] = 0 => shared_nrefs[g] = 0
              /\ \/ tag'[g] = tag[g]
                 \/ /\ tag'[g] = TAG_LOCK /\ shared_nrefs'[g] # 0
                    /\ \E i \in 1..Len(calls') : Releasing(i)' /\ calls'[i].file = g
  <2>1. CASE g = f
    BY <2>1, <1>1, <1>2, <1>4, <1>5, <1>9
  <2>2. CASE g # f
    BY <2>2, <1>1, <1>9
  <2> QED BY <2>1, <2>2
<1> QED BY <1>1, <1>3, <1>7, <1>8, <1>10, BegunReach

\* The entries of one cache change, but not the files they are for.
LEMMA SameFilesReach ==
  ASSUME EfcInv, EfcInv', ReachInv, Idle, NEW p \in Files, HasEFC(p),
         \A q \in Files : Parents(q)' = Parents(q) /\ (q # p => lru'[q] = lru[q]),
         UNCHANGED <<shared_nrefs, efc_nrefs, tag, TOPS, found, calls>>
  PROVE  ReachInv'
<1>0. /\ NoGarbage /\ NoCacheEmpty /\ 1..Len(calls') = {}
      /\ UNCHANGED <<user, loose, orphaned>>
  BY DEF EfcInv, ReachInv, Idle, TOPS
<1>1. NoGarbage'
  BY <1>0, BegunGarbage
<1>2. NoCacheEmpty'
  BY <1>0, BegunCaches
<1> QED BY <1>0, <1>1, <1>2, BegunReach

\* A new entry of a cache.
LEMMA NewReach ==
  ASSUME EfcInv, EfcInv', ReachInv, NEW p \in Files, NEW f \in Files, efc_open_new(p, f)
  PROVE  ReachInv'
<1>0. /\ EfcTypeOK /\ OneEntry /\ CountsAgree /\ NoGarbage /\ NoCacheEmpty
      /\ Idle /\ Held(p) /\ HasEFC(p) /\ ~Cached(p, f) /\ insert(p, f)
      /\ UNCHANGED <<tag, found, calls>>
  BY DEF EfcInv, ReachInv, efc_open_new
<1>1. /\ shared_nrefs' = [shared_nrefs EXCEPT ![f] = shared_nrefs[f] + 1]
      /\ UNCHANGED <<user, loose, orphaned>> /\ 1..Len(calls') = {}
  BY <1>0 DEF insert, TOPS, Idle
<1>2. \A q \in Files : q # p => lru'[q] = lru[q]
  BY <1>0, InsertFacts
<1>3. shared_nrefs \in [Files -> Nat]
  BY <1>0 DEF EfcTypeOK
<1>4. /\ \A g \in Files : g # f => shared_nrefs'[g] = shared_nrefs[g]
      /\ shared_nrefs'[f] # 0
  BY <1>1, <1>3
<1>5. shared_nrefs[p] # 0
  BY <1>0, HeldOpen
<1>6. /\ \A q \in Files : q # p => Entries(q)' = Entries(q)
      /\ Entries(p)' = Entries(p) \cup {Entry(f)}
  BY <1>0, InsertEntries
<1>7. \A g, q \in Files : Cached(q, g) => Cached(q, g)'
  BY <1>6 DEF Cached
<1>8. \A g \in Files : Parents(g) \subseteq Parents(g)'
  BY <1>7 DEF Parents
<1>9. p \in Parents(f)'
  <2>1. Entry(f) \in Entries(p)' /\ Entry(f).file = f
    BY <1>6 DEF Entry
  <2>2. Cached(p, f)'
    BY <2>1 DEF Cached
  <2> QED BY <2>2 DEF Parents
<1>10. NoGarbage'
  <2>1. \A g \in Files : \/ shared_nrefs'[g] = shared_nrefs[g]
                         \/ \E q \in Parents(g)' : shared_nrefs[q] # 0
    BY <1>4, <1>5, <1>9
  <2> QED BY <2>1, <1>0, <1>1, <1>8, BegunGarbage
<1>11. NoCacheEmpty'
  BY <1>0, <1>1, <1>2, BegunCaches
<1>12. \A g \in Files : (shared_nrefs'[g] = 0 => shared_nrefs[g] = 0) /\ tag'[g] = tag[g]
  BY <1>0, <1>4
<1> QED BY <1>0, <1>1, <1>10, <1>11, <1>12, BegunReach

\* The eviction of an entry.
LEMMA EvictReach ==
  ASSUME EfcInv, EfcInv', ReachInv, NEW p \in Files, NEW f \in Files, efc_open_evict(p, f)
  PROVE  ReachInv'
<1>0. /\ EfcTypeOK /\ OneEntry /\ NoGarbage /\ NoCacheEmpty /\ HasEFC(p)
      /\ UNCHANGED <<shared_nrefs, tag, user, loose, orphaned, found>>
  BY DEF EfcInv, ReachInv, efc_open_evict, MustEvict, TOPS
<1>i. PICK i \in 1..Len(lru[p]) :
        /\ remove_ent(p, lru[p][i].file) /\ Idle
        /\ calls' = <<Frame("efc_open", p, <<>>, {f}, 0),
                      Frame("H5F_try_close", lru[p][i].file, <<>>, {}, lru[p][i].objs)>>
  BY DEF efc_open_evict, Victim, Begin
<1>g. PICK g \in Files : g = lru[p][i].file
  BY <1>0, EntriesFacts
<1>1. /\ Len(calls') = 2 /\ calls'[1].fn = "efc_open" /\ calls'[1].file = p
      /\ calls'[2].fn = "H5F_try_close" /\ calls'[2].file = g
  BY <1>i, <1>g DEF Frame
<1>2. \A j \in 1..Len(calls') :
        \/ calls'[j].fn = "efc_open" /\ calls'[j].file = p
        \/ calls'[j].fn = "H5F_try_close"
  <2>1. \A j \in 1..Len(calls') : j = 1 \/ j = 2
    BY <1>1
  <2> QED BY <1>1, <2>1
<1>3. TopsClosing(g)' # {}
  <2>1. 2 \in TopsClosing(g)'
    BY <1>1 DEF TopsClosing, Closing
  <2> QED BY <2>1
<1>4. \A h \in Files : h # g => Parents(h)' = Parents(h)
  BY <1>0, <1>i, <1>g, ParentsAfter
<1>5. \A q \in Files : q # p => lru'[q] = lru[q]
  BY <1>0, <1>i, RemoveEntFacts
<1>6. NoGarbage'
  BY <1>0, <1>i, <1>3, <1>4, BegunGarbage
<1>7. NoCacheEmpty'
  BY <1>0, <1>2, <1>5, BegunCaches
<1> QED BY <1>0, <1>i, <1>2, <1>6, <1>7, BegunReach

\* Nothing changes.
LEMMA StutterReach ==
  ASSUME ReachInv, UNCHANGED efc_vars PROVE ReachInv'
<1> USE DEF efc_vars
<1>1. /\ \A f, k : Rooted(f, k)' <=> Rooted(f, k)
      /\ \A f : Parents(f)' = Parents(f)
  BY DEF Rooted, TopsClosing, Parents, Cached, Entries
<1>2. \A U, k : Unused(U, k)' <=> Unused(U, k)
  BY <1>1 DEF Unused
<1>3. \A f, k : Needed(f, k)' <=> Needed(f, k)
  BY <1>2 DEF Needed
<1>4. \A g, V : Unseen(g, V)' = Unseen(g, V)
  BY <1>1 DEF Unseen, Ahead, Coming, Tagging
<1>5. NoGarbage' /\ NoCacheEmpty'
  BY <1>2 DEF ReachInv, NoGarbage, NoCacheEmpty, HasEFC
<1>6. DestRight' /\ OneRun'
  BY <1>3 DEF ReachInv, DestRight, OneRun, Run, Running, Top, Idle
<1>7. TagWalks' /\ TagInPass'
  BY DEF ReachInv, TagWalks, TagInPass, Tagging, WalkOf, Entries
<1>8. Pass1Right'
  <2>1. \A r, V : Pass1OK(r, V) => Pass1OK(r, V)'
    BY <1>1, <1>4 DEF Pass1OK, HasEFC
  <2> QED BY <2>1 DEF ReachInv, Pass1Right
<1>9. Pass2Right'
  <2>1. \A r, V, X : Pass2OK(r, V, X) => Pass2OK(r, V, X)'
    BY <1>1, <1>3 DEF Pass2OK, HasEFC, Ahead, Coming, Tagging
  <2> QED BY <2>1 DEF ReachInv, Pass2Right
<1>10. CleanupRight'
  <2>1. \A r, V, W : CleanupOK(r, V, W) => CleanupOK(r, V, W)'
    BY <1>1, <1>2, <1>3 DEF CleanupOK, HasEFC, Releasing
  <2> QED BY <2>1 DEF ReachInv, CleanupRight
<1>11. RunTags' /\ TagsTell' /\ DestInRun'
  BY DEF ReachInv, RunTags, Run, TagsTell, DestInRun, Releasing
<1> QED BY <1>5, <1>6, <1>7, <1>8, <1>9, <1>10, <1>11 DEF ReachInv

\* Every call of the application begins as it should.
LEMMA ClientReach ==
  ASSUME EfcInv, EfcInv', ReachInv, EfcNext, ~Step PROVE ReachInv'
<1>0. EfcTypeOK /\ NoCacheEmpty
  BY DEF EfcInv, ReachInv
<1>1. ASSUME NEW f \in Files, open_file(f) PROVE ReachInv'
  <2>1. /\ Idle /\ user' = [user EXCEPT ![f] = user[f] + 1] /\ loose' = loose
        /\ shared_nrefs' = [shared_nrefs EXCEPT ![f] = shared_nrefs[f] + 1]
        /\ UNCHANGED <<efc_nrefs, lru, tag, orphaned, found, calls>>
    BY <1>1 DEF open_file
  <2> QED BY <2>1, OpenReach
<1>2. ASSUME NEW f \in Files, NEW p \in Files, efc_open_uncached(p, f) PROVE ReachInv'
  <2>1. /\ Idle /\ loose' = [loose EXCEPT ![f] = loose[f] + 1] /\ user' = user
        /\ shared_nrefs' = [shared_nrefs EXCEPT ![f] = shared_nrefs[f] + 1]
        /\ UNCHANGED <<efc_nrefs, lru, tag, orphaned, found, calls>>
    BY <1>2 DEF efc_open_uncached
  <2> QED BY <2>1, OpenReach
<1>3. ASSUME NEW f \in Files, close_object(f) PROVE ReachInv'
  <2>1. /\ \/ loose' = [loose EXCEPT ![f] = loose[f] - 1] /\ orphaned' = orphaned
           \/ orphaned' = [orphaned EXCEPT ![f] = orphaned[f] - 1] /\ loose' = loose
        /\ Idle /\ calls' = <<Frame("H5F_try_close", f, <<>>, {}, 0)>> /\ 0 \in Nat
        /\ UNCHANGED <<shared_nrefs, efc_nrefs, lru, tag, user, found>>
    BY <1>3 DEF close_object, Begin, At
  <2>2. loose \in [Files -> Nat] /\ orphaned \in [Files -> Nat]
    BY <1>0 DEF EfcTypeOK
  <2>3. \A g \in Files : g # f => /\ user'[g] = user[g] /\ loose'[g] = loose[g]
                                  /\ orphaned'[g] = orphaned[g]
    BY <2>1, <2>2
  <2> QED BY <2>1, <2>3, CloseReach
<1>4. ASSUME NEW f \in Files, NEW objs \in 0..1, H5Fclose(f, objs) PROVE ReachInv'
  <2>1. /\ user' = [user EXCEPT ![f] = user[f] - 1] /\ objs \in Nat
        /\ Idle /\ calls' = <<Frame("H5F_try_close", f, <<>>, {}, objs)>>
        /\ UNCHANGED <<shared_nrefs, efc_nrefs, lru, tag, loose, orphaned, found>>
    BY <1>4 DEF H5Fclose, Begin
  <2>2. user \in [Files -> Nat]
    BY <1>0 DEF EfcTypeOK
  <2>3. \A g \in Files : g # f => /\ user'[g] = user[g] /\ loose'[g] = loose[g]
                                  /\ orphaned'[g] = orphaned[g]
    BY <2>1, <2>2
  <2> QED BY <2>1, <2>3, CloseReach
<1>5. ASSUME NEW f \in Files, efc_release(f) PROVE ReachInv'
  BY <1>5, ClearReach
<1>6. ASSUME NEW f \in Files, NEW p \in Files, efc_open_hit(p, f) PROVE ReachInv'
  <2>1. /\ Idle /\ HasEFC(p)
        /\ UNCHANGED <<shared_nrefs, efc_nrefs, tag, TOPS, found, calls>>
    BY <1>6 DEF efc_open_hit
  <2>2. \A q \in Files : Parents(q)' = Parents(q) /\ (q # p => lru'[q] = lru[q])
    BY <1>6, HitInv
  <2> QED BY <2>1, <2>2, SameFilesReach
<1>7. ASSUME NEW f \in Files, NEW p \in Files, efc_open_new(p, f) \/ efc_open_evict(p, f)
      PROVE  ReachInv'
  BY <1>7, NewReach, EvictReach
<1>8. ASSUME NEW f \in Files, NEW i \in 1..Len(lru[f]),
             efc_close(f, i) \/ open_object(f, i) \/ close_entry_object(f, i)
      PROVE  ReachInv'
  <2>1. PICK ent \in EntryRecord : ent = lru[f][i]
    BY <1>0, EntriesFacts
  <2>2. /\ [ent EXCEPT !.nopen = 0] \in EntryRecord /\ [ent EXCEPT !.nopen = 0].file = ent.file
        /\ [ent EXCEPT !.objs = 1] \in EntryRecord /\ [ent EXCEPT !.objs = 1].file = ent.file
        /\ [ent EXCEPT !.objs = 0] \in EntryRecord /\ [ent EXCEPT !.objs = 0].file = ent.file
    BY DEF EntryRecord
  <2>3. PICK e \in EntryRecord : e.file = lru[f][i].file /\ ChangeEntry(f, i, e)
    BY <1>8, <2>1, <2>2 DEF efc_close, open_object, close_entry_object
  <2>4. Idle /\ UNCHANGED <<shared_nrefs, efc_nrefs, tag, TOPS, found, calls>>
    BY <2>3 DEF ChangeEntry
  <2>5. /\ lru[f] # <<>>
        /\ \A q \in Files : Parents(q)' = Parents(q) /\ (q # f => lru'[q] = lru[q])
    BY <2>3, ChangeEntryInv
  <2>6. HasEFC(f)
    BY <1>0, <2>5 DEF NoCacheEmpty
  <2> QED BY <2>4, <2>5, <2>6, SameFilesReach
<1> QED BY <1>1, <1>2, <1>3, <1>4, <1>5, <1>6, <1>7, <1>8 DEF EfcNext

\* The library starts with no file open.
LEMMA InitReach == EfcInit => ReachInv
<1> SUFFICES ASSUME EfcInit PROVE ReachInv
  OBVIOUS
<1>1. Idle /\ 1..Len(calls) = {} /\ \A i : ~Run(i) /\ ~Releasing(i)
  BY DEF EfcInit, Idle, Run, Releasing
<1>2. NoGarbage /\ NoCacheEmpty
  BY <1>1 DEF EfcInit, NoGarbage, NoCacheEmpty
<1>3. DestRight /\ OneRun /\ TagWalks /\ TagInPass
  BY <1>1 DEF DestRight, Running, OneRun, TagWalks, TagInPass
<1>4. Pass1Right /\ Pass2Right /\ CleanupRight /\ DestInRun
  BY <1>1 DEF Pass1Right, Pass2Right, CleanupRight, DestInRun
<1>5. RunTags /\ TagsTell
  BY DEF EfcInit, RunTags, TagsTell, TAG_DEFAULT, TAG_LOCK
<1> QED BY <1>2, <1>3, <1>4, <1>5 DEF ReachInv

\* Every step keeps what the passes rely on.
LEMMA NextReach ==
  EfcInv /\ EfcInv' /\ NoObjects' /\ ReachInv /\ [EfcNext]_efc_vars => ReachInv'
<1> SUFFICES ASSUME EfcInv, EfcInv', NoObjects', ReachInv, [EfcNext]_efc_vars PROVE ReachInv'
  OBVIOUS
<1>1. CASE Step
  BY <1>1, StepReach
<1>2. CASE EfcNext /\ ~Step
  BY <1>2, ClientReach
<1>3. CASE UNCHANGED efc_vars
  BY <1>3, StutterReach
<1> QED BY <1>1, <1>2, <1>3

\* What the three passes rely on holds throughout, as long as no object is open
\* by way of an entry.
THEOREM ReachInvariant == EfcSpec /\ []NoObjects => []ReachInv
BY InitReach, NextReach, EfcInvariant, PTL DEF EfcSpec

\* Between two calls a file that no file in use reaches is closed.
LEMMA ReachNoneLeft == EfcInv /\ ReachInv => NoFileLeftOpen
<1> SUFFICES ASSUME EfcInv, ReachInv, Idle, NEW f \in Files, f \notin Reachable
             PROVE  ~(shared_nrefs[f] > 0)
  BY DEF NoFileLeftOpen
<1>0. EfcTypeOK /\ NoGarbage
  BY DEF EfcInv, ReachInv
<1>1. PICK S \in SUBSET Files :
        /\ {g \in Files : Held(g)} \subseteq S /\ f \notin S
        /\ \A p \in S : \A e \in Entries(p) : e.file \in S
  BY DEF Reachable
<1>2. Unused(Files \ S, Len(calls) + 1)
  <2> SUFFICES ASSUME NEW g \in Files \ S
               PROVE  ~Rooted(g, Len(calls) + 1) /\ Parents(g) \subseteq Files \ S
    BY DEF Unused
  <2>1. ~Held(g)
    BY <1>1
  <2>2. TopsClosing(g) = {}
    BY DEF TopsClosing, Idle
  <2>3. ~Rooted(g, Len(calls) + 1)
    BY <1>0, <2>1, <2>2, AllRooted DEF Held
  <2>4. Parents(g) \subseteq Files \ S
    BY <1>1 DEF Parents, Cached
  <2> QED BY <2>3, <2>4
<1>3. shared_nrefs[f] = 0
  BY <1>0, <1>1, <1>2 DEF NoGarbage
<1> QED BY <1>3

\* Caches keep no file open on their own, cycles or not (H5F__efc_try_close).
THEOREM NoFileLeftOpenHolds == EfcSpec /\ []NoObjects => []NoFileLeftOpen
BY ReachInvariant, EfcInvariant, ReachNoneLeft, PTL

\* Files that only each other's caches refer to are not reached from a file in
\* use.
LEMMA UnusedUnreachable ==
  ASSUME EfcInv, NoObjects, ~Idle, NEW W \in SUBSET Files, NEW r, Unused(W, r),
         NEW p \in W
  PROVE  p \notin Reachable
<1>0. ClientsHold
  BY DEF EfcInv
<1> DEFINE S == Files \ W
<1>1. ASSUME NEW g \in W PROVE ~Held(g)
  <2>1. ~Rooted(g, r) /\ Parents(g) \subseteq W
    BY DEF Unused
  <2>2. ASSUME NEW q \in Files, NEW e \in Entries(q), e.file = g PROVE ~(e.nopen > 0)
    <3>1. q \in W
      BY <2>1, <2>2 DEF Parents, Cached
    <3>2. ~Rooted(q, r)
      BY <3>1 DEF Unused
    <3> QED BY <3>2, <1>0, ClientRooted
  <2>3. \A q \in Files : \A e \in Entries(q) : ~(e.objs > 0)
    BY DEF NoObjects
  <2> QED BY <2>1, <2>2, <2>3 DEF Held, Rooted
<1>2. ASSUME NEW q \in S, NEW e \in Entries(q), e.file \in W PROVE FALSE
  <2>1. q \in Parents(e.file)
    BY <1>2 DEF Parents, Cached
  <2> QED BY <2>1, <1>2 DEF Unused
<1>3. \A q \in Files : \A e \in Entries(q) : e.file \in Files
  <2>1. EfcTypeOK
    BY DEF EfcInv
  <2> QED BY <2>1, EntriesFacts DEF EntryRecord
<1>4. /\ S \in SUBSET Files /\ {g \in Files : Held(g)} \subseteq S /\ p \notin S
      /\ \A q \in S : \A e \in Entries(q) : e.file \in S
  BY <1>1, <1>2, <1>3
<1> HIDE DEF S
<1> QED BY <1>4 DEF Reachable

\* What a step of a close may do to the caches and, once it ends, to the tags.
UnusedReleased ==
  NoObjects => /\ TagsReset'
               /\ ~Idle /\ calls[1].fn \in Closing =>
                    \A f \in Files : lru'[f] # lru[f] => f \notin Reachable

\* A close takes entries only from the caches of files that no file in use
\* reaches.
LEMMA ReleaseUnused ==
  EfcInv /\ ReachInv /\ TagsReset' /\ [EfcNext]_efc_vars => [UnusedReleased]_efc_vars
<1> SUFFICES ASSUME EfcInv, ReachInv, EfcNext, NoObjects, ~Idle, calls[1].fn \in Closing,
                    NEW p \in Files, lru'[p] # lru[p]
             PROVE  p \notin Reachable
  BY DEF UnusedReleased, efc_vars
<1>0. EfcTypeOK /\ Callers /\ CountsAgree /\ LastTop /\ CleanupRight /\ DestInRun
  BY DEF EfcInv, ReachInv
<1>n. PICK n \in Nat \ {0} : n = Len(calls) /\ n \in 1..Len(calls) /\ 1 \in 1..Len(calls)
                             /\ Top = calls[n]
  <2>1. Len(calls) \in Nat \ {0}
    BY <1>0, TopFacts DEF EfcTypeOK, Idle
  <2> QED BY <2>1 DEF Top
<1>1. Step
  <2>1. \A f \in Files : ~open_file(f) /\ ~close_object(f) /\ ~efc_release(f)
    BY DEF open_file, close_object, efc_release, Begin
  <2>2. \A f \in Files, objs \in 0..1 : ~H5Fclose(f, objs)
    BY DEF H5Fclose, Begin
  <2>3. \A p1, f \in Files : /\ ~efc_open_hit(p1, f) /\ ~efc_open_new(p1, f)
                             /\ ~efc_open_evict(p1, f) /\ ~efc_open_uncached(p1, f)
    BY DEF efc_open_hit, efc_open_new, efc_open_evict, efc_open_uncached, Begin
  <2>4. \A f, i, e : ~ChangeEntry(f, i, e)
    BY DEF ChangeEntry
  <2>5. \A f, i : ~efc_close(f, i) /\ ~open_object(f, i) /\ ~close_entry_object(f, i)
    BY <2>4 DEF efc_close, open_object, close_entry_object
  <2> QED BY <2>1, <2>2, <2>3, <2>5 DEF EfcNext
<1>2. ~efc_open_evicted
  <2>1. Top.fn = "efc_open" => n = 1
    BY <1>0, <1>n DEF Callers, Caller
  <2> QED BY <2>1, <1>n DEF efc_open_evicted, Running, Closing
<1>3. release_entry
  <2>1. dest_top \/ dest_shared \/ try_close_objects => lru' = lru
    BY DEF dest_top, dest_shared, try_close_objects
  <2> QED BY <1>1, <1>2, <2>1, QuietFacts
<1>4. p = Top.file /\ Releasing(n) /\ calls[n].file = p
  <2>1. \A q \in Files : q # Top.file => lru'[q] = lru[q]
    BY <1>3, ReleaseEntryFacts
  <2> QED BY <1>3, <1>n, <2>1 DEF release_entry, Running, Releasing
<1>5. /\ n > 1 /\ n - 1 \in 1..Len(calls) /\ calls[n - 1].file = p
      /\ calls[n - 1].fn \in {"cleanup", "H5F__dest", "efc_destroy"}
  <2>1. calls[n].fn = "efc_release_real"
    BY <1>4 DEF Releasing
  <2>2. Caller(n)
    BY <1>0, <1>n DEF Callers
  <2>3. n # 1
    BY <2>1, <1>n DEF Closing
  <2> QED BY <1>4, <1>n, <2>1, <2>2, <2>3 DEF Caller
<1>6. CASE calls[n - 1].fn = "efc_destroy"
  <2>1. shared_nrefs[p] <= 1
    BY <1>0, <1>5, <1>6 DEF LastTop
  <2>2. n - 1 \in TopsClosing(p) /\ n - 1 \in Nat /\ n - 1 <= n - 1
    BY <1>5, <1>6, <1>n DEF TopsClosing, Closing
  <2>3. ~Rooted(p, n - 1) /\ Parents(p) = {}
    BY <1>0, <2>1, <2>2, LastUnused
  <2>4. Unused({p}, n - 1)
    BY <2>3 DEF Unused
  <2> QED BY <2>4, UnusedUnreachable
<1>7. CASE calls[n - 1].fn # "efc_destroy"
  <2>1. PICK r \in 1..n - 1 : calls[r].fn = "cleanup"
    <3>1. CASE calls[n - 1].fn = "cleanup"
      BY <1>5, <1>n, <3>1
    <3>2. CASE calls[n - 1].fn = "H5F__dest"
      BY <1>0, <1>4, <1>5, <1>n, <3>2 DEF DestInRun
    <3> QED BY <1>5, <1>7, <3>1, <3>2
  <2>2. r \in 1..Len(calls) /\ n \in r + 1..Len(calls)
    BY <1>n
  <2>3. PICK V, W \in SUBSET Files : CleanupOK(r, V, W)
    BY <1>0, <2>1, <2>2 DEF CleanupRight
  <2>4. Unused(W, r)
    BY <2>3 DEF CleanupOK
  <2>5. \A i \in r + 1..Len(calls) : \A g \in Files : calls[i].file = g =>
          IF Releasing(i) THEN g \in W ELSE g \in V \/ ~HasEFC(g) \/ Rooted(g, r)
    BY <2>3 DEF CleanupOK
  <2>6. p \in W
    BY <1>4, <2>2, <2>5
  <2> QED BY <2>4, <2>6, UnusedUnreachable
<1> QED BY <1>6, <1>7

\* No tag and no list of the passes is left over.
LEMMA ReachTags == ReachInv => TagsReset
BY IdleTags DEF ReachInv, TagsReset

\* A close empties the caches only of files that nobody uses, and cleans up its
\* tags (H5F__efc_try_close, H5F__efc_release_real).
THEOREM OnlyUnusedReleasedHolds == EfcSpec /\ []NoObjects => OnlyUnusedReleased
BY ReachInvariant, EfcInvariant, ReachTags, ReleaseUnused, PTL
   DEF EfcSpec, OnlyUnusedReleased, UnusedReleased
=============================================================================
