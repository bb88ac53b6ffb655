----------------------------- MODULE OpenProtocol -----------------------------
(***************************************************************************)
(* How processes that share a file keep out of each other's way: the       *)
(* advisory lock on the file and the status flags in its superblock, from  *)
(* H5F_open, H5F__dest and H5F__start_swmr_write (src/src/H5Fint.c).       *)
(*                                                                         *)
(* The lock is gone with the process or the last descriptor; the flags are *)
(* in the file and outlive a crash.  A lock is asked for without waiting.  *)
(* All processes use file locking.                                         *)
(***************************************************************************)
EXTENDS Integers, FiniteSets

CONSTANTS Procs,
          Versions,  \* of superblocks; 2 stands for the older ones as well
          StartsOn,  \* versions of the files H5Fstart_swmr_write is called on
          MaxRefs    \* bound on the times a process has the file open

ASSUME VersionsAssumption == Versions \subseteq {2, 3} /\ StartsOn \subseteq Versions
ASSUME RefsAssumption     == MaxRefs \in Nat \ {0}

VARIABLES lock,     \* the lock each process holds: "none", "sh" or "ex"
          disk,     \* the superblock in the file: version (0: the file is
                    \*   empty) and status_flags
          pc,       \* where each process is
          mode,     \* shared->flags: "W", "R", with SWMR: "SW", "SR"
          nrefs,    \* shared->nrefs
          crashed   \* auxiliary: the flags in the file are those of a process
                    \*   that is dead

vars == <<lock, disk, pc, mode, nrefs, crashed>>

Modes   == {"W", "SW", "R", "SR"}
Writing == {"W", "SW"}              \* H5F_ACC_RDWR

StatusFlags(m) == IF m = "SW" THEN {"WRITE_ACCESS", "SWMR_WRITE_ACCESS"}
                              ELSE {"WRITE_ACCESS"}

PCs == {"closed",
        "truncated",                \* H5F_open: the file was opened with O_TRUNC
        "locked", "clearing",       \*   the lock was taken (by h5clear)
        "checked",                  \*   the flags in memory are set,
        "flushed",                  \*   those in the file as well
        "open",
        "unlocked", "relocked",     \* H5F__start_swmr_write
        "marked",                   \*   the flags in the file are set
        "cleared"}                  \* H5F__dest: the flags are cleared

\* The types of the state.
TypeOK == /\ lock \in [Procs -> {"none", "sh", "ex"}]
          /\ disk \in [version : {0} \cup Versions,
                       flags : SUBSET {"WRITE_ACCESS", "SWMR_WRITE_ACCESS"}]
          /\ pc \in [Procs -> PCs]
          /\ mode \in [Procs -> Modes]
          /\ nrefs \in [Procs -> 0..MaxRefs]
          /\ crashed \in BOOLEAN

Init == /\ lock = [p \in Procs |-> "none"]
        /\ disk \in [version : Versions, flags : {{}}]
        /\ pc = [p \in Procs |-> "closed"]
        /\ mode = [p \in Procs |-> "R"]
        /\ nrefs = [p \in Procs |-> 0]
        /\ crashed = FALSE

Goto(p, to)  == pc' = [pc EXCEPT ![p] = to]
Lock(p, k)   == lock' = [lock EXCEPT ![p] = k]
Mode(p, m)   == mode' = [mode EXCEPT ![p] = m]
Refs(p, n)   == nrefs' = [nrefs EXCEPT ![p] = n]

\* The processes whose flags are in the file.
Owns(p) == mode[p] \in Writing /\ pc[p] \in {"flushed", "open", "unlocked", "relocked", "marked"}
-----------------------------------------------------------------------------
(* The lock: flock(LOCK_NB) of H5FD__sec2_lock. *)

Kind(m) == IF m \in Writing THEN "ex" ELSE "sh"

CanLock(p, k) == \A q \in Procs \ {p} : lock[q] = "none" \/ (k = "sh" /\ lock[q] = "sh")

\* The last descriptor is closed, the lock goes with it.
Closed(p) == Goto(p, "closed") /\ Lock(p, "none") /\ Refs(p, 0)
-----------------------------------------------------------------------------
(* H5F_open by a process that does not have the file open. *)

\* H5Fcreate: the tentative open succeeded, the file is opened again and
\* truncated.  The lock comes later: that nobody else uses the file is left
\* to the application.
truncate(p, m) ==
  /\ m \in Writing
  /\ \A q \in Procs : pc[q] = "closed"
  /\ disk' = [version |-> 0, flags |-> {}]
  /\ crashed' = FALSE
  /\ Goto(p, "truncated") /\ Mode(p, m)
  /\ UNCHANGED <<lock, nrefs>>

\* A mutant: every open asks for the shared lock.
lock_file_shared(p, m) ==
  /\ pc[p] = "closed" \/ (pc[p] = "truncated" /\ m = mode[p])
  /\ CanLock(p, "sh")
  /\ Lock(p, "sh") /\ Goto(p, "locked") /\ Mode(p, m)
  /\ UNCHANGED <<disk, nrefs, crashed>>

lock_file(p, m) ==
  /\ pc[p] = "closed" \/ (pc[p] = "truncated" /\ m = mode[p])
  /\ CanLock(p, Kind(m))
  /\ Lock(p, Kind(m)) /\ Goto(p, "locked") /\ Mode(p, m)
  /\ UNCHANGED <<disk, nrefs, crashed>>

\* h5clear opens the file with the property "clear_status_flags" set; it is
\* for files nobody is writing to.
lock_file_clear(p) ==
  /\ pc[p] = "closed"
  /\ \A q \in Procs : ~Owns(q)
  /\ CanLock(p, "ex")
  /\ Lock(p, "ex") /\ Goto(p, "clearing") /\ Mode(p, "W")
  /\ UNCHANGED <<disk, nrefs, crashed>>

\* The lock is refused, which closes the file.
lock_fail(p) ==
  /\ pc[p] = "truncated"
  /\ ~CanLock(p, Kind(mode[p]))
  /\ Closed(p)
  /\ UNCHANGED <<disk, mode, crashed>>

\* A mutant: a reader looks at the flags, a writer does not.
Consistent_reader(m) ==
  disk.version = 3 => CASE m \in Writing -> TRUE
                        [] m = "R"  -> disk.flags = {}
                        [] m = "SR" -> "WRITE_ACCESS" \in disk.flags <=> "SWMR_WRITE_ACCESS" \in disk.flags

\* The check of the status flags.
Consistent(m) ==
  disk.version = 3 => CASE m \in Writing \cup {"R"} -> disk.flags = {}
                        [] m = "SR" -> "WRITE_ACCESS" \in disk.flags <=> "SWMR_WRITE_ACCESS" \in disk.flags

\* H5F__super_read: no superblock in an empty file; SWMR takes version 3.
\* A writer makes the superblock of an empty file (H5F__super_init).
Readable(m) == IF disk.version = 0 THEN m \in Writing
                                   ELSE m = "SW" => disk.version = 3

Passes(p) == Readable(mode[p]) /\ (pc[p] = "clearing" \/ Consistent(mode[p]))

check_flags(p) ==
  /\ pc[p] \in {"locked", "clearing"}
  /\ Passes(p)
  /\ IF mode[p] \in Writing THEN Goto(p, "checked") /\ UNCHANGED nrefs
                            ELSE Goto(p, "open") /\ Refs(p, 1)
  /\ UNCHANGED <<lock, disk, mode, crashed>>

check_fail(p) ==
  /\ pc[p] \in {"locked", "clearing"}
  /\ ~Passes(p)
  /\ Closed(p)
  /\ UNCHANGED <<disk, mode, crashed>>

\* The superblock is flushed with its flags; H5F_open is complete, but for
\* the lock when the file is open for SWMR writing.
flush_superblock(p) ==
  /\ pc[p] = "checked"
  /\ \E v \in Versions :
       /\ disk.version # 0 => v = disk.version
       /\ mode[p] = "SW" => v = 3
       /\ disk' = [version |-> v, flags |-> StatusFlags(mode[p])]
  /\ crashed' = FALSE
  /\ IF mode[p] = "SW" THEN Goto(p, "flushed") /\ UNCHANGED nrefs
                       ELSE Goto(p, "open") /\ Refs(p, 1)
  /\ UNCHANGED <<lock, mode>>

unlock_swmr(p) ==
  /\ pc[p] = "flushed"
  /\ Lock(p, "none") /\ Goto(p, "open") /\ Refs(p, 1)
  /\ UNCHANGED <<disk, mode, crashed>>
-----------------------------------------------------------------------------
(* H5F_open of a file the process has open: the flags must suit. *)
Suits(new, first) ==
  /\ new \in Writing => first \in Writing
  /\ new = "SW" => first = "SW"
  /\ new = "SR" => first \in {"SW", "SR", "W"}

reopen(p, m) ==
  /\ pc[p] = "open"
  /\ nrefs[p] < MaxRefs
  /\ Suits(m, mode[p])
  /\ Refs(p, nrefs[p] + 1)
  /\ UNCHANGED <<lock, disk, pc, mode, crashed>>
-----------------------------------------------------------------------------
(* H5F__start_swmr_write. *)

\* Refused: the version is too old, the file is in SWMR mode already, or its
\* objects do not allow it.  The lock is gone all the same.
start_swmr_refused(p) ==
  /\ pc[p] = "open" /\ mode[p] \in Writing
  /\ disk.version \in StartsOn
  /\ Lock(p, "none")
  /\ UNCHANGED <<disk, pc, mode, nrefs, crashed>>

start_swmr_unlock(p) ==
  /\ pc[p] = "open" /\ mode[p] = "W"
  /\ disk.version = 3 /\ 3 \in StartsOn
  /\ Lock(p, "none") /\ Goto(p, "unlocked") /\ Mode(p, "SW")
  /\ UNCHANGED <<disk, nrefs, crashed>>

start_swmr_lock(p) ==
  /\ pc[p] = "unlocked"
  /\ CanLock(p, "ex")
  /\ Lock(p, "ex") /\ Goto(p, "relocked")
  /\ UNCHANGED <<disk, mode, nrefs, crashed>>

\* A mutant: after a failure the flags stay as they are.
start_swmr_fail_keep(p) ==
  /\ \/ pc[p] = "unlocked" /\ ~CanLock(p, "ex")
     \/ pc[p] \in {"relocked", "marked"}
  /\ Lock(p, "none") /\ Goto(p, "open") /\ Mode(p, "W")
  /\ UNCHANGED <<disk, nrefs, crashed>>

\* The lock is refused, or a flush or the refresh of an object fails.
start_swmr_fail(p) ==
  /\ \/ pc[p] = "unlocked" /\ ~CanLock(p, "ex")
     \/ pc[p] \in {"relocked", "marked"}
  /\ disk' = [disk EXCEPT !.flags = {"WRITE_ACCESS"}]
  /\ Lock(p, "none") /\ Goto(p, "open") /\ Mode(p, "W")
  /\ UNCHANGED <<nrefs, crashed>>

start_swmr_mark(p) ==
  /\ pc[p] = "relocked"
  /\ disk' = [disk EXCEPT !.flags = StatusFlags("SW")]
  /\ Goto(p, "marked")
  /\ UNCHANGED <<lock, mode, nrefs, crashed>>

start_swmr_done(p) ==
  /\ pc[p] = "marked"
  /\ Lock(p, "none") /\ Goto(p, "open")
  /\ UNCHANGED <<disk, mode, nrefs, crashed>>
-----------------------------------------------------------------------------
(* H5F__dest, and the end of a process. *)

close_ref(p) ==
  /\ pc[p] = "open" /\ nrefs[p] > 1
  /\ Refs(p, nrefs[p] - 1)
  /\ UNCHANGED <<lock, disk, pc, mode, crashed>>

\* A mutant: the flag of SWMR writing is not cleared.
clear_flags_write(p) ==
  /\ pc[p] = "open" /\ nrefs[p] = 1 /\ mode[p] \in Writing
  /\ disk' = [disk EXCEPT !.flags = @ \ {"WRITE_ACCESS"}]
  /\ Goto(p, "cleared")
  /\ UNCHANGED <<lock, mode, nrefs, crashed>>

\* The flags are cleared and the superblock is flushed, last of all.
clear_flags(p) ==
  /\ pc[p] = "open" /\ nrefs[p] = 1 /\ mode[p] \in Writing
  /\ disk' = [disk EXCEPT !.flags = {}]
  /\ Goto(p, "cleared")
  /\ UNCHANGED <<lock, mode, nrefs, crashed>>

close_file(p) ==
  /\ \/ pc[p] = "cleared"
     \/ pc[p] = "open" /\ nrefs[p] = 1 /\ mode[p] \notin Writing
  /\ Closed(p)
  /\ UNCHANGED <<disk, mode, crashed>>

crash(p) ==
  /\ pc[p] # "closed"
  /\ Closed(p)
  /\ crashed' = (crashed \/ Owns(p))
  /\ UNCHANGED <<disk, mode>>

Next == \E p \in Procs :
          \/ \E m \in Modes : truncate(p, m) \/ lock_file(p, m) \/ reopen(p, m)
          \/ lock_file_clear(p) \/ lock_fail(p)
          \/ check_flags(p) \/ check_fail(p) \/ flush_superblock(p) \/ unlock_swmr(p)
          \/ start_swmr_refused(p) \/ start_swmr_unlock(p) \/ start_swmr_lock(p)
          \/ start_swmr_fail(p) \/ start_swmr_mark(p) \/ start_swmr_done(p)
          \/ close_ref(p) \/ clear_flags(p) \/ close_file(p)
          \/ crash(p)

Spec == Init /\ [][Next]_vars
-----------------------------------------------------------------------------
\* The table "CONCURRENT ACCESS" in the comment of H5F_open: of two processes
\* that have the file open neither writes, or one writes in SWMR mode and the
\* other is a SWMR reader.
Compatible(m, n) == \/ {m, n} \subseteq {"R", "SR"}
                    \/ {m, n} = {"SW", "SR"}

ConcurrentAccess ==
  \A p, q \in Procs : p # q /\ pc[p] = "open" /\ pc[q] = "open"
                        => Compatible(mode[p], mode[q])

\* The order matters in that table: the SWMR writer comes first.  Nobody
\* starts to write while another process has the file open.
WriterFirst ==
  [][\A p, q \in Procs :
       p # q /\ pc[p] \in {"open", "unlocked"} /\ pc[q] # "open" /\ pc'[q] = "open"
         => mode'[q] \notin Writing]_vars

\* The flags in a file tell of a process that has it open for writing, or of
\* one that died with it open: no other open, close or failure leaves flags
\* behind, which would lock everybody out.
FlagsHaveOwner == disk.flags # {} => crashed \/ \E p \in Procs : Owns(p)

\* A file whose writer died is left alone until it is cleared: it is open
\* to SWMR readers alone.
CrashedLeftAlone ==
  crashed /\ disk.version = 3 =>
    \A p \in Procs : pc[p] \in {"open", "flushed", "unlocked", "relocked", "marked"} => mode[p] = "SR"
=============================================================================
