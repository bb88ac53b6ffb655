-------------------------- MODULE ExternalFileCache --------------------------
(***************************************************************************)
(* The external file caches of the library (src/src/H5Fefc.c) and the part *)
(* of the closing of files they take (H5F_try_close and H5F__dest of       *)
(* H5Fint.c).                                                              *)
(*                                                                         *)
(* An open file (H5F_shared_t) counts the top structures (H5F_t) that      *)
(* refer to it.  A top belongs to the application, or to an entry of the   *)
(* external file cache of another file, or of the file itself; the caches  *)
(* count the latter as well.  Caches that hold each other's files in a     *)
(* cycle keep them open, so that the close of a top looks for the files    *)
(* nobody uses by three passes over the caches, and each file it closes    *)
(* closes the tops of its own cache.                                       *)
(*                                                                         *)
(* The API lock is held throughout, so that calls do not interleave; but   *)
(* the functions call each other recursively and change the lists their    *)
(* callers are walking.  So a call is a sequence of steps, one for each    *)
(* turn of a loop, over an explicit stack of calls.                        *)
(***************************************************************************)
EXTENDS Integers, FiniteSets, Sequences, SequencesExt, FiniteSetsExt

CONSTANTS Files,       \* the files; each is linked to by one name
          max_nfiles,  \* max_nfiles[f]: the entries of f's cache; 0: no cache
          MaxUser,     \* bound on the file identifiers of a file
          MaxOpened,   \* bound on the entries clients have open at once
          MaxObjects   \* bound on the tops that objects keep open

ASSUME FilesAssumption  == IsFiniteSet(Files) /\ max_nfiles \in [Files -> Nat]
ASSUME BoundsAssumption == MaxUser \in Nat /\ MaxOpened \in Nat /\ MaxObjects \in Nat

VARIABLES
  shared_nrefs, \* shared->nrefs of each file; 0: the file is not open
  efc_nrefs,    \* efc->nrefs, the entries of all caches for this file
  lru,          \* the entries of the file's cache, most recently used first
  tag,          \* efc->tag
  user,         \* auxiliary: tops that a file identifier keeps open
  loose,        \* auxiliary: tops that objects keep open after the identifier is
                \*   closed, or that a traversal has opened outside the caches
  orphaned,     \* auxiliary: tops that objects keep open after their entry is
                \*   removed
  found,        \* the files linked by tmp_next, in whatever order: those that
                \*   pass 1 has found, then the uncloseable ones among them
  calls         \* the stack of calls, the running one last

efc_vars == <<shared_nrefs, efc_nrefs, lru, tag, user, loose, orphaned, found,
              calls>>

TAG_DEFAULT   == -1
TAG_LOCK      == -2
TAG_CLOSE     == -3
TAG_DONTCLOSE == -4

\* An entry refers to a file by a top of its own; nopen counts the clients
\* of the entry, objs the objects that are open by way of its top.
EntryRecord == [file : Files, nopen : Nat, objs : Nat]
Entry(f) == [file |-> f, nopen |-> 1, objs |-> 0]

\* Where a call that closes a top stands: it begins, passes 1 and 2 are
\* under way, the release of pass 3 is, the top is about to be destroyed,
\* the cache of a file that goes is being released ...
Closing == {"H5F_try_close", "pass1", "pass2", "cleanup", "H5F__dest", "efc_destroy"}

\* ... and the other calls.
Walking == {"tag1", "tag2", "efc_release_real", "efc_open"}

\* A call is for one file, and goes through a list of entries or over a set of
\* files; objs is for the objects open by way of a top to be closed.
Frame(fn, f, entries, files, objs) ==
  [fn |-> fn, file |-> f, entries |-> entries, files |-> files, objs |-> objs]
At(fn, f) == Frame(fn, f, <<>>, {}, 0)
Over(fn, f, entries) == Frame(fn, f, entries, {}, 0)

FrameRecord == [fn : Closing \cup Walking, file : Files, entries : Seq(EntryRecord),
                files : SUBSET Files, objs : Nat]

\* The state keeps its types; in particular no count falls below zero.
EfcTypeOK ==
  /\ shared_nrefs \in [Files -> Nat]
  /\ efc_nrefs \in [Files -> Nat]
  /\ lru \in [Files -> Seq(EntryRecord)]
  /\ tag \in [Files -> Int]
  /\ user \in [Files -> Nat]
  /\ loose \in [Files -> Nat]
  /\ orphaned \in [Files -> Nat]
  /\ found \subseteq Files
  /\ calls \in Seq(FrameRecord)

EfcInit == /\ shared_nrefs = [f \in Files |-> 0]
           /\ efc_nrefs    = [f \in Files |-> 0]
           /\ lru          = [f \in Files |-> <<>>]
           /\ tag          = [f \in Files |-> TAG_DEFAULT]
           /\ user         = [f \in Files |-> 0]
           /\ loose        = [f \in Files |-> 0]
           /\ orphaned     = [f \in Files |-> 0]
           /\ found        = {}
           /\ calls        = <<>>

HasEFC(f) == max_nfiles[f] > 0

NoOutsideRefs(f) == shared_nrefs[f] = efc_nrefs[f]
-----------------------------------------------------------------------------
(***************************************************************************)
(* Calls and returns.                                                      *)
(***************************************************************************)
Idle == calls = <<>>
Top == calls[Len(calls)]
Running(fn) == ~Idle /\ Top.fn = fn

Return == calls' = Front(calls)

\* The running call goes on as frame; it does so once callee returns.
Continue(frame) == calls' = [calls EXCEPT ![Len(calls)] = frame]
Call(callee, frame) == calls' = Append([calls EXCEPT ![Len(calls)] = frame], callee)

\* The rest of the entries the running call goes through.
Later == [Top EXCEPT !.entries = Tail(@)]

\* H5F__efc_release_real locks the cache and walks down its list.
Release(f, frame) ==
  /\ tag' = [tag EXCEPT ![f] = TAG_LOCK]
  /\ Call(Over("efc_release_real", f, lru[f]), frame)

\* The temporary fields of some files return to their default.
ResetTags(files) ==
  tag' = [f \in Files |-> IF f \in files THEN TAG_DEFAULT ELSE tag[f]]

TOPS == <<user, loose, orphaned>>
UNCHANGED_COUNTS == UNCHANGED <<shared_nrefs, efc_nrefs, lru, TOPS>>
-----------------------------------------------------------------------------
(***************************************************************************)
(* H5F_try_close, with the close degree "weak", and H5F__efc_try_close     *)
(***************************************************************************)

\* The objects that are open by way of the top keep it open.
try_close_objects ==
  /\ Running("H5F_try_close") /\ Top.objs > 0
  /\ IF Len(calls) = 1
     THEN loose' = [loose EXCEPT ![Top.file] = @ + 1] /\ UNCHANGED orphaned
     ELSE orphaned' = [orphaned EXCEPT ![Top.file] = @ + 1] /\ UNCHANGED loose
  /\ Return
  /\ UNCHANGED <<shared_nrefs, efc_nrefs, lru, tag, user, found>>

EntersEFC(f) == HasEFC(f) /\ shared_nrefs[f] > 1

\* Mutant: references from outside the caches are not looked at.
NothingToDo_refs(f) == tag[f] = TAG_DONTCLOSE \/ lru[f] = <<>>

NothingToDo(f) ==
  \/ shared_nrefs[f] # efc_nrefs[f] + 1
  \/ tag[f] = TAG_DONTCLOSE
  \/ lru[f] = <<>>

\* No cache, another reference from outside the caches, a file found
\* uncloseable, or an empty cache: nothing but the top goes.
try_close_top ==
  LET f == Top.file IN
  /\ Running("H5F_try_close") /\ Top.objs = 0
  /\ EntersEFC(f) => tag[f] # TAG_CLOSE /\ NothingToDo(f)
  /\ Continue(At("H5F__dest", f))
  /\ UNCHANGED <<tag, found>> /\ UNCHANGED_COUNTS

\* Pass 3, re-entered for a file that the passes found closeable.
try_close_reentered ==
  LET f == Top.file IN
  /\ Running("H5F_try_close") /\ Top.objs = 0
  /\ EntersEFC(f) /\ tag[f] = TAG_CLOSE
  /\ Release(f, At("H5F__dest", f))
  /\ UNCHANGED found /\ UNCHANGED_COUNTS

\* A new run of the passes, with f as root.
try_close_root ==
  LET f == Top.file IN
  /\ Running("H5F_try_close") /\ Top.objs = 0
  /\ EntersEFC(f) /\ tag[f] # TAG_CLOSE /\ ~NothingToDo(f)
  /\ tag' = [tag EXCEPT ![f] = efc_nrefs[f]]
  /\ found' = {f}
  /\ Call(Over("tag1", f, lru[f]), At("pass1", f))
  /\ UNCHANGED_COUNTS

(***************************************************************************)
(* Pass 1: the references each file would have left if every file that can *)
(* be reached were closed, counted down in its tag.                        *)
(***************************************************************************)
tag1_return ==
  /\ Running("tag1") /\ Top.entries = <<>>
  /\ Return
  /\ UNCHANGED <<tag, found>> /\ UNCHANGED_COUNTS

\* Mutant: a file that was counted before is not counted down again.
tag1_entry_once ==
  LET ent == Head(Top.entries)
      esf == ent.file
  IN /\ Running("tag1") /\ Top.entries # <<>>
     /\ IF /\ HasEFC(esf) /\ tag[esf] <= 0
           /\ NoOutsideRefs(esf) /\ tag[esf] # TAG_LOCK /\ ent.nopen = 0
        THEN /\ IF shared_nrefs[esf] > 1
                THEN /\ tag' = [tag EXCEPT ![esf] = shared_nrefs[esf] - 1]
                     /\ found' = found \cup {esf}
                ELSE UNCHANGED <<tag, found>>
             /\ Call(Over("tag1", esf, lru[esf]), Later)
        ELSE Continue(Later) /\ UNCHANGED <<tag, found>>
     /\ UNCHANGED_COUNTS

tag1_entry ==
  LET ent == Head(Top.entries)
      esf == ent.file
  IN /\ Running("tag1") /\ Top.entries # <<>>
     /\ IF HasEFC(esf) /\ tag[esf] > 0
        THEN /\ tag' = [tag EXCEPT ![esf] = @ - 1]
             /\ Continue(Later) /\ UNCHANGED found
        ELSE IF /\ HasEFC(esf)
                /\ NoOutsideRefs(esf) /\ tag[esf] # TAG_LOCK /\ ent.nopen = 0
        THEN /\ IF shared_nrefs[esf] > 1
                THEN /\ tag' = [tag EXCEPT ![esf] = shared_nrefs[esf] - 1]
                     /\ found' = found \cup {esf}
                ELSE UNCHANGED <<tag, found>>
             /\ Call(Over("tag1", esf, lru[esf]), Later)
        ELSE Continue(Later) /\ UNCHANGED <<tag, found>>
     /\ UNCHANGED_COUNTS

\* The root keeps a reference: nothing can be closed.
pass1_keep ==
  LET f == Top.file IN
  /\ Running("pass1") /\ tag[f] > 0
  /\ ResetTags(found)
  /\ found' = {}
  /\ Continue(At("H5F__dest", f))
  /\ UNCHANGED_COUNTS

\* The files found are marked by whether they keep a reference.
pass1_mark ==
  LET uncloseable == {g \in found : tag[g] > 0} IN
  /\ Running("pass1") /\ tag[Top.file] <= 0
  /\ tag' = [g \in Files |-> IF g \notin found THEN tag[g]
                             ELSE IF tag[g] > 0 THEN TAG_DONTCLOSE ELSE TAG_CLOSE]
  /\ found' = uncloseable
  /\ Continue(Frame("pass2", Top.file, <<>>, uncloseable, 0))
  /\ UNCHANGED_COUNTS

(***************************************************************************)
(* Pass 2: the files that an uncloseable file reaches are uncloseable too. *)
(***************************************************************************)
\* Mutant: pass 2 looks at none of the files.
pass2_file_skip ==
  /\ Running("pass2")
  /\ \E g \in Top.files : Continue([Top EXCEPT !.files = @ \ {g}])
  /\ UNCHANGED <<tag, found>> /\ UNCHANGED_COUNTS

pass2_file ==
  /\ Running("pass2")
  /\ \E g \in Top.files :
       Call(Over("tag2", g, lru[g]), [Top EXCEPT !.files = @ \ {g}])
  /\ UNCHANGED <<tag, found>> /\ UNCHANGED_COUNTS

tag2_return ==
  /\ Running("tag2") /\ Top.entries = <<>>
  /\ Return
  /\ UNCHANGED <<tag, found>> /\ UNCHANGED_COUNTS

tag2_entry ==
  LET ent == Head(Top.entries)
      esf == ent.file
  IN /\ Running("tag2") /\ Top.entries # <<>>
     /\ IF /\ HasEFC(esf)
           /\ \/ tag[esf] = TAG_CLOSE
              \/ tag[esf] = TAG_DEFAULT /\ NoOutsideRefs(esf) /\ ent.nopen = 0
        THEN /\ IF tag[esf] = TAG_CLOSE
                THEN /\ tag' = [tag EXCEPT ![esf] = TAG_DONTCLOSE]
                     /\ found' = found \cup {esf}
                ELSE UNCHANGED <<tag, found>>
             /\ Call(Over("tag2", esf, lru[esf]), Later)
        ELSE Continue(Later) /\ UNCHANGED <<tag, found>>
     /\ UNCHANGED_COUNTS

\* If the root is still to be closed, its release starts pass 3; the files
\* found uncloseable are cleaned up afterwards.
pass2_done ==
  LET f == Top.file
      cleanup == Frame("cleanup", f, <<>>, found, 0)
  IN /\ Running("pass2") /\ Top.files = {}
     /\ IF tag[f] = TAG_CLOSE THEN Release(f, cleanup)
                              ELSE Continue(cleanup) /\ UNCHANGED tag
     /\ found' = {}
     /\ UNCHANGED_COUNTS

try_close_cleanup ==
  /\ Running("cleanup")
  /\ ResetTags(Top.files)
  /\ Continue(At("H5F__dest", Top.file))
  /\ UNCHANGED found /\ UNCHANGED_COUNTS
-----------------------------------------------------------------------------
(***************************************************************************)
(* H5F__efc_release_real, and H5F__efc_remove_ent, which closes the top of *)
(* the entry it takes from the list                                        *)
(***************************************************************************)
Position(p, f) == CHOOSE i \in 1..Len(lru[p]) : lru[p][i].file = f

\* Mutant: the entry goes without its count.
remove_ent_keep(p, f) ==
  /\ lru' = [lru EXCEPT ![p] = RemoveAt(@, Position(p, f))]
  /\ UNCHANGED efc_nrefs

remove_ent(p, f) ==
  /\ lru' = [lru EXCEPT ![p] = RemoveAt(@, Position(p, f))]
  /\ efc_nrefs' = [efc_nrefs EXCEPT ![f] = IF HasEFC(f) THEN @ - 1 ELSE @]

release_entry ==
  LET ent == Head(Top.entries) IN
  /\ Running("efc_release_real") /\ Top.entries # <<>>
  /\ ent.nopen = 0
  /\ remove_ent(Top.file, ent.file)
  /\ Call(Frame("H5F_try_close", ent.file, <<>>, {}, ent.objs), Later)
  /\ UNCHANGED <<shared_nrefs, tag, TOPS, found>>

release_skip ==
  /\ Running("efc_release_real") /\ Top.entries # <<>>
  /\ Head(Top.entries).nopen > 0
  /\ Continue(Later)
  /\ UNCHANGED <<tag, found>> /\ UNCHANGED_COUNTS

release_return ==
  /\ Running("efc_release_real") /\ Top.entries = <<>>
  /\ tag' = [tag EXCEPT ![Top.file] = TAG_DEFAULT]
  /\ Return
  /\ UNCHANGED found /\ UNCHANGED_COUNTS
-----------------------------------------------------------------------------
(***************************************************************************)
(* H5F__dest: the last top takes the shared file and its cache with it.    *)
(***************************************************************************)
dest_top ==
  /\ Running("H5F__dest") /\ shared_nrefs[Top.file] > 1
  /\ shared_nrefs' = [shared_nrefs EXCEPT ![Top.file] = @ - 1]
  /\ Return
  /\ UNCHANGED <<efc_nrefs, lru, tag, TOPS, found>>

dest_efc ==
  LET f == Top.file IN
  /\ Running("H5F__dest") /\ shared_nrefs[f] <= 1
  /\ lru[f] # <<>>
  /\ Release(f, At("efc_destroy", f))
  /\ UNCHANGED found /\ UNCHANGED_COUNTS

dest_shared ==
  LET f == Top.file IN
  /\ \/ Running("H5F__dest") /\ shared_nrefs[f] <= 1 /\ lru[f] = <<>>
     \/ Running("efc_destroy")
  /\ shared_nrefs' = [shared_nrefs EXCEPT ![f] = 0]
  /\ tag' = [tag EXCEPT ![f] = TAG_DEFAULT]
  /\ Return
  /\ UNCHANGED <<efc_nrefs, lru, TOPS, found>>
-----------------------------------------------------------------------------
(***************************************************************************)
(* The calls of the application and of the traversal of links.  A client   *)
(* that has an entry of a cache open keeps the file of the cache open      *)
(* meanwhile.                                                              *)
(***************************************************************************)
Entries(p) == ToSet(lru[p])
Opened(p) == {e \in Entries(p) : e.nopen > 0}
Cached(p, f) == \E e \in Entries(p) : e.file = f

\* The files that somebody keeps open, not the caches alone: by an identifier
\* or an object, or by an open entry.
Held(f) ==
  \/ user[f] > 0 \/ loose[f] > 0 \/ orphaned[f] > 0
  \/ \E p \in Files : \E e \in Entries(p) : e.file = f /\ (e.nopen > 0 \/ e.objs > 0)

\* When something is closed in the middle of a traversal, the files whose
\* entries are open keep an identifier.
ParentsHeld(u) == \A p \in Files : Opened(p) # {} => u[p] > 0

\* The tops that objects keep open, and the entries clients have open.
MayOpenObject ==
  MapThenSumSet(LAMBDA p : loose[p] + orphaned[p]
                             + Cardinality({e \in Entries(p) : e.objs > 0}), Files)
    < MaxObjects
MayOpenEntry ==
  MapThenSumSet(LAMBDA p : Cardinality(Opened(p)), Files) < MaxOpened

Begin(frames) == Idle /\ calls' = frames

\* H5Fopen.
open_file(f) ==
  /\ Idle
  /\ user[f] < MaxUser
  /\ user' = [user EXCEPT ![f] = @ + 1]
  /\ shared_nrefs' = [shared_nrefs EXCEPT ![f] = @ + 1]
  /\ UNCHANGED <<efc_nrefs, lru, tag, loose, orphaned, found, calls>>

\* H5Fclose, with objects open by way of the identifier, or with none.
H5Fclose(f, objs) ==
  /\ objs > 0 => MayOpenObject
  /\ user[f] > 0
  /\ user' = [user EXCEPT ![f] = @ - 1]
  /\ ParentsHeld(user')
  /\ Begin(<<Frame("H5F_try_close", f, <<>>, {}, objs)>>)
  /\ UNCHANGED <<shared_nrefs, efc_nrefs, lru, tag, loose, orphaned, found>>

\* The last object of a top outside the caches is closed (H5O_close), or
\* the traversal that opened the file without an entry ends (H5F_efc_close).
close_object(f) ==
  /\ \/ loose[f] > 0 /\ loose' = [loose EXCEPT ![f] = @ - 1] /\ UNCHANGED orphaned
     \/ orphaned[f] > 0 /\ orphaned' = [orphaned EXCEPT ![f] = @ - 1] /\ UNCHANGED loose
  /\ ParentsHeld(user)
  /\ Begin(<<At("H5F_try_close", f)>>)
  /\ UNCHANGED <<shared_nrefs, efc_nrefs, lru, tag, user, found>>

\* H5F__efc_open of f through the cache of p.
efc_open_hit(p, f) ==
  LET i == Position(p, f) IN
  /\ Idle /\ MayOpenEntry
  /\ Held(p) /\ HasEFC(p)
  /\ Cached(p, f) /\ lru[p][i].nopen = 0
  /\ lru' = [lru EXCEPT ![p] = <<[lru[p][i] EXCEPT !.nopen = 1]>> \o RemoveAt(@, i)]
  /\ UNCHANGED <<shared_nrefs, efc_nrefs, tag, TOPS, found, calls>>

insert(p, f) ==
  /\ shared_nrefs' = [shared_nrefs EXCEPT ![f] = @ + 1]
  /\ efc_nrefs' = [efc_nrefs EXCEPT ![f] = IF HasEFC(f) THEN @ + 1 ELSE @]
  /\ lru' = [lru EXCEPT ![p] = <<Entry(f)>> \o @]
  /\ UNCHANGED TOPS

efc_open_new(p, f) ==
  /\ Idle /\ MayOpenEntry
  /\ Held(p) /\ HasEFC(p)
  /\ ~Cached(p, f)
  /\ Len(lru[p]) < max_nfiles[p]
  /\ insert(p, f)
  /\ UNCHANGED <<tag, found, calls>>

\* The least recently used entry without clients.
Victim(p, i) == /\ i \in 1..Len(lru[p]) /\ lru[p][i].nopen = 0
                /\ \A j \in i + 1..Len(lru[p]) : lru[p][j].nopen > 0

MustEvict(p, f) ==
  Held(p) /\ HasEFC(p) /\ ~Cached(p, f) /\ Len(lru[p]) = max_nfiles[p]

efc_open_evict(p, f) ==
  /\ MustEvict(p, f)
  /\ ParentsHeld(user)
  /\ \E i \in 1..Len(lru[p]) :
       /\ Victim(p, i)
       /\ remove_ent(p, lru[p][i].file)
       /\ Begin(<<Frame("efc_open", p, <<>>, {f}, 0),
                  Frame("H5F_try_close", lru[p][i].file, <<>>, {}, lru[p][i].objs)>>)
  /\ UNCHANGED <<shared_nrefs, tag, TOPS, found>>

\* The victim is gone, whether or not the file can be opened.
efc_open_evicted ==
  /\ Running("efc_open")
  /\ \/ MayOpenEntry /\ \E f \in Top.files : insert(Top.file, f)
     \/ UNCHANGED_COUNTS
  /\ Return
  /\ UNCHANGED <<tag, found>>

\* No cache, or all its entries are in use: the file is opened outside it.
efc_open_uncached(p, f) ==
  /\ Idle /\ MayOpenObject
  /\ Held(p)
  /\ HasEFC(p) => MustEvict(p, f) /\ \A e \in Entries(p) : e.nopen > 0
  /\ shared_nrefs' = [shared_nrefs EXCEPT ![f] = @ + 1]
  /\ loose' = [loose EXCEPT ![f] = @ + 1]
  /\ UNCHANGED <<efc_nrefs, lru, tag, user, orphaned, found, calls>>

\* H5F_efc_close of an entry, and the objects of its top, which do not
\* close it: the cache counts as one object.
ChangeEntry(p, i, e) ==
  /\ Idle
  /\ lru' = [lru EXCEPT ![p][i] = e]
  /\ UNCHANGED <<shared_nrefs, efc_nrefs, tag, TOPS, found, calls>>

efc_close(p, i) ==
  /\ lru[p][i].nopen > 0
  /\ ChangeEntry(p, i, [lru[p][i] EXCEPT !.nopen = 0])

open_object(p, i) ==
  /\ MayOpenObject
  /\ lru[p][i].nopen > 0 /\ lru[p][i].objs = 0
  /\ ChangeEntry(p, i, [lru[p][i] EXCEPT !.objs = 1])

close_entry_object(p, i) ==
  /\ lru[p][i].objs > 0
  /\ ParentsHeld(user)
  /\ ChangeEntry(p, i, [lru[p][i] EXCEPT !.objs = 0])

\* H5Fclear_elink_file_cache.
efc_release(f) ==
  /\ user[f] > 0 /\ HasEFC(f)
  /\ ParentsHeld(user)
  /\ Begin(<<Over("efc_release_real", f, lru[f])>>)
  /\ tag' = [tag EXCEPT ![f] = TAG_LOCK]
  /\ UNCHANGED found /\ UNCHANGED_COUNTS
-----------------------------------------------------------------------------
TryClose == \/ try_close_objects \/ try_close_top \/ try_close_reentered
            \/ try_close_root \/ try_close_cleanup
Pass1    == tag1_return \/ tag1_entry \/ pass1_keep \/ pass1_mark
Pass2    == tag2_return \/ tag2_entry \/ pass2_file \/ pass2_done
ReleaseStep == release_entry \/ release_skip \/ release_return
Dest     == dest_top \/ dest_efc \/ dest_shared

Step == TryClose \/ Pass1 \/ Pass2 \/ ReleaseStep \/ Dest \/ efc_open_evicted

EfcNext ==
  \/ Step
  \/ \E f \in Files :
       \/ open_file(f) \/ close_object(f) \/ efc_release(f)
       \/ \E objs \in 0..1 : H5Fclose(f, objs)
       \/ \E p \in Files : \/ efc_open_hit(p, f) \/ efc_open_new(p, f)
                           \/ efc_open_evict(p, f) \/ efc_open_uncached(p, f)
       \/ \E i \in 1..Len(lru[f]) : \/ efc_close(f, i)
                                    \/ open_object(f, i)
                                    \/ close_entry_object(f, i)

EfcSpec == EfcInit /\ [][EfcNext]_efc_vars
-----------------------------------------------------------------------------
\* The caches that hold a file, and the calls under way that close a top of it.
Parents(f) == {p \in Files : Cached(p, f)}
TopsClosing(f) == {i \in 1..Len(calls) : calls[i].fn \in Closing /\ calls[i].file = f}

\* The counters agree with the references at every step, however the closing
\* of files re-enters itself: nrefs with the tops of a file, efc->nrefs with
\* the entries of all caches; and a closed file has given up its entries
\* (H5F__dest, H5F__efc_remove_ent).
CountsAgree ==
  \A f \in Files :
    /\ shared_nrefs[f] = user[f] + loose[f] + orphaned[f]
                         + Cardinality(Parents(f)) + Cardinality(TopsClosing(f))
    /\ HasEFC(f) => efc_nrefs[f] = Cardinality(Parents(f))
    /\ shared_nrefs[f] = 0 => lru[f] = <<>>

\* The release of a cache walks on to an entry that is still in the list:
\* although it closes files on its way, which may close others, nothing but
\* itself takes entries from the cache it has locked (H5Fefc.c:510).
Releasing(i) == i \in 1..Len(calls) /\ calls[i].fn = "efc_release_real"
Visited(i) == Len(lru[calls[i].file]) - Len(calls[i].entries)

ReleaseWalksList ==
  \A i \in 1..Len(calls) : Releasing(i) =>
    LET list == lru[calls[i].file]
    IN /\ Visited(i) >= 0
       /\ \A k \in 1..Len(calls[i].entries) : calls[i].entries[k] = list[Visited(i) + k]

\* The files reached, through the caches, from those that somebody keeps open.
Reachable ==
  {f \in Files : \A S \in SUBSET Files :
     /\ {g \in Files : Held(g)} \subseteq S
     /\ \A p \in S : \A e \in Entries(p) : e.file \in S
     => f \in S}

\* Caches keep no file open on their own, cycles or not: every open file is
\* reached, through the caches, from a file that somebody keeps open
\* (H5F__efc_try_close).
NoFileLeftOpen == Idle => \A f \in Files : shared_nrefs[f] > 0 => f \in Reachable

\* Between two calls no file carries a tag or a place on a list.
TagsReset == Idle => found = {} /\ \A f \in Files : tag[f] = TAG_DEFAULT

NoObjects ==
  \A f \in Files : orphaned[f] = 0 /\ \A e \in Entries(f) : e.objs = 0

\* A close takes entries from the caches of files only that nobody keeps
\* open, also of those that pass 2 alone finds uncloseable, and cleans up its
\* tags: as long as no object is open by way of an entry.
OnlyUnusedReleased ==
  [][NoObjects => /\ TagsReset'
                  /\ ~Idle /\ calls[1].fn \in Closing =>
                       \A f \in Files : lru'[f] # lru[f] => f \notin Reachable
    ]_efc_vars
=============================================================================
