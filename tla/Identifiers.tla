----------------------------- MODULE Identifiers -----------------------------
(***************************************************************************)
(* The identifiers of the library (H5Iint.c).  Each type keeps its         *)
(* identifiers in a hash table that is walked in the order of insertion.   *)
(* Clearing a type walks the table and calls the type's free function on   *)
(* what it may delete; those callbacks are code of the application, or of  *)
(* the library above, and release, remove and register identifiers         *)
(* themselves, of the type that is being cleared too.  So that the walk    *)
(* does not lose its place, entries that go away while a walk of this kind *)
(* is on (H5I_marking_s) are marked and stay in the table until the sweep. *)
(*                                                                         *)
(* An identifier is a number, in the order of registration.  Who uses one *)
(* holds a reference to it; a reference is given up when it is dropped, or *)
(* when its holder removes the identifier, and not before: a clear takes   *)
(* objects from their holders without asking, and these may drop what they *)
(* hold while the clear is still on.  H5I__find_id gives them the marked   *)
(* entry, and if that was the last reference the object is freed again.    *)
(* late records the identifiers to which this happened: what holds until   *)
(* then, and what holds regardless, is told apart in the properties.  In a *)
(* build with assertions the program ends there (:956).                    *)
(*                                                                         *)
(* Assumed of the callers: a callback neither clears nor destroys a type,  *)
(* and registers nothing in a type that is being destroyed.  Objects that  *)
(* are futures, identifiers registered again under an old number, and      *)
(* objects that are replaced (H5I_subst) are left out.                     *)
(***************************************************************************)
EXTENDS Integers, Sequences, FiniteSets

CONSTANTS
  Types,        \* the identifier types
  MaxIds,       \* how many identifiers are ever registered
  MaxCount,     \* highest reference count of an identifier
  MaxDepth,     \* how deep free callbacks nest
  MaxLate       \* how many identifiers are released late

ASSUME BoundsAssumption ==
  MaxIds \in Nat /\ MaxCount \in Nat /\ MaxDepth \in Nat /\ MaxLate \in Nat

VARIABLES
  types,          \* the types that exist (init_count is not zero)
  id_count,       \* number of identifiers each type says it holds
  next,           \* the number of the next identifier
  info,           \* the entry of each identifier in the hash table of its type
  frees,          \* times the free callback of each object succeeded
  late,           \* the identifiers whose last reference was dropped, or that
                  \* were removed, when a clear had got to them already
  marking,        \* H5I_marking_s
  calls,          \* the free callbacks that run, the innermost one last
  clear           \* the clear or destroy that is under way, or NoClear

vars == <<types, id_count, next, info, frees, late, marking, calls, clear>>

Ids == 1 .. MaxIds
NULL == 0
NoClear == [on |-> FALSE]
NoInfo == [in |-> FALSE, type |-> NULL, count |-> 0, app_count |-> 0,
           marked |-> FALSE, held |-> 0]

\* held is not in the code: the references that somebody still holds.  A clear
\* changes neither count nor who holds what.
Infos == [in : {TRUE}, type : Types, count : Nat, app_count : Nat,
          marked : BOOLEAN, held : Nat]

\* how a free callback was reached
Reasons == {"dec_ref", "always_close", "clear"}

Clears == [on : {TRUE}, type : Types, force : BOOLEAN, app_ref : BOOLEAN,
           destroy : BOOLEAN, item : Ids \cup {NULL}, tmp : Ids \cup {NULL},
           atCall : SUBSET Ids]

TypeOK ==
  /\ types \in SUBSET Types
  /\ id_count \in [Types -> Int]
  /\ next \in 1 .. MaxIds + 1
  /\ info \in [Ids -> Infos \cup {NoInfo}]
  /\ frees \in [Ids -> Nat]
  /\ late \in SUBSET Ids
  /\ marking \in BOOLEAN
  /\ calls \in Seq([id : Ids, why : Reasons])
  /\ clear \in Clears \cup {NoClear}

Entries(t) == {i \in Ids : info[i].in /\ info[i].type = t}

\* The members of a type: what H5I_nmembers counts and an iteration visits.
Members(t) == {i \in Entries(t) : ~info[i].marked}

\* hh.next of an entry of type t (of NULL: the head of the table)
NextEntry(t, i) ==
  IF \E j \in Entries(t) : j > i
  THEN CHOOSE j \in Entries(t) : j > i /\ \A k \in Entries(t) : k > i => j <= k
  ELSE NULL

\* Who may use an identifier: whoever holds a reference that is not just being
\* dropped, though the entry may be marked (H5I__find_id finds it all the same).
\* While a clear is on, only its callbacks run.
Usable(i) ==
  /\ info[i].in /\ info[i].held > 0
  /\ \A k \in 1 .. Len(calls) : calls[k].id = i => calls[k].why = "clear"
  /\ clear.on => calls # << >>

\* A clear has got to the identifier, or an earlier removal has.
Taken(i) == info[i].marked \/ \E k \in 1 .. Len(calls) : calls[k].id = i

\* Its holder gives an identifier up: late, if it was taken before.
GivenUp(i) ==
  /\ late' = IF Taken(i) THEN late \cup {i} ELSE late
  /\ Cardinality(late') <= MaxLate

Init ==
  /\ types = Types
  /\ id_count = [t \in Types |-> 0]
  /\ next = 1
  /\ info = [i \in Ids |-> NoInfo]
  /\ frees = [i \in Ids |-> 0]
  /\ late = {}
  /\ marking = FALSE
  /\ calls = << >>
  /\ clear = NoClear

-----------------------------------------------------------------------------
(* Identifiers *)

\* H5I__register
register(t, app_ref) ==
  /\ t \in types
  /\ clear.on => calls # << >> /\ ~(clear.type = t /\ clear.destroy)
  /\ next <= MaxIds
  /\ next' = next + 1
  /\ info' = [info EXCEPT ![next] = [in |-> TRUE, type |-> t, count |-> 1,
                                    app_count |-> IF app_ref THEN 1 ELSE 0,
                                    marked |-> FALSE, held |-> 1]]
  /\ id_count' = [id_count EXCEPT ![t] = @ + 1]
  /\ UNCHANGED <<types, frees, late, marking, calls, clear>>

\* The reference counts of an identifier change by n and a.
AddRefs(i, n, a) ==
  /\ info' = [info EXCEPT ![i].count = @ + n, ![i].app_count = @ + a, ![i].held = @ + n]
  /\ UNCHANGED <<types, id_count, next, frees, late, marking, calls, clear>>

\* H5I_inc_ref
inc_ref(i, app_ref) ==
  /\ Usable(i)
  /\ info[i].count < MaxCount
  /\ AddRefs(i, 1, IF app_ref THEN 1 ELSE 0)

\* H5I_dec_ref of a reference of the library that is not the last
dec_ref(i) ==
  /\ Usable(i)
  /\ info[i].count > 1 /\ info[i].count > info[i].app_count
  /\ AddRefs(i, -1, 0)

\* H5I__dec_app_ref of a reference of the application that is not the last
dec_app_ref(i) ==
  /\ Usable(i)
  /\ info[i].count > 1 /\ info[i].app_count > 0
  /\ AddRefs(i, -1, -1)

\* A plausible bug: a marked entry is counted until it is swept.
remove_common_count(i, held) ==
  IF ~info[i].in THEN UNCHANGED <<info, id_count>>
  ELSE /\ info' = [info EXCEPT ![i] = IF marking
                                     THEN [@ EXCEPT !.marked = TRUE, !.held = held]
                                     ELSE NoInfo]
       /\ id_count' = IF marking THEN id_count ELSE [id_count EXCEPT ![info[i].type] = @ - 1]

\* A plausible bug: the entry is deleted at once, during a clear too.
remove_common_delete(i, held) ==
  IF ~info[i].in THEN UNCHANGED <<info, id_count>>
  ELSE /\ info' = [info EXCEPT ![i] = NoInfo]
       /\ id_count' = [id_count EXCEPT ![info[i].type] = @ - 1]

\* H5I__remove_common: the entry leaves the table, or is marked (again, if it
\* is marked) while a type is being cleared, whichever type it belongs to.
\* held references are left.
remove_common(i, held) ==
  IF ~info[i].in THEN UNCHANGED <<info, id_count>>
  ELSE /\ info' = [info EXCEPT ![i] = IF marking
                                     THEN [@ EXCEPT !.marked = TRUE, !.held = held]
                                     ELSE NoInfo]
       /\ id_count' = [id_count EXCEPT ![info[i].type] = @ - 1]

\* H5I_remove, H5I__remove_verify: the object goes back to the caller.
remove(i) ==
  /\ Usable(i)
  /\ remove_common(i, info[i].held - 1)
  /\ GivenUp(i)
  /\ UNCHANGED <<types, next, frees, marking, calls, clear>>

\* The free function of the type is called on the object.
CallFree(i, why) ==
  /\ Len(calls) < MaxDepth
  /\ calls' = Append(calls, [id |-> i, why |-> why])
  /\ UNCHANGED <<types, id_count, next, info, frees, marking, clear>>

\* H5I__dec_ref on the last reference: the free function first, then the
\* removal.  It does not ask whether the entry is marked.
dec_ref_last(i, why) ==
  /\ Usable(i)
  /\ info[i].count = 1
  /\ why = "always_close" => info[i].app_count > 0
  /\ CallFree(i, why)
  /\ GivenUp(i)

Callback == calls[Len(calls)]

\* The innermost callback returns.
Return(ok) ==
  /\ calls' = SubSeq(calls, 1, Len(calls) - 1)
  /\ frees' = IF ok THEN [frees EXCEPT ![Callback.id] = @ + 1] ELSE frees
  /\ UNCHANGED <<types, next, late, marking>>

\* The free callback that H5I__dec_ref called returns: if it succeeded the
\* identifier is removed, otherwise its last reference stays;
\* H5I__dec_app_ref_always_close removes it all the same.
dec_ref_return(ok) ==
  /\ calls # << >>
  /\ Callback.why # "clear"
  /\ Return(ok)
  /\ IF ok \/ Callback.why = "always_close"
     THEN remove_common(Callback.id, 0)
     ELSE UNCHANGED <<info, id_count>>
  /\ UNCHANGED clear

-----------------------------------------------------------------------------
(* Clearing and destroying a type *)

\* H5I_clear_type (from H5I__destroy_type when destroy) begins: the marking
\* flag is set and the walk starts at the head of the table.  With force set
\* app_ref says nothing, and one of its values stands for both.
clear_type(t, force, app_ref, destroy) ==
  /\ t \in types
  /\ calls = << >> /\ ~clear.on
  /\ destroy => force
  /\ force => ~app_ref
  /\ marking' = TRUE
  /\ LET head == NextEntry(t, NULL)
     IN  clear' = [on |-> TRUE, type |-> t, force |-> force, app_ref |-> app_ref,
                   destroy |-> destroy, item |-> head,
                   tmp |-> IF head = NULL THEN NULL ELSE NextEntry(t, head),
                   atCall |-> IF force THEN Members(t) ELSE {}]
  /\ UNCHANGED <<types, id_count, next, info, frees, late, calls>>

\* HASH_ITER goes to the entry it remembered, and remembers the one after.
Advance ==
  clear' = [clear EXCEPT !.item = clear.tmp,
                         !.tmp = IF clear.tmp = NULL THEN NULL
                                 ELSE NextEntry(clear.type, clear.tmp)]

\* An unforced clear leaves an identifier with more than one reference; those
\* of the application do not count when app_ref is unset.
Deletable(i) ==
  clear.force \/ info[i].count - (IF clear.app_ref THEN 0 ELSE info[i].app_count) <= 1

Visiting == clear.on /\ clear.item # NULL /\ calls = << >>

\* The walk is at an entry it does not take.
clear_skip ==
  /\ Visiting
  /\ info[clear.item].marked \/ ~Deletable(clear.item)
  /\ Advance
  /\ UNCHANGED <<types, id_count, next, info, frees, late, marking, calls>>

\* A plausible bug: the walk takes entries that are marked already.
mark_node_again ==
  /\ Visiting
  /\ Deletable(clear.item)
  /\ CallFree(clear.item, "clear")
  /\ UNCHANGED late

\* H5I__mark_node calls the free function ...
mark_node ==
  /\ Visiting
  /\ ~info[clear.item].marked /\ Deletable(clear.item)
  /\ CallFree(clear.item, "clear")
  /\ UNCHANGED late

\* A plausible bug: an object that could not be freed stays in a forced clear.
mark_node_return_keep(ok) ==
  /\ calls # << >>
  /\ Callback.why = "clear"
  /\ Return(ok)
  /\ IF ok THEN /\ info' = [info EXCEPT ![Callback.id].marked = TRUE]
                /\ id_count' = [id_count EXCEPT ![clear.type] = @ - 1]
           ELSE UNCHANGED <<info, id_count>>
  /\ Advance

\* ... and marks the entry when that succeeded, or when the clear is forced.
mark_node_return(ok) ==
  /\ calls # << >>
  /\ Callback.why = "clear"
  /\ Return(ok)
  /\ IF ok \/ clear.force
     THEN /\ info' = [info EXCEPT ![Callback.id].marked = TRUE]
          /\ id_count' = [id_count EXCEPT ![clear.type] = @ - 1]
     ELSE UNCHANGED <<info, id_count>>
  /\ Advance

\* The walk is over: the flag is reset, the marked entries of the type leave
\* the table and, when the type is destroyed, the table and the type go too.
clear_sweep ==
  /\ clear.on /\ clear.item = NULL /\ calls = << >>
  /\ marking' = FALSE
  /\ info' = [i \in Ids |->
                IF i \in Entries(clear.type) /\ (clear.destroy \/ info[i].marked)
                THEN NoInfo ELSE info[i]]
  /\ types' = IF clear.destroy THEN types \ {clear.type} ELSE types
  /\ clear' = NoClear
  /\ UNCHANGED <<id_count, next, frees, late, calls>>

-----------------------------------------------------------------------------
IdOps ==
  \/ \E t \in Types, app_ref \in BOOLEAN : register(t, app_ref)
  \/ \E i \in Ids :
        \/ \E app_ref \in BOOLEAN : inc_ref(i, app_ref)
        \/ dec_ref(i)
        \/ dec_app_ref(i)
        \/ remove(i)
        \/ \E why \in {"dec_ref", "always_close"} : dec_ref_last(i, why)

ClearOps ==
  \/ \E t \in Types, force, app_ref, destroy \in BOOLEAN :
        clear_type(t, force, app_ref, destroy)
  \/ clear_skip
  \/ mark_node
  \/ clear_sweep

Returns == \E ok \in BOOLEAN : dec_ref_return(ok) \/ mark_node_return(ok)

Next == IdOps \/ ClearOps \/ Returns

Spec == Init /\ [][Next]_vars

-----------------------------------------------------------------------------
\* However clears, releases and their callbacks nest, the number of members a
\* type reports is the number of unmarked entries in its table (H5I_nmembers,
\* which the shutdown of each interface waits to reach zero), as long as no
\* identifier was released late: id_count is then taken down a second time
\* (H5Iint.c:975).  An object that was freed is never that of a member.
MembersAgree ==
  /\ late = {} => \A t \in Types : id_count[t] = Cardinality(Members(t))
  /\ \A i \in Ids : info[i].in /\ ~info[i].marked => frees[i] = 0

\* Whatever the free callbacks release or remove, the entries the walk of
\* H5I_clear_type is at and will go to next are still in the table.
CursorSafe ==
  clear.on => {clear.item, clear.tmp} \subseteq Entries(clear.type) \cup {NULL}

\* No object is freed twice, be it by the walk of a clear, by a reference that
\* is dropped, by callbacks inside either of them, or by later clears, save
\* where a holder drops the last reference of an identifier that the walk has
\* got to (late): H5I__dec_ref then frees it again (H5Iint.c:1063-1076).  That
\* harms no identifier but its own.
FreedOnce ==
  \A i \in Ids \ late : frees[i] <= 1

\* When the walk of a forced clear is over, nothing that was a member of the
\* type at the call is left, though its callbacks may fail and may release
\* and register identifiers in front of the walk and behind it.
ForcedClearsAll ==
  clear.on /\ clear.force /\ clear.item = NULL /\ calls = << >>
    => clear.atCall \cap Members(clear.type) = {}
=============================================================================
