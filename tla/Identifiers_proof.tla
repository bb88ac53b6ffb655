-------------------------- MODULE Identifiers_proof --------------------------
(***************************************************************************)
(* Proofs about the identifiers, for any number of types, identifiers,     *)
(* nested callbacks and identifiers that are released late.  IInv adds to  *)
(* the properties what makes them inductive: that numbers not yet given    *)
(* out are unused (FreshInv), that the callbacks that run belong to        *)
(* different members, late ones aside, and that of a clear is the          *)
(* outermost (CallsInv), and that what a forced clear has yet to take lies *)
(* ahead of its walk (ClearInv).                                           *)
(***************************************************************************)
EXTENDS Identifiers, FiniteSetTheorems, SequenceTheorems, WellFoundedInduction,
        TLAPS

\* Only numbers that were given out may have an entry, or had one.
FreshInv ==
  \A i \in Ids : i >= next => ~info[i].in /\ frees[i] = 0 /\ i \notin late

\* The callback that a clear called is the outermost, and is that of the walk's
\* entry.  An identifier that was not released late has at most one callback,
\* and is a member while it runs.
CallsInv ==
  \A k \in 1 .. Len(calls) :
     /\ calls[k].id < next
     /\ calls[k].why = "clear" => clear.on /\ clear.item = calls[k].id /\ k = 1
     /\ calls[k].id \notin late =>
          /\ info[calls[k].id].in /\ ~info[calls[k].id].marked
          /\ \A l \in 1 .. Len(calls) : calls[l].id = calls[k].id => l = k

\* The flag is set throughout a clear and only then.  What a forced clear has
\* yet to take is at its walk or ahead of it, and a type that is destroyed
\* gets no new members.
ClearInv ==
  /\ marking = clear.on
  /\ clear.on => /\ clear.type \in types
                 /\ clear.item = NULL => clear.tmp = NULL
                 /\ \A i \in clear.atCall : i < next
                 /\ clear.destroy => clear.force /\ Members(clear.type) \subseteq clear.atCall
                 /\ clear.force =>
                      \A i \in clear.atCall \cap Members(clear.type) :
                         /\ clear.item # NULL
                         /\ i = clear.item \/ (clear.tmp # NULL /\ i >= clear.tmp)

IInv == TypeOK /\ FreshInv /\ MembersAgree /\ CursorSafe /\ FreedOnce /\ CallsInv /\ ClearInv

-----------------------------------------------------------------------------
\* hh.next is an entry of the type behind the given one, or NULL, and no entry
\* lies between them (the walk of HASH_ITER leaves none out).
LEMMA NextEntryIs ==
  ASSUME NEW t, NEW i \in Nat
  PROVE  LET n == NextEntry(t, i)
         IN  /\ n = NULL \/ (n \in Entries(t) /\ n > i)
             /\ \A j \in Entries(t) : j > i => n # NULL /\ n <= j
<1>1. CASE \E j \in Entries(t) : j > i
  <2> DEFINE S == {j \in Entries(t) : j > i}
  <2>1. S \subseteq Nat /\ S # {}
    BY <1>1, BoundsAssumption DEF Entries, Ids
  <2>2. PICK m \in S : \A k \in S : m <= k
    <3>1. IsWellFoundedOn(OpToRel(<, Nat), Nat)
      BY NatLessThanWellFounded
    <3>2. PICK m \in S : \A k \in S : <<k, m>> \notin OpToRel(<, Nat)
      <4> HIDE DEF S
      <4> QED  BY <2>1, <3>1, WFMin, Zenon
    <3>3. \A k \in S : ~(k < m)
      BY <2>1, <3>2 DEF OpToRel
    <3> QED
      BY <2>1, <3>3
  <2>3. \E j \in Entries(t) : j > i /\ \A k \in Entries(t) : k > i => j <= k
    BY <2>2
  <2> QED  BY <1>1, <2>3, BoundsAssumption DEF NextEntry, NULL, Entries, Ids
<1>2. CASE ~ \E j \in Entries(t) : j > i
  BY <1>2 DEF NextEntry
<1> QED  BY <1>1, <1>2

\* A type's members can be counted, ...
LEMMA Countable ==
  ASSUME NEW S \in SUBSET Ids
  PROVE  /\ Cardinality(S) \in Nat
         /\ \A i \in Ids \ S : Cardinality(S \cup {i}) = Cardinality(S) + 1
         /\ \A i \in S : Cardinality(S \ {i}) = Cardinality(S) - 1
<1>0. IsFiniteSet(Ids)
  BY FS_Interval, BoundsAssumption DEF Ids
<1>1. IsFiniteSet(S)
  BY <1>0, FS_Subset
<1>2. Cardinality(S) \in Nat
  BY <1>1, FS_CardinalityType
<1>3. ASSUME NEW i \in Ids \ S PROVE Cardinality(S \cup {i}) = Cardinality(S) + 1
  BY <1>1, <1>3, FS_AddElement
<1>4. ASSUME NEW i \in S PROVE Cardinality(S \ {i}) = Cardinality(S) - 1
  BY <1>1, <1>4, FS_RemoveElement
<1> QED  BY <1>2, <1>3, <1>4

\* What an entry in a table holds.
LEMMA EntryIs ==
  ASSUME IInv, NEW i \in Ids, info[i].in
  PROVE  info[i] \in Infos /\ info[i].type \in Types
<1>1. info[i] \in Infos
  BY DEF IInv, TypeOK, NoInfo
<1> QED  BY <1>1 DEF Infos

\* The callbacks that run are of identifiers; the innermost is the last one.
LEMMA CallsAre ==
  ASSUME IInv
  PROVE  /\ Len(calls) \in Nat
         /\ \A k \in 1 .. Len(calls) : calls[k].id \in Ids /\ calls[k].why \in Reasons
         /\ calls # << >> => /\ Len(calls) \in 1 .. Len(calls)
                            /\ Callback.id \in Ids /\ Callback.why \in Reasons
<1> DEFINE R == [id : Ids, why : Reasons]
<1>1. calls \in Seq(R)
  BY DEF IInv, TypeOK
<1> HIDE DEF R
<1>2. Len(calls) \in Nat /\ \A k \in 1 .. Len(calls) : calls[k] \in R
  BY <1>1
<1>3. calls # << >> => Len(calls) \in 1 .. Len(calls)
  BY <1>1
<1> QED  BY <1>2, <1>3 DEF R, Callback

\* A clear is of a type, and its walk is at an entry of that type or at the end.
LEMMA ClearIs ==
  ASSUME IInv, clear.on
  PROVE  /\ clear \in Clears /\ clear.type \in Types /\ marking
         /\ clear.item \in Entries(clear.type) \cup {NULL}
         /\ clear.tmp \in Entries(clear.type) \cup {NULL}
<1>1. clear \in Clears
  BY DEF IInv, TypeOK, NoClear
<1>2. clear.type \in Types
  BY <1>1 DEF Clears
<1>3. marking
  BY DEF IInv, ClearInv
<1> QED  BY <1>1, <1>2, <1>3 DEF IInv, CursorSafe

-----------------------------------------------------------------------------
\* The identifiers start out with no entry.
LEMMA InitLemma == Init => IInv
<1> SUFFICES ASSUME Init PROVE IInv
  OBVIOUS
<1>1. TypeOK
  <2>1. next \in 1 .. MaxIds + 1 /\ info \in [Ids -> Infos \cup {NoInfo}]
    BY BoundsAssumption DEF Init
  <2>2. late \in SUBSET Ids /\ frees \in [Ids -> Nat] /\ id_count \in [Types -> Int]
    BY DEF Init
  <2>3. types \in SUBSET Types /\ marking \in BOOLEAN /\ clear \in Clears \cup {NoClear}
    BY DEF Init
  <2>4. calls \in Seq([id : Ids, why : Reasons])
    BY DEF Init
  <2> QED  BY <2>1, <2>2, <2>3, <2>4 DEF TypeOK
<1>2. \A t : Members(t) = {} /\ Entries(t) = {}
  BY DEF Init, Members, Entries, NoInfo
<1>3. MembersAgree
  BY <1>2, FS_EmptySet DEF Init, MembersAgree
<1>4. FreshInv /\ FreedOnce
  BY BoundsAssumption DEF Init, FreshInv, FreedOnce, Ids, NoInfo
<1>5. clear.on = FALSE /\ marking = FALSE
  BY DEF Init, NoClear
<1>6. 1 .. Len(calls) = {}
  BY DEF Init
<1>7. CursorSafe /\ ClearInv
  BY <1>5 DEF CursorSafe, ClearInv
<1>8. CallsInv
  BY <1>6 DEF CallsInv
<1> QED  BY <1>1, <1>3, <1>4, <1>7, <1>8 DEF IInv

\* Registering adds a member behind all others.
LEMMA RegisterStep ==
  ASSUME IInv, NEW t \in Types, NEW app_ref \in BOOLEAN, register(t, app_ref)
  PROVE  IInv'
<1> USE DEF IInv
<1> DEFINE e == [in |-> TRUE, type |-> t, count |-> 1,
                 app_count |-> IF app_ref THEN 1 ELSE 0, marked |-> FALSE,
                 held |-> 1]
<1>1. next \in Ids /\ e \in Infos /\ info' = [info EXCEPT ![next] = e]
  BY BoundsAssumption DEF register, TypeOK, Ids, Infos
<1>0. ~info[next].in /\ frees[next] = 0 /\ next \notin late
  BY <1>1, BoundsAssumption DEF FreshInv, Ids
<1> HIDE DEF e
<1>2. TypeOK'
  <2>1. info' \in [Ids -> Infos \cup {NoInfo}]
    BY <1>1 DEF TypeOK
  <2>2. next' \in 1 .. MaxIds + 1
    BY <1>1, BoundsAssumption DEF TypeOK, register, Ids
  <2>3. id_count' \in [Types -> Int]
    BY DEF TypeOK, register
  <2> QED  BY <2>1, <2>2, <2>3 DEF TypeOK, register
<1>3. FreshInv' /\ FreedOnce'
  BY <1>0, <1>1, BoundsAssumption DEF FreshInv, FreedOnce, register, TypeOK, Ids
<1>4. e.in /\ e.type = t /\ ~e.marked
  BY DEF e
<1>5. /\ Entries(t)' = Entries(t) \cup {next} /\ Members(t)' = Members(t) \cup {next}
      /\ \A s \in Types \ {t} : Entries(s)' = Entries(s) /\ Members(s)' = Members(s)
  BY <1>0, <1>1, <1>4 DEF Entries, Members, TypeOK
<1>6. MembersAgree'
  <2>1. next \in Ids \ Members(t) /\ \A s \in Types : Members(s) \in SUBSET Ids
    BY <1>0, <1>1 DEF Members, Entries
  <2>2. ASSUME late = {} PROVE \A s \in Types : id_count'[s] = Cardinality(Members(s)')
    <3>1. id_count'[t] = id_count[t] + 1 /\ \A s \in Types \ {t} : id_count'[s] = id_count[s]
      BY DEF register, TypeOK
    <3>2. Cardinality(Members(t)') = Cardinality(Members(t)) + 1
      BY <1>5, <2>1, Countable
    <3>3. \A s \in Types : id_count[s] = Cardinality(Members(s))
      BY <2>2 DEF MembersAgree
    <3>4. \A s \in Types \ {t} : Cardinality(Members(s)') = Cardinality(Members(s))
      BY <1>5
    <3> QED  BY <3>1, <3>2, <3>3, <3>4
  <2>3. \A i \in Ids : info'[i].in /\ ~info'[i].marked => frees'[i] = 0
    BY <1>0, <1>1, <1>4 DEF register, MembersAgree, TypeOK
  <2> QED  BY <2>2, <2>3 DEF MembersAgree, register
<1>7. CursorSafe'
  BY <1>5, ClearIs DEF CursorSafe, register
<1>8. CallsInv'
  <2>1. /\ next \in Int /\ next' = next + 1 /\ Ids \subseteq Int
        /\ calls' = calls /\ clear' = clear /\ late' = late
    BY BoundsAssumption DEF register, TypeOK, Ids
  <2>2. \A k \in 1 .. Len(calls) : calls[k].id \in Ids /\ calls[k].id < next
    BY CallsAre DEF CallsInv
  <2>3. \A j \in Ids : j < next => j < next' /\ info'[j] = info[j]
    BY <1>1, <2>1 DEF TypeOK
  <2> QED  BY <2>1, <2>2, <2>3 DEF CallsInv
<1>9. ClearInv'
  <2>1. ASSUME clear.on PROVE clear.type \in Types /\ next \notin clear.atCall
    BY <1>1, <2>1 DEF ClearInv, TypeOK, Ids, Clears
  <2>2. \A i \in clear.atCall : clear.on => i < next'
    <3>1. next \in Int /\ next' = next + 1
      BY DEF TypeOK, register
    <3> SUFFICES ASSUME clear.on, NEW i \in clear.atCall PROVE i < next'
      OBVIOUS
    <3>2. clear.atCall \in SUBSET Ids
      BY ClearIs DEF Clears
    <3>3. i < next /\ i \in Int
      BY <3>2, BoundsAssumption DEF ClearInv, Ids
    <3> QED  BY <3>1, <3>3
  <2> QED  BY <1>5, <2>1, <2>2 DEF ClearInv, register
<1> QED  BY <1>2, <1>3, <1>6, <1>7, <1>8, <1>9

\* The entries and members of every type, and so whatever is said of them, are
\* the same when entries only change their reference counts.
LEMMA CountsStep ==
  ASSUME IInv, NEW i \in Ids, info[i].in, NEW n \in Int, NEW a \in Int, AddRefs(i, n, a),
         info[i].count + n \in Nat, info[i].app_count + a \in Nat, info[i].held + n \in Nat
  PROVE  IInv'
<1> USE DEF IInv
<1> DEFINE e == [info[i] EXCEPT !.count = @ + n, !.app_count = @ + a, !.held = @ + n]
<1>1. info[i] \in Infos
  BY EntryIs
<1>2. info' = [info EXCEPT ![i] = e]
  BY <1>1 DEF AddRefs, TypeOK
<1>3. e \in Infos /\ e.in = info[i].in /\ e.type = info[i].type /\ e.marked = info[i].marked
  BY <1>1 DEF Infos
<1> HIDE DEF e
<1>4. \A j \in Ids : /\ info'[j].in = info[j].in /\ info'[j].type = info[j].type
                     /\ info'[j].marked = info[j].marked
  BY <1>2, <1>3 DEF TypeOK
<1>5. TypeOK'
  <2>1. info' \in [Ids -> Infos \cup {NoInfo}]
    BY <1>2, <1>3 DEF TypeOK
  <2> QED  BY <2>1 DEF TypeOK, AddRefs
<1>6. \A t : Entries(t)' = Entries(t) /\ Members(t)' = Members(t)
  BY <1>4 DEF Entries, Members
<1>7. FreshInv' /\ FreedOnce' /\ MembersAgree'
  BY <1>4, <1>6 DEF FreshInv, FreedOnce, MembersAgree, AddRefs
<1>8. CursorSafe' /\ CallsInv'
  <2>1. /\ clear' = clear /\ calls' = calls /\ next' = next /\ late' = late
    BY DEF AddRefs
  <2>2. CursorSafe'
    BY <1>6, <2>1 DEF CursorSafe
  <2>3. CallsInv'
    BY <1>4, <2>1, CallsAre DEF CallsInv
  <2> QED  BY <2>2, <2>3
<1>9. ClearInv'
  BY <1>6 DEF ClearInv, AddRefs
<1> QED  BY <1>5, <1>7, <1>8, <1>9

\* An identifier goes: its entry leaves the table or is marked, and its type
\* counts one member less, which was not one any more if it is late.
Goes(i) ==
  /\ info[i].in
  /\ \/ \E h \in Nat : info' = [info EXCEPT ![i] = [@ EXCEPT !.marked = TRUE, !.held = h]]
     \/ info' = [info EXCEPT ![i] = NoInfo] /\ ~marking
  /\ id_count' = [id_count EXCEPT ![info[i].type] = @ - 1]
  /\ frees' \in {frees, [frees EXCEPT ![i] = @ + 1]}
  /\ late \subseteq late' /\ late' \subseteq late \cup {i}
  /\ i \in late' \/ ~info[i].marked
  /\ next' = next

\* What is said of entries and members survives that, and during a clear no
\* entry leaves a table.
LEMMA GoesLemma ==
  ASSUME IInv, NEW i \in Ids, Goes(i)
  PROVE  /\ info' \in [Ids -> Infos \cup {NoInfo}] /\ id_count' \in [Types -> Int]
         /\ frees' \in [Ids -> Nat] /\ late' \in SUBSET Ids
         /\ FreshInv' /\ MembersAgree' /\ FreedOnce'
         /\ \A j \in Ids \ {i} : info'[j] = info[j]
         /\ \A t : marking => Entries(t)' = Entries(t)
         /\ \A t : Members(t)' \subseteq Members(t) \ {i}
<1> USE DEF IInv
<1>1. info[i] \in Infos /\ info[i].in /\ info[i].type \in Types
  BY EntryIs DEF Goes
<1>2. PICK e \in Infos \cup {NoInfo} :
        /\ info' = [info EXCEPT ![i] = e]
        /\ e.marked \/ ~e.in
        /\ marking => e.in /\ e.type = info[i].type
  <2>1. ASSUME NEW h \in Nat, info' = [info EXCEPT ![i] = [@ EXCEPT !.marked = TRUE, !.held = h]]
        PROVE  \E e \in Infos : /\ info' = [info EXCEPT ![i] = e]
                                /\ e.marked /\ e.in /\ e.type = info[i].type
    <3> DEFINE e == [info[i] EXCEPT !.marked = TRUE, !.held = h]
    <3>1. e \in Infos /\ e.marked /\ e.in /\ e.type = info[i].type
      BY <1>1 DEF Infos
    <3>2. info' = [info EXCEPT ![i] = e]
      BY <2>1 DEF TypeOK
    <3> HIDE DEF e
    <3> QED  BY <3>1, <3>2
  <2>2. CASE info' = [info EXCEPT ![i] = NoInfo] /\ ~marking
    BY <2>2 DEF NoInfo
  <2> QED  BY <2>1, <2>2 DEF Goes
<1>3. /\ info' \in [Ids -> Infos \cup {NoInfo}]
      /\ \A j \in Ids \ {i} : info'[j] = info[j]
  BY <1>2 DEF TypeOK
<1>a. /\ id_count' = [id_count EXCEPT ![info[i].type] = @ - 1]
      /\ frees' = frees \/ frees' = [frees EXCEPT ![i] = @ + 1]
      /\ late \subseteq late' /\ late' \subseteq late \cup {i}
      /\ i \in late' \/ ~info[i].marked
      /\ next' = next
  BY DEF Goes
<1>b. frees \in [Ids -> Nat] /\ late \in SUBSET Ids /\ id_count \in [Types -> Int]
  BY DEF TypeOK
<1>4. frees' \in [Ids -> Nat] /\ late' \in SUBSET Ids
  BY <1>a, <1>b
<1>5. id_count' \in [Types -> Int]
  BY <1>1, <1>a, <1>b
<1>6. \A t : Members(t)' = Members(t) \ {i}
  BY <1>1, <1>2 DEF TypeOK, Members, Entries
<1>7. \A t : marking => Entries(t)' = Entries(t)
  BY <1>1, <1>2 DEF TypeOK, Entries
<1>8. \A j \in Ids \ {i} : frees'[j] = frees[j]
  BY <1>a, <1>b
<1>9. FreshInv'
  <2>1. \A j \in Ids \ {i} : j \in late' => j \in late
    BY <1>a
  <2>2. i < next /\ next' = next
    BY <1>1, <1>a, BoundsAssumption DEF FreshInv, TypeOK, Ids
  <2> QED  BY <1>3, <1>8, <2>1, <2>2, BoundsAssumption DEF FreshInv, TypeOK, Ids
<1>10. FreedOnce'
  <2>1. ASSUME i \notin late' PROVE frees'[i] <= 1
    <3>1. frees[i] = 0
      BY <1>1, <1>a, <2>1 DEF MembersAgree
    <3> QED  BY <1>a, <1>b, <3>1
  <2> QED  BY <1>8, <1>a, <2>1 DEF FreedOnce
<1>11. MembersAgree'
  <2>1. ASSUME late' = {} PROVE \A t \in Types : id_count'[t] = Cardinality(Members(t)')
    <3>1. /\ \A t \in Types : Members(t) \in SUBSET Ids
          /\ \A t \in Types : id_count[t] = Cardinality(Members(t))
      BY <1>a, <2>1 DEF Members, Entries, MembersAgree
    <3>2. \A t \in Types : id_count'[t] = IF t = info[i].type THEN id_count[t] - 1 ELSE id_count[t]
      BY <1>1, <1>a, <1>b
    <3>3. i \in Members(info[i].type) /\ \A t \in Types \ {info[i].type} : i \notin Members(t)
      BY <1>1, <1>a, <2>1 DEF Members, Entries
    <3>4. ASSUME NEW t \in Types, t = info[i].type PROVE id_count'[t] = Cardinality(Members(t)')
      <4>1. Cardinality(Members(t) \ {i}) = Cardinality(Members(t)) - 1
        BY <3>1, <3>3, <3>4, Countable
      <4> QED  BY <1>6, <3>1, <3>2, <3>4, <4>1
    <3>5. ASSUME NEW t \in Types, t # info[i].type PROVE id_count'[t] = Cardinality(Members(t)')
      <4>1. Members(t)' = Members(t)
        BY <1>6, <3>3, <3>5
      <4> QED  BY <3>1, <3>2, <3>5, <4>1
    <3> QED  BY <3>4, <3>5
  <2>2. \A j \in Ids : info'[j].in /\ ~info'[j].marked => frees'[j] = 0
    BY <1>2, <1>3, <1>8 DEF MembersAgree, TypeOK
  <2> QED  BY <2>1, <2>2 DEF MembersAgree
<1> QED  BY <1>3, <1>4, <1>5, <1>6, <1>7, <1>9, <1>10, <1>11

\* So does what is said of the callbacks that still run, if none of them is of
\* the identifier that goes, or it is late.
LEMMA CallsKept ==
  ASSUME IInv, NEW i \in Ids, Goes(i), Len(calls') \in 0 .. Len(calls),
         \A k \in 1 .. Len(calls') : calls'[k] = calls[k],
         i \in late' \/ \A k \in 1 .. Len(calls') : calls[k].id # i,
         \A k \in 1 .. Len(calls') : calls[k].why = "clear" => clear' = clear
  PROVE  CallsInv'
<1>1. \A k \in 1 .. Len(calls') : k \in 1 .. Len(calls) /\ calls[k].id \in Ids
  BY CallsAre
<1>2. /\ \A j \in Ids \ {i} : info'[j] = info[j]
      /\ late \subseteq late' /\ next' = next
  BY GoesLemma DEF Goes
<1>3. ASSUME NEW k \in 1 .. Len(calls'), calls'[k].id \notin late'
      PROVE  /\ info'[calls'[k].id].in /\ ~info'[calls'[k].id].marked
             /\ \A l \in 1 .. Len(calls') : calls'[l].id = calls'[k].id => l = k
  <2>1. calls[k].id \in Ids \ {i} /\ calls[k].id \notin late /\ k \in 1 .. Len(calls)
    BY <1>1, <1>2, <1>3
  <2>2. /\ info[calls[k].id].in /\ ~info[calls[k].id].marked
        /\ \A l \in 1 .. Len(calls) : calls[l].id = calls[k].id => l = k
    BY <2>1 DEF IInv, CallsInv
  <2> QED  BY <1>1, <1>2, <2>1, <2>2
<1>4. \A k \in 1 .. Len(calls') :
        /\ calls'[k].id < next'
        /\ calls'[k].why = "clear" => clear'.on /\ clear'.item = calls'[k].id /\ k = 1
  BY <1>1, <1>2 DEF IInv, CallsInv
<1> QED  BY <1>3, <1>4 DEF CallsInv

\* What a clear has yet to take is no more after a step that leaves its record
\* alone and adds no member.
LEMMA ClearKept ==
  ASSUME IInv, UNCHANGED <<clear, marking, next, types>>,
         \A t : marking => Entries(t)' = Entries(t),
         \A t : Members(t)' \subseteq Members(t)
  PROVE  CursorSafe' /\ ClearInv'
<1> USE DEF IInv
<1>1. CursorSafe'
  BY ClearIs DEF CursorSafe
<1>2. ClearInv'
  BY DEF ClearInv
<1> QED  BY <1>1, <1>2

\* A removal takes a member whose object nobody is freeing, or is late.
LEMMA RemoveStep ==
  ASSUME IInv, NEW i \in Ids, remove(i)
  PROVE  IInv'
<1> USE DEF IInv
<1>1. info[i] \in Infos /\ info[i].in /\ info[i].held - 1 \in Nat
  <2>1. info[i].in /\ info[i].held > 0
    BY DEF remove, Usable
  <2>2. info[i] \in Infos
    BY <2>1, EntryIs
  <2>3. info[i].held \in Nat
    BY <2>2 DEF Infos
  <2> QED  BY <2>1, <2>2, <2>3
<1>2. late \subseteq late' /\ late' \subseteq late \cup {i} /\ (i \in late' \/ ~Taken(i))
  BY DEF remove, GivenUp
<1>3. Goes(i)
  BY <1>1, <1>2 DEF remove, remove_common, Goes, Taken
<1>4. TypeOK'
  BY <1>3, GoesLemma DEF TypeOK, remove
<1>5. CursorSafe' /\ ClearInv'
  BY <1>3, GoesLemma, ClearKept DEF remove
<1>6. CallsInv'
  <2>1. i \in late' \/ \A k \in 1 .. Len(calls) : calls[k].id # i
    BY <1>2 DEF Taken
  <2>2. calls' = calls /\ clear' = clear /\ Len(calls) \in Nat
    BY CallsAre DEF remove
  <2> QED  BY <1>3, <2>1, <2>2, CallsKept
<1> QED  BY <1>3, <1>4, <1>5, <1>6, GoesLemma

\* Calling the free function adds a callback, of a member that has none, or the
\* identifier is late.
LEMMA CallFreeStep ==
  ASSUME IInv, NEW i \in Ids, info[i].in, NEW why \in Reasons, CallFree(i, why),
         late \subseteq late', late' \subseteq late \cup {i}, i \in late' \/ ~Taken(i),
         why = "clear" => clear.on /\ clear.item = i /\ calls = << >>
  PROVE  IInv'
<1> USE DEF IInv
<1> DEFINE R == [id : Ids, why : Reasons]
<1> DEFINE c == [id |-> i, why |-> why]
<1>1. c \in R /\ calls \in Seq(R)
  BY DEF TypeOK
<1>2. calls' = Append(calls, c)
  BY DEF CallFree
<1>3. c.id = i /\ c.why = why
  OBVIOUS
<1> HIDE DEF R, c
<1>4. /\ calls' \in Seq(R) /\ Len(calls') = Len(calls) + 1 /\ Len(calls) \in Nat
      /\ calls'[Len(calls) + 1] = c
      /\ \A k \in 1 .. Len(calls) : calls'[k] = calls[k]
  BY <1>1, <1>2
<1>a. i < next
  BY BoundsAssumption DEF FreshInv, TypeOK, Ids
<1>5. TypeOK'
  <2>1. calls' \in Seq([id : Ids, why : Reasons])
    BY <1>4 DEF R
  <2> QED  BY <2>1 DEF TypeOK, CallFree
<1>6. FreshInv' /\ MembersAgree' /\ FreedOnce'
  <2>1. \A t : Members(t)' = Members(t)
    BY DEF CallFree, Members, Entries
  <2>2. FreshInv'
    BY <1>a, BoundsAssumption DEF FreshInv, CallFree, TypeOK, Ids
  <2>3. MembersAgree' /\ FreedOnce'
    BY <2>1 DEF MembersAgree, FreedOnce, CallFree
  <2> QED  BY <2>2, <2>3
<1>7. CursorSafe' /\ ClearInv'
  BY ClearKept DEF CallFree, Members, Entries
<1>8. CallsInv'
  <2>1. info' = info /\ next' = next /\ clear' = clear
    BY DEF CallFree
  <2>2. ASSUME NEW k \in 1 .. Len(calls)
        PROVE  /\ calls'[k].id < next
               /\ calls'[k].why = "clear" => clear.on /\ clear.item = calls'[k].id /\ k = 1
               /\ calls'[k].id \notin late' =>
                    /\ info[calls'[k].id].in /\ ~info[calls'[k].id].marked
                    /\ \A l \in 1 .. Len(calls') : calls'[l].id = calls'[k].id => l = k
    <3>1. calls'[k].id \notin late' => calls'[k].id # i
      BY <1>4 DEF Taken
    <3> QED  BY <1>3, <1>4, <3>1 DEF CallsInv
  <2>3. /\ c.id < next
        /\ c.why = "clear" => clear.on /\ clear.item = c.id /\ Len(calls) + 1 = 1
        /\ c.id \notin late' =>
             /\ info[c.id].in /\ ~info[c.id].marked
             /\ \A l \in 1 .. Len(calls') : calls'[l].id = c.id => l = Len(calls) + 1
    <3>1. c.why = "clear" => Len(calls) = 0
      BY <1>3
    <3>2. i \notin late' => \A l \in 1 .. Len(calls) : calls'[l].id # i
      BY <1>4 DEF Taken
    <3>3. \A l \in 1 .. Len(calls') : l \in 1 .. Len(calls) \/ l = Len(calls) + 1
      BY <1>4
    <3> QED  BY <1>a, <1>3, <3>1, <3>2, <3>3 DEF Taken
  <2>4. \A k \in 1 .. Len(calls') : k \in 1 .. Len(calls) \/ (k = Len(calls) + 1 /\ calls'[k] = c)
    BY <1>4
  <2> QED  BY <2>1, <2>2, <2>3, <2>4 DEF CallsInv
<1> QED  BY <1>5, <1>6, <1>7, <1>8

\* When the innermost callback returns the others are as they were, and none of
\* them is of the same identifier, late ones aside.
LEMMA ReturnLemma ==
  ASSUME IInv, calls # << >>, NEW ok \in BOOLEAN, Return(ok)
  PROVE  /\ calls' \in Seq([id : Ids, why : Reasons]) /\ Len(calls') = Len(calls) - 1
         /\ Len(calls') \in 0 .. Len(calls)
         /\ \A k \in 1 .. Len(calls') : calls'[k] = calls[k]
         /\ Callback.id \in late \/ \A k \in 1 .. Len(calls') : calls[k].id # Callback.id
<1> DEFINE R == [id : Ids, why : Reasons]
<1>1. calls \in Seq(R) /\ Len(calls) \in 1 .. Len(calls) /\ Len(calls) \in Nat \ {0}
  BY CallsAre DEF IInv, TypeOK
<1> HIDE DEF R
<1>2. calls' = SubSeq(calls, 1, Len(calls) - 1)
  BY DEF Return
<1>3. /\ calls' \in Seq(R) /\ Len(calls') = Len(calls) - 1
      /\ \A k \in 1 .. Len(calls') : calls'[k] = calls[k]
  <2> DEFINE n == Len(calls) - 1
  <2>1. n \in Nat /\ \A k \in 1 .. n : calls[k] \in R
    BY <1>1
  <2> HIDE DEF n
  <2>2. /\ SubSeq(calls, 1, n) \in Seq(R)
        /\ Len(SubSeq(calls, 1, n)) = IF 1 <= n THEN n - 1 + 1 ELSE 0
        /\ \A k \in 1 .. n - 1 + 1 : SubSeq(calls, 1, n)[k] = calls[1 + k - 1]
    BY <2>1, SubSeqProperties
  <2>3. calls' = SubSeq(calls, 1, n)
    BY <1>2 DEF n
  <2>4. Len(calls') = n /\ \A k \in 1 .. n : calls'[k] = calls[k]
    BY <2>1, <2>2, <2>3
  <2> QED  BY <2>2, <2>3, <2>4 DEF n
<1>4. Callback.id \in late \/ \A k \in 1 .. Len(calls') : calls[k].id # Callback.id
  BY <1>1, <1>3 DEF IInv, CallsInv, Callback
<1>5. calls' \in Seq([id : Ids, why : Reasons])
  BY <1>3 DEF R
<1> QED  BY <1>1, <1>3, <1>4, <1>5

\* A callback that returns without a change of its entry leaves all else alone:
\* it failed, or it was late and there was no entry any more.
LEMMA NoChangeLemma ==
  ASSUME IInv, calls # << >>, NEW ok \in BOOLEAN, Return(ok), UNCHANGED <<info, id_count>>,
         ok => ~info[Callback.id].in
  PROVE  /\ frees' \in [Ids -> Nat] /\ FreshInv' /\ MembersAgree' /\ FreedOnce'
         /\ \A t : Entries(t)' = Entries(t) /\ Members(t)' = Members(t)
         /\ (\A k \in 1 .. Len(calls') : calls[k].why = "clear" => clear' = clear) => CallsInv'
<1> USE DEF IInv
<1>1. /\ Callback.id \in Ids /\ late' = late /\ next' = next /\ info' = info
      /\ frees' = IF ok THEN [frees EXCEPT ![Callback.id] = @ + 1] ELSE frees
  BY CallsAre DEF Return
<1>2. ok => Callback.id \in late
  BY CallsAre DEF CallsInv, Callback
<1>3. \A t : Entries(t)' = Entries(t) /\ Members(t)' = Members(t)
  BY DEF Entries, Members
<1>4. frees' \in [Ids -> Nat] /\ \A j \in Ids : frees'[j] = frees[j] \/ (ok /\ j = Callback.id)
  BY <1>1 DEF TypeOK
<1>5. FreshInv' /\ FreedOnce'
  BY <1>1, <1>2, <1>4 DEF FreshInv, FreedOnce
<1>6. MembersAgree'
  BY <1>1, <1>3, <1>4 DEF MembersAgree
<1>7. ASSUME \A k \in 1 .. Len(calls') : calls[k].why = "clear" => clear' = clear
      PROVE  CallsInv'
  <2>1. \A k \in 1 .. Len(calls') : k \in 1 .. Len(calls) /\ calls'[k] = calls[k]
    BY ReturnLemma, CallsAre
  <2> QED  BY <1>1, <1>7, <2>1 DEF CallsInv
<1> QED  BY <1>3, <1>4, <1>5, <1>6, <1>7

\* Dropping the last reference: after the callback the identifier goes, or it
\* stays as it is.
LEMMA DecRefReturnStep ==
  ASSUME IInv, NEW ok \in BOOLEAN, dec_ref_return(ok)
  PROVE  IInv'
<1> USE DEF IInv
<1> DEFINE i == Callback.id
<1>1. /\ calls # << >> /\ Return(ok) /\ UNCHANGED <<types, next, late, marking, clear>>
      /\ \/ remove_common(i, 0)
         \/ ~ok /\ UNCHANGED <<info, id_count>>
  BY DEF dec_ref_return, Return
<1>2. /\ i \in Ids /\ frees' \in {frees, [frees EXCEPT ![i] = @ + 1]}
      /\ i \notin late => ~info[i].marked
  BY <1>1, CallsAre DEF Return, CallsInv, Callback
<1>3. /\ calls' \in Seq([id : Ids, why : Reasons]) /\ Len(calls') \in 0 .. Len(calls)
      /\ \A k \in 1 .. Len(calls') : calls'[k] = calls[k]
      /\ i \in late \/ \A k \in 1 .. Len(calls') : calls[k].id # i
  BY <1>1, ReturnLemma
<1> HIDE DEF i
<1>4. CASE info[i].in /\ remove_common(i, 0)
  <2>1. Goes(i)
    BY <1>1, <1>2, <1>4 DEF remove_common, Goes
  <2>2. TypeOK' /\ FreshInv' /\ MembersAgree' /\ FreedOnce'
    BY <1>1, <1>2, <1>3, <2>1, GoesLemma DEF TypeOK
  <2>3. CallsInv'
    BY <1>1, <1>2, <1>3, <2>1, CallsKept
  <2>4. CursorSafe' /\ ClearInv'
    BY <1>1, <1>2, <2>1, GoesLemma, ClearKept
  <2> QED  BY <2>2, <2>3, <2>4
<1>5. CASE ~(info[i].in /\ remove_common(i, 0))
  <2>1. UNCHANGED <<info, id_count>> /\ (ok => ~info[i].in)
    BY <1>1, <1>5 DEF remove_common
  <2>2. /\ frees' \in [Ids -> Nat] /\ FreshInv' /\ MembersAgree' /\ FreedOnce' /\ CallsInv'
        /\ \A t : Entries(t)' = Entries(t) /\ Members(t)' = Members(t)
    BY <1>1, <2>1, NoChangeLemma DEF i
  <2>3. TypeOK'
    BY <1>1, <1>3, <2>1, <2>2 DEF TypeOK
  <2>4. CursorSafe' /\ ClearInv'
    BY <1>1, <2>2, ClearKept
  <2> QED  BY <2>2, <2>3, <2>4
<1> QED  BY <1>4, <1>5

-----------------------------------------------------------------------------
\* The walk goes on from an entry that a forced clear has taken: what is left
\* to take is the next entry or behind it.
LEMMA AdvanceLemma ==
  ASSUME IInv, clear.on, clear.item # NULL, Advance, UNCHANGED <<types, next, marking>>,
         \A t : Entries(t)' = Entries(t),
         \A t : Members(t)' \subseteq Members(t),
         clear.force => clear.item \notin Members(clear.type)'
  PROVE  clear' \in Clears /\ CursorSafe' /\ ClearInv'
<1> USE DEF IInv
<1> DEFINE n == IF clear.tmp = NULL THEN NULL ELSE NextEntry(clear.type, clear.tmp)
<1>1. clear \in Clears /\ clear.tmp \in Entries(clear.type) \cup {NULL}
  BY ClearIs
<1>2. n \in Entries(clear.type) \cup {NULL}
  BY <1>1, NextEntryIs, BoundsAssumption DEF Entries, Ids
<1>3. \A j \in Entries(clear.type) : clear.tmp # NULL /\ j > clear.tmp => n # NULL /\ n <= j
  BY <1>1, NextEntryIs, BoundsAssumption DEF Entries, Ids
<1>4. clear' = [clear EXCEPT !.item = clear.tmp, !.tmp = n]
  BY DEF Advance
<1>5. clear.tmp = NULL => n = NULL
  OBVIOUS
<1> HIDE DEF n
<1>6. /\ clear' \in Clears /\ clear'.item = clear.tmp /\ clear'.tmp = n
      /\ clear'.on = clear.on /\ clear'.type = clear.type /\ clear'.force = clear.force
      /\ clear'.destroy = clear.destroy /\ clear'.atCall = clear.atCall
  BY <1>1, <1>2, <1>4 DEF Clears, Entries
<1>7. CursorSafe'
  BY <1>1, <1>2, <1>6 DEF CursorSafe
<1>8. ASSUME clear.force, NEW i \in clear.atCall \cap Members(clear.type)'
      PROVE  clear.tmp # NULL /\ (i = clear.tmp \/ (n # NULL /\ i >= n))
  <2>1. i \in clear.atCall \cap Members(clear.type) /\ i # clear.item
    BY <1>6, <1>8
  <2>2. clear.tmp # NULL /\ i >= clear.tmp
    BY <1>8, <2>1 DEF ClearInv
  <2>3. i \in Entries(clear.type) /\ i \in Nat /\ clear.tmp \in Nat /\ n \in Nat
    BY <1>1, <1>2, <2>1, BoundsAssumption DEF Members, Entries, Ids, NULL
  <2> QED  BY <1>3, <2>2, <2>3
<1>9. ClearInv'
  BY <1>5, <1>6, <1>8 DEF ClearInv
<1> QED  BY <1>6, <1>7, <1>9

\* The walk passes over entries that are marked, and those an unforced clear
\* leaves.
LEMMA SkipStep ==
  ASSUME IInv, clear_skip
  PROVE  IInv'
<1> USE DEF IInv
<1>1. \A t : Entries(t)' = Entries(t) /\ Members(t)' = Members(t)
  BY DEF clear_skip, Entries, Members
<1>2. clear.force => clear.item \notin Members(clear.type)'
  BY <1>1 DEF clear_skip, Deletable, Members
<1>3. clear' \in Clears /\ CursorSafe' /\ ClearInv'
  BY <1>1, <1>2, AdvanceLemma DEF clear_skip, Visiting
<1>4. TypeOK' /\ FreshInv' /\ FreedOnce' /\ MembersAgree'
  BY <1>1, <1>3 DEF TypeOK, FreshInv, FreedOnce, MembersAgree, clear_skip
<1>5. CallsInv'
  <2>1. 1 .. Len(calls') = {}
    BY DEF clear_skip, Visiting
  <2> QED  BY <2>1 DEF CallsInv, clear_skip
<1> QED  BY <1>3, <1>4, <1>5

\* The entry the walk is at goes once its callback returned, or, when that failed
\* and the clear is not forced, stays.
LEMMA MarkReturnStep ==
  ASSUME IInv, NEW ok \in BOOLEAN, mark_node_return(ok)
  PROVE  IInv'
<1> USE DEF IInv
<1> DEFINE i == Callback.id
<1>1. /\ calls # << >> /\ Return(ok) /\ UNCHANGED <<types, next, late, marking>>
      /\ IF ok \/ clear.force
         THEN /\ info' = [info EXCEPT ![i].marked = TRUE]
              /\ id_count' = [id_count EXCEPT ![clear.type] = @ - 1]
         ELSE UNCHANGED <<info, id_count>>
      /\ Advance /\ Callback.why = "clear"
  BY DEF mark_node_return, Return
<1>2. /\ i \in Ids /\ clear.on /\ clear.item = i /\ Len(calls) = 1
      /\ i \notin late => ~info[i].marked
      /\ frees' \in {frees, [frees EXCEPT ![i] = @ + 1]}
  BY <1>1, CallsAre DEF CallsInv, Callback, Return
<1>3. /\ clear \in Clears /\ marking /\ clear.item # NULL
      /\ info[i].in /\ info[i].type = clear.type
  <2>1. clear \in Clears /\ marking /\ clear.item \in Entries(clear.type) \cup {NULL}
    BY <1>2, ClearIs
  <2>2. clear.item # NULL
    BY <1>2, BoundsAssumption DEF Ids, NULL
  <2> QED  BY <1>2, <2>1, <2>2 DEF Entries
<1>4. CallsInv' /\ calls' \in Seq([id : Ids, why : Reasons])
  <2>1. Len(calls') = 0 /\ calls' \in Seq([id : Ids, why : Reasons])
    BY <1>1, <1>2, ReturnLemma
  <2>2. 1 .. Len(calls') = {}
    BY <2>1
  <2> QED  BY <2>1, <2>2 DEF CallsInv
<1> HIDE DEF i
<1>5. CASE ok \/ clear.force
  <2>1. Goes(i)
    <3>1. info[i] \in Infos
      BY <1>2, <1>3, EntryIs
    <3>2. [info[i] EXCEPT !.marked = TRUE] = [info[i] EXCEPT !.marked = TRUE, !.held = info[i].held]
      BY <3>1 DEF Infos
    <3>3. info[i].held \in Nat
      BY <3>1 DEF Infos
    <3>4. \E h \in Nat : info' = [info EXCEPT ![i] = [@ EXCEPT !.marked = TRUE, !.held = h]]
      BY <1>1, <1>2, <1>5, <3>2, <3>3 DEF TypeOK
    <3> QED  BY <1>1, <1>2, <1>3, <1>5, <3>4 DEF Goes
  <2>2. /\ \A t : Entries(t)' = Entries(t) /\ Members(t)' \subseteq Members(t) \ {i}
        /\ FreshInv' /\ MembersAgree' /\ FreedOnce'
    BY <1>2, <1>3, <2>1, GoesLemma
  <2>3. clear' \in Clears /\ CursorSafe' /\ ClearInv'
    BY <1>1, <1>2, <1>3, <2>2, AdvanceLemma
  <2>4. TypeOK'
    BY <1>1, <1>2, <1>4, <2>1, <2>3, GoesLemma DEF TypeOK
  <2> QED  BY <1>4, <2>2, <2>3, <2>4
<1>6. CASE ~(ok \/ clear.force)
  <2>1. UNCHANGED <<info, id_count>> /\ ~clear.force /\ ~ok
    BY <1>1, <1>6
  <2>2. /\ \A t : Entries(t)' = Entries(t) /\ Members(t)' \subseteq Members(t)
        /\ FreshInv' /\ MembersAgree' /\ FreedOnce' /\ frees' \in [Ids -> Nat]
    BY <1>1, <2>1, NoChangeLemma
  <2>3. clear' \in Clears /\ CursorSafe' /\ ClearInv'
    BY <1>1, <1>2, <1>3, <2>1, <2>2, AdvanceLemma
  <2>4. TypeOK'
    BY <1>1, <1>4, <2>1, <2>2, <2>3 DEF TypeOK
  <2> QED  BY <1>4, <2>2, <2>3, <2>4
<1> QED  BY <1>5, <1>6

\* A clear begins at the head of the table: all members are at it or behind.
LEMMA ClearTypeStep ==
  ASSUME IInv, NEW t \in Types, NEW force \in BOOLEAN, NEW app_ref \in BOOLEAN,
         NEW destroy \in BOOLEAN, clear_type(t, force, app_ref, destroy)
  PROVE  IInv'
<1> USE DEF IInv
<1> DEFINE head == NextEntry(t, NULL)
           second == IF head = NULL THEN NULL ELSE NextEntry(t, head)
           atCall == IF force THEN Members(t) ELSE {}
<1>1. head \in Entries(t) \cup {NULL} /\ second \in Entries(t) \cup {NULL}
  BY NextEntryIs, BoundsAssumption DEF Entries, Ids, NULL
<1>2. \A j \in Members(t) : head # NULL /\ (j = head \/ (second # NULL /\ j >= second))
  <2> TAKE j \in Members(t)
  <2>1. j \in Entries(t) /\ j \in Nat /\ j > NULL
    BY BoundsAssumption DEF Members, Entries, Ids, NULL
  <2>2. head # NULL /\ head <= j
    BY <2>1, NextEntryIs DEF NULL
  <2>3. head \in Nat
    BY <1>1, BoundsAssumption DEF Entries, Ids, NULL
  <2>4. j > head => second # NULL /\ second <= j
    BY <2>1, <2>2, <2>3, NextEntryIs
  <2>5. second \in Nat
    BY <1>1, BoundsAssumption DEF Entries, Ids, NULL
  <2> HIDE DEF head, second
  <2> QED  BY <2>1, <2>2, <2>3, <2>4, <2>5
<1>3. clear' = [on |-> TRUE, type |-> t, force |-> force, app_ref |-> app_ref,
                destroy |-> destroy, item |-> head, tmp |-> second, atCall |-> atCall]
  BY DEF clear_type
<1>4. head = NULL => second = NULL
  OBVIOUS
<1>5. atCall \in SUBSET Ids /\ \A i \in atCall : i \in Members(t) /\ i < next
  <2>1. \A i \in Members(t) : i \in Ids /\ info[i].in
    BY DEF Members, Entries
  <2>2. \A i \in Members(t) : i < next
    <3>1. next \in Int /\ \A i \in Ids : i \in Int /\ (i >= next => ~info[i].in)
      BY BoundsAssumption DEF FreshInv, TypeOK, Ids
    <3> QED  BY <2>1, <3>1
  <2> QED  BY <2>1, <2>2
<1>a. (force => atCall = Members(t)) /\ (destroy => force)
  BY DEF clear_type
<1> HIDE DEF head, second, atCall
<1>6. /\ marking' = TRUE /\ t \in types /\ calls = << >>
      /\ types' = types /\ id_count' = id_count /\ next' = next /\ info' = info
      /\ frees' = frees /\ late' = late /\ calls' = calls
  BY DEF clear_type
<1>7. \A s : Entries(s)' = Entries(s) /\ Members(s)' = Members(s)
  BY <1>6 DEF Entries, Members
<1>8. clear' \in Clears
  <2>1. head \in Ids \cup {NULL} /\ second \in Ids \cup {NULL}
    BY <1>1 DEF Entries
  <2> QED  BY <1>3, <1>5, <2>1 DEF Clears
<1>9. TypeOK' /\ FreshInv' /\ FreedOnce' /\ MembersAgree'
  BY <1>6, <1>7, <1>8 DEF TypeOK, FreshInv, FreedOnce, MembersAgree
<1>10. CallsInv'
  <2>1. 1 .. Len(calls') = {}
    BY <1>6
  <2> QED  BY <1>6, <2>1 DEF CallsInv
<1>11. CursorSafe'
  BY <1>1, <1>3, <1>7 DEF CursorSafe
<1>12. ClearInv'
  BY <1>2, <1>3, <1>4, <1>5, <1>6, <1>7, <1>a DEF ClearInv
<1> QED  BY <1>9, <1>10, <1>11, <1>12

\* The sweep takes no member: the marked entries are none, and of a type that
\* is destroyed none is left.
LEMMA SweepStep ==
  ASSUME IInv, clear_sweep
  PROVE  IInv'
<1> USE DEF IInv
<1>1. clear.destroy => Members(clear.type) = {}
  BY DEF clear_sweep, ClearInv
<1>2. \A i \in Ids : /\ info'[i] = info[i] \/ info'[i] = NoInfo
                     /\ info[i].in /\ ~info[i].marked => info'[i] = info[i]
  BY <1>1 DEF clear_sweep, Members, Entries
<1>3. \A i \in Ids : (info'[i].in /\ ~info'[i].marked) <=> (info[i].in /\ ~info[i].marked)
  BY <1>2 DEF NoInfo
<1>4. \A t : Members(t)' = Members(t)
  BY <1>2, <1>3 DEF Members, Entries, NoInfo
<1>5. clear' = NoClear /\ clear'.on = FALSE /\ calls' = calls /\ calls = << >>
  BY DEF clear_sweep, NoClear
<1>6. TypeOK'
  <2>1. info' \in [Ids -> Infos \cup {NoInfo}]
    BY DEF TypeOK, clear_sweep
  <2> QED  BY <1>5, <2>1 DEF TypeOK, clear_sweep
<1>7. FreshInv' /\ FreedOnce'
  BY <1>2 DEF FreshInv, FreedOnce, clear_sweep, NoInfo
<1>8. MembersAgree'
  BY <1>3, <1>4 DEF MembersAgree, clear_sweep
<1>9. CallsInv'
  <2>1. 1 .. Len(calls') = {}
    BY <1>5
  <2> QED  BY <1>5, <2>1 DEF CallsInv, clear_sweep
<1>10. CursorSafe' /\ ClearInv'
  BY <1>5 DEF CursorSafe, ClearInv, clear_sweep
<1> QED  BY <1>6, <1>7, <1>8, <1>9, <1>10

-----------------------------------------------------------------------------
\* A step that changes nothing keeps the invariant.
LEMMA StutterStep == IInv /\ UNCHANGED vars => IInv'
<1> SUFFICES ASSUME IInv, UNCHANGED vars PROVE IInv'
  OBVIOUS
<1>1. \A t : Entries(t)' = Entries(t) /\ Members(t)' = Members(t)
  BY DEF vars, Entries, Members
<1> QED
  BY <1>1 DEF vars, IInv, TypeOK, FreshInv, MembersAgree, CursorSafe, FreedOnce, CallsInv, ClearInv

\* Every step keeps the invariant.
LEMMA NextLemma == IInv /\ [Next]_vars => IInv'
<1> SUFFICES ASSUME IInv, [Next]_vars PROVE IInv'
  OBVIOUS
<1>1. ASSUME NEW t \in Types, NEW app_ref \in BOOLEAN, register(t, app_ref) PROVE IInv'
  BY <1>1, RegisterStep
<1>2. ASSUME NEW i \in Ids, Usable(i)
      PROVE  /\ info[i].in /\ info[i].count \in Nat /\ info[i].app_count \in Nat
             /\ info[i].held \in Nat /\ info[i].held > 0
  BY <1>2, EntryIs DEF Usable, Infos
<1>3. ASSUME NEW i \in Ids, NEW app_ref \in BOOLEAN, inc_ref(i, app_ref) PROVE IInv'
  BY <1>2, <1>3, CountsStep DEF inc_ref
<1>4. ASSUME NEW i \in Ids, dec_ref(i) PROVE IInv'
  <2>1. /\ info[i].in /\ AddRefs(i, -1, 0)
        /\ info[i].count + (-1) \in Nat /\ info[i].app_count + 0 \in Nat
        /\ info[i].held + (-1) \in Nat
    BY <1>2, <1>4 DEF dec_ref
  <2> QED  BY <2>1, CountsStep
<1>5. ASSUME NEW i \in Ids, dec_app_ref(i) PROVE IInv'
  <2>1. /\ info[i].in /\ AddRefs(i, -1, -1)
        /\ info[i].count + (-1) \in Nat /\ info[i].app_count + (-1) \in Nat
        /\ info[i].held + (-1) \in Nat
    BY <1>2, <1>5 DEF dec_app_ref
  <2> QED  BY <2>1, CountsStep
<1>6. ASSUME NEW i \in Ids, remove(i) PROVE IInv'
  BY <1>6, RemoveStep
<1>7. ASSUME NEW i \in Ids, NEW why \in {"dec_ref", "always_close"}, dec_ref_last(i, why)
      PROVE IInv'
  <2>1. late \subseteq late' /\ late' \subseteq late \cup {i} /\ (i \in late' \/ ~Taken(i))
    BY <1>7 DEF dec_ref_last, GivenUp
  <2> QED  BY <1>7, <2>1, CallFreeStep DEF dec_ref_last, Usable, Reasons
<1>8. ASSUME NEW t \in Types, NEW force \in BOOLEAN, NEW app_ref \in BOOLEAN,
             NEW destroy \in BOOLEAN, clear_type(t, force, app_ref, destroy)
      PROVE IInv'
  BY <1>8, ClearTypeStep
<1>9. ASSUME clear_skip PROVE IInv'
  BY <1>9, SkipStep
<1>10. ASSUME mark_node PROVE IInv'
  <2>1. clear.item \in Ids /\ info[clear.item].in /\ ~info[clear.item].marked
    BY <1>10, ClearIs DEF mark_node, Visiting, Entries
  <2>2. ~Taken(clear.item)
    <3>1. 1 .. Len(calls) = {}
      BY <1>10 DEF mark_node, Visiting
    <3> QED  BY <2>1, <3>1 DEF Taken
  <2> QED  BY <1>10, <2>1, <2>2, CallFreeStep DEF mark_node, Visiting, Reasons
<1>11. ASSUME clear_sweep PROVE IInv'
  BY <1>11, SweepStep
<1>12. ASSUME NEW ok \in BOOLEAN, dec_ref_return(ok) PROVE IInv'
  BY <1>12, DecRefReturnStep
<1>13. ASSUME NEW ok \in BOOLEAN, mark_node_return(ok) PROVE IInv'
  BY <1>13, MarkReturnStep
<1>14. CASE IdOps
  BY <1>1, <1>3, <1>4, <1>5, <1>6, <1>7, <1>14 DEF IdOps
<1>15. CASE ClearOps
  BY <1>8, <1>9, <1>10, <1>11, <1>15 DEF ClearOps
<1>16. CASE Returns
  BY <1>12, <1>13, <1>16 DEF Returns
<1> QED  BY <1>14, <1>15, <1>16, StutterStep DEF Next

\* The invariant holds in every reachable state.
THEOREM Invariant == Spec => []IInv
<1> QED
  BY InitLemma, NextLemma, PTL DEF Spec

\* However many identifiers, callbacks and types there are, the variables keep
\* their types.
THEOREM TypeCorrect == Spec => []TypeOK
<1>1. IInv => TypeOK
  BY DEF IInv
<1> QED  BY <1>1, Invariant, PTL

\* As long as nothing was released late, the count a type reports is the number
\* of its members (H5I_nmembers), and the object of a member is never a freed one.
THEOREM MembersAgreeHolds == Spec => []MembersAgree
<1>1. IInv => MembersAgree
  BY DEF IInv
<1> QED  BY <1>1, Invariant, PTL

\* The walk of H5I_clear_type never comes to an entry that has left the table,
\* whatever the free callbacks do.
THEOREM CursorSafeHolds == Spec => []CursorSafe
<1>1. IInv => CursorSafe
  BY DEF IInv
<1> QED  BY <1>1, Invariant, PTL

\* No object is freed twice, unless a holder drops the last reference of its
\* identifier after a clear got to it: the one way to a second call of the free
\* function, whatever else clears, callbacks and holders do.
THEOREM FreedOnceHolds == Spec => []FreedOnce
<1>1. IInv => FreedOnce
  BY DEF IInv
<1> QED  BY <1>1, Invariant, PTL

\* A forced clear leaves nothing that was there when it began.
THEOREM ForcedClearsAllHolds == Spec => []ForcedClearsAll
<1>1. IInv => ForcedClearsAll
  BY DEF IInv, ClearInv, ForcedClearsAll
<1> QED  BY <1>1, Invariant, PTL
=============================================================================
