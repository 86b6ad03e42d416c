------------------------------- MODULE Texts -------------------------------
(***************************************************************************)
(* Who owns the texts on the heap (src/src/memory.c, with the copying of   *)
(* parse.c, model.c and model_support.c).                                  *)
(*                                                                         *)
(* A line becomes an event that owns copies of its texts.  A resource      *)
(* event is copied again into resources[] and its address or target once   *)
(* more into the tables and findings, and the reader frees its own; a call *)
(* event is moved into calls[] as it is.  Any copy and any growth of an    *)
(* array may fail in between.  Which table entry a record finds, and which *)
(* findings a rollback drops, is Replay's subject: here it may be any.     *)
(***************************************************************************)
EXTENDS Integers, Sequences, SequencesExt, FiniteSets

CONSTANTS
    Kinds,          \* the kinds of records the resource log may hold
    MaxRecords,     \* bound on the records of both logs
    MaxFindings     \* bound on the findings of the lifecycle library

Kind == {"FD", "FORK", "ALLOC", "FREE", "REALLOC", "SPAWN", "EXEC", "EXEC_FAIL", "GENERIC"}

ASSUME TextsAssumption ==
    Kinds \subseteq Kind /\ MaxRecords \in Nat /\ MaxFindings \in Nat

VARIABLES
    live,           \* the blocks of the heap that are in use
    event,          \* the texts of the reader's event; 0 is NULL here and below
    kind,           \* its kind
    sites, resources, calls,        \* the texts of these arrays
    allocs, freed_allocs,           \* the text of each entry
    findings,       \* the texts of each finding
    phase,          \* where the run stands
    refused,        \* a call found no room in calls[]
    records,        \* records read so far
    err

vars == <<live, event, kind, sites, resources, calls, allocs, freed_allocs, findings,
          phase, refused, records, err>>

tables == <<sites, resources, calls, allocs, freed_allocs, findings>>

\* The pointers of struct report_model, and with the event's all the program will
\* read or free.
Model == <<sites, resources, calls, allocs, freed_allocs>> \o findings

Rows == <<event>> \o Model

TextsIn(rows) == UNION {ToSet(rows[r]) : r \in DOMAIN rows}

Init ==
    /\ live = {} /\ event = <<>> /\ kind = "FD"
    /\ sites = <<>> /\ resources = <<>> /\ calls = <<>>
    /\ allocs = <<>> /\ freed_allocs = <<>> /\ findings = <<>>
    /\ phase = "resources" /\ refused = FALSE /\ records = 0 /\ err = FALSE

\* The addresses up to b that are free.
Free(heap, b) == {c \in 1 .. b : c \notin heap}

\* The k-th address the heap gives out next: one is used again once it is free.
Fresh(heap, k) ==
    CHOOSE b \in 1 .. Cardinality(heap) + k : b \notin heap /\ Cardinality(Free(heap, b)) = k

\* n calls of p101_report_dup_text, some of which may fail.
Copied(heap, n) ==
    {LET texts == [k \in 1 .. n |-> IF k \in failed THEN 0 ELSE Fresh(heap, k)]
     IN  [ok |-> failed = {}, texts |-> texts, heap |-> heap \cup (ToSet(texts) \ {0})]
       : failed \in SUBSET (1 .. n)}

\* What interning a site may come to: known, no room, or copied into the table.
Interned(heap) ==
    {[ok |-> TRUE, texts |-> <<>>, heap |-> heap], [ok |-> FALSE, texts |-> <<>>, heap |-> heap]}
      \cup Copied(heap, 2)

-----------------------------------------------------------------------------
(* resources.log                                                           *)

TextsOf(k) ==
    CASE k \in {"ALLOC", "FREE", "REALLOC"}     -> 2
      [] k \in {"SPAWN", "EXEC", "EXEC_FAIL"} -> 1
      [] k = "GENERIC"                         -> 4
      [] k \in {"FD", "FORK"}                 -> 0

ParseResource(k) ==
    /\ phase = "resources" /\ ~err /\ records < MaxRecords
    /\ \E copy \in Copied(live, TextsOf(k)) : \E in \in Interned(copy.heap) :
         /\ event' = copy.texts /\ kind' = k
         /\ sites' = sites \o in.texts
         /\ live' = in.heap
         /\ err' = ~(copy.ok /\ in.ok)
         /\ phase' = IF copy.ok /\ in.ok THEN "store" ELSE "release"
    /\ records' = records + 1
    /\ UNCHANGED <<resources, calls, allocs, freed_allocs, findings, refused>>

\* p101_report_add_resource_event; an attempt that could not be settled leaves an
\* error that spoils the copy too.
StoreResource == \E settled, grown \in BOOLEAN, copy \in Copied(live, Len(event)) :
    /\ phase = "store"
    /\ IF settled /\ grown /\ copy.ok
          THEN /\ resources' = resources \o copy.texts
               /\ live' = copy.heap /\ phase' = "tables"
               /\ UNCHANGED err
          ELSE /\ err' = TRUE /\ phase' = "release"
               /\ UNCHANGED <<resources, live>>
    /\ UNCHANGED <<event, kind, sites, calls, allocs, freed_allocs, findings, refused, records>>

\* allocs without entry i: the last one takes its place.
Without(table, i) == Front([table EXCEPT ![i] = Last(table)])

DropKept(heap, i) ==                    \* mutant: the entry's text is not freed
    [heap |-> heap, allocs |-> IF i = 0 THEN allocs ELSE Without(allocs, i)]

\* The release of entry i, 0 where the block is not in the table.
Drop(heap, i) ==
    [heap   |-> IF i = 0 THEN heap ELSE heap \ {allocs[i]},
     allocs |-> IF i = 0 THEN allocs ELSE Without(allocs, i)]

\* ALLOC, FREE and REALLOC.  An entry whose text could not be copied is counted.
TableOfBlocks ==
    \E i \in IF kind = "ALLOC" THEN {0} ELSE 0 .. Len(allocs), handed, grown \in BOOLEAN :
      LET dropped == Drop(live, i)
      IN  \/ /\ kind = "FREE"             \* freed_allocs grows before the entry goes
             /\ \E copy \in Copied(live, IF i # 0 /\ grown THEN 1 ELSE 0) :
                  /\ freed_allocs' = freed_allocs \o copy.texts
                  /\ live' = Drop(copy.heap, i).heap
                  /\ err' = ~(handed /\ copy.ok /\ (i = 0 \/ grown))
             /\ allocs' = dropped.allocs
          \/ /\ kind \in {"ALLOC", "REALLOC"}
             /\ \E yields \in BOOLEAN :     \* an address was had
                \E copy \in Copied(dropped.heap, IF yields /\ grown THEN 1 ELSE 0) :
                  /\ allocs' = dropped.allocs \o copy.texts
                  /\ live' = copy.heap
                  /\ err' = ~(handed /\ copy.ok /\ (grown \/ ~yields))
             /\ UNCHANGED freed_allocs

\* p101_report_add_finding_internal for a finding that borrows n texts, with the
\* blocks and the error its caller has got so far.
AddFinding(heap, n, failed) == \E grown \in BOOLEAN, copy \in Copied(heap, n) :
    IF grown /\ copy.ok /\ ~failed
    THEN findings' = Append(findings, copy.texts) /\ live' = copy.heap /\ err' = FALSE
    ELSE live' = heap /\ err' = TRUE /\ UNCHANGED findings

\* The rest of p101_report_ingest_resource; handing the record to the lifecycle
\* library may fail and does not end it.
Tables ==
    /\ phase = "tables" /\ phase' = "release"
    /\ \/ kind \in {"ALLOC", "FREE", "REALLOC"} /\ TableOfBlocks /\ UNCHANGED findings
       \/ /\ kind = "EXEC" /\ \E handed \in BOOLEAN : AddFinding(live, 1, ~handed)
          /\ UNCHANGED <<allocs, freed_allocs>>
       \/ /\ kind = "EXEC_FAIL"
          /\ \E k \in 0 .. Len(findings) : \E kept \in [1 .. k -> DOMAIN findings] :
               /\ \A m, n \in 1 .. k : m < n => kept[m] < kept[n]
               /\ findings' = [n \in 1 .. k |-> findings[kept[n]]]
               /\ live' = live \ UNION {ToSet(findings[n]) :
                                           n \in {d \in DOMAIN findings : \A m \in 1 .. k : d # kept[m]}}
          /\ err' \in BOOLEAN
          /\ UNCHANGED <<allocs, freed_allocs>>
       \/ /\ kind \in {"FD", "FORK", "SPAWN", "GENERIC", "EXEC"}
          /\ err' \in BOOLEAN
          /\ UNCHANGED <<allocs, freed_allocs, findings, live>>
    /\ UNCHANGED <<event, kind, sites, resources, calls, refused, records>>

\* p101_report_free_resource_event, p101_report_free_call_event
Release(from, to) ==
    /\ phase = from /\ phase' = to
    /\ live' = live \ ToSet(event) /\ event' = <<>>
    /\ UNCHANGED <<kind, tables, refused, records, err>>

-----------------------------------------------------------------------------
(* calls.log                                                               *)

Turn(from, to) == phase = from /\ phase' = to /\ UNCHANGED <<live, event, kind, tables, refused, records, err>>

ParseCall ==
    /\ phase = "calls" /\ ~err /\ records < MaxRecords
    /\ \E copy \in Copied(live, 5) :
         /\ event' = copy.texts /\ live' = copy.heap /\ err' = ~copy.ok
         /\ phase' = IF copy.ok THEN "add" ELSE "release_call"
    /\ records' = records + 1
    /\ UNCHANGED <<kind, tables, refused>>

NotZeroed(texts) == texts               \* mutant: the event is not cleared

\* What is left of the event once p101_report_add_call has returned.
Zeroed(texts) == <<>>

\* The texts move into calls[]; where there is no room they are forgotten.
AddCall == \E grown \in BOOLEAN :
    /\ phase = "add" /\ phase' = "release_call"
    /\ calls' = IF grown THEN calls \o event ELSE calls
    /\ event' = Zeroed(event)
    /\ refused' = ~grown /\ err' = ~grown
    /\ UNCHANGED <<live, kind, sites, resources, allocs, freed_allocs, findings, records>>

-----------------------------------------------------------------------------
(* The end of a run.                                                       *)

\* A round of p101_report_finalize_generic: two sites may be interned.
FinalizeOne == \E n \in 2 .. 3, one \in Interned(live) : \E two \in Interned(one.heap) :
    /\ phase = "finalize" /\ ~err /\ Len(findings) < MaxFindings
    /\ sites' = sites \o one.texts \o two.texts
    /\ AddFinding(two.heap, n, ~(one.ok /\ two.ok))
    /\ UNCHANGED <<event, kind, resources, calls, allocs, freed_allocs, phase, refused, records>>

\* p101_report_free_model
FreeModel ==
    /\ phase = "free" /\ phase' = "done"
    /\ live' = live \ TextsIn(Model)
    /\ sites' = <<>> /\ resources' = <<>> /\ calls' = <<>>
    /\ allocs' = <<>> /\ freed_allocs' = <<>> /\ findings' = <<>>
    /\ UNCHANGED <<event, kind, refused, records, err>>

Next ==
    \/ \E k \in Kinds : ParseResource(k)
    \/ StoreResource \/ Tables \/ Release("release", "resources")
    \/ Turn("resources", "calls")
    \/ ParseCall \/ AddCall \/ Release("release_call", "calls")
    \/ Turn("calls", IF err THEN "free" ELSE "finalize")
    \/ FinalizeOne \/ Turn("finalize", "free")
    \/ FreeModel

Spec == Init /\ [][Next]_vars

-----------------------------------------------------------------------------
(* Properties.                                                             *)

\* Each text is held in one place and is in use as long as it is held: nothing is
\* freed twice or read after it was freed, through every failure (memory.c:11-87,
\* parse.c:55-161, model.c:84-151, 374-391, 434-479, reader.c:92, 149, 178).
OneOwner ==
    \A r, s \in DOMAIN Rows : \A i \in DOMAIN Rows[r], j \in DOMAIN Rows[s] :
      Rows[r][i] # 0 =>
        /\ Rows[r][i] \in live
        /\ Rows[r][i] = Rows[s][j] => r = s /\ i = j

\* No text is forgotten while the program runs or after it freed its model, except
\* those of a call that found no room: its event is cleared all the same
\* (reader.c:148-149).
NothingIsForgotten == ~refused => live \subseteq TextsIn(Rows)
=============================================================================
