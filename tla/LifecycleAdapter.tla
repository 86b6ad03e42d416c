------------------------- MODULE LifecycleAdapter -------------------------
(***************************************************************************)
(* The adapter to the lifecycle library (src/src/model_generic.c).         *)
(*                                                                         *)
(* Every stored record but SPAWN is handed to the library of               *)
(* lib_tool_event, which keeps its own model and, when the stream has      *)
(* ended, returns findings that name records by (pid, context, producer's  *)
(* number, class).  The adapter turns each one into a diagnostic and       *)
(* searches the stored log for the record it names: once for its place in  *)
(* the log, once for what it holds.                                        *)
(*                                                                         *)
(* The library is external: any record it was given may be the subject of  *)
(* a finding of any kind, together with an earlier record of the same      *)
(* process and class.  The producers number the records of one context     *)
(* upwards from 1; in the image an exec brings in the numbers may start    *)
(* again.  What the adapter asks of it: it reports on no record it was not *)
(* given, and files a finding under the process that logged the record     *)
(* (so the last return of the search, model_generic.c:318, is not reached  *)
(* here).  It need not set the error when it fails: none of its three      *)
(* results is followed by a look at the error.                             *)
(***************************************************************************)
EXTENDS Integers, Sequences, FiniteSets

CONSTANTS
    Pid, Context,   \* processes and their contexts (threads)
    Class,          \* classes of generic resources
    Kinds,          \* the kinds of records the log may hold
    Null,           \* the class of a record that is not generic
    Outcomes,       \* results a memory request may have: TRUE is success
    MaxRecords,     \* bound on the records
    MaxLost,        \* bound on the records the library does not take
    MaxReported,    \* bound on the findings of the library
    MaxTotal        \* bound on the records, the lost ones and the findings together

Kind == {"FD_OPEN", "FD_CLOSE", "ALLOC", "FREE", "REALLOC", "FORK", "EXEC", "EXEC_FAIL",
         "SPAWN", "GENERIC"}

LibraryKind ==
    {"LEAK", "DOUBLE_RELEASE", "STRAY_RELEASE", "BAD_REPLACE", "DUPLICATE_ACQUIRE"}

ASSUME AdapterAssumption ==
    /\ Kinds \subseteq Kind
    /\ Null \notin Class /\ Class \cap {"fd", "allocation"} = {}
    /\ Outcomes \subseteq BOOLEAN /\ TRUE \in Outcomes
    /\ MaxRecords \in Nat /\ MaxLost \in Nat /\ MaxReported \in Nat /\ MaxTotal \in Nat

VARIABLES
    resources,          \* model->resources
    clock,              \* clock[p][c]: the last number of context c of process p
    restarted,          \* some process has numbered its records anew
    lifecycle,          \* model->generic_lifecycle is there
    handed,             \* the indices of the records the library has taken
    reported,           \* the findings the library returns
    findings,           \* those of model->findings that come from the library
    phase,              \* where the run stands: reading, adding, done
    generic_finalized,  \* model->generic_finalized
    err

vars == <<resources, clock, restarted, lifecycle, handed, reported, findings, phase,
          generic_finalized, err>>

Record ==
    [kind : Kinds, pid : Pid, context : Context, number : Nat,
     class : Class \cup {Null}]

Log == 1 .. Len(resources)

\* The records the library was given and has not taken.
Lost == {i \in Log : resources[i].kind # "SPAWN" /\ i \notin handed}

\* The class the library gives a record's resource.
ClassOf(i) ==
    CASE resources[i].kind \in {"FD_OPEN", "FD_CLOSE"}        -> "fd"
      [] resources[i].kind \in {"ALLOC", "FREE", "REALLOC"} -> "allocation"
      [] OTHER                                               -> resources[i].class

-----------------------------------------------------------------------------
(* Reading: p101_report_ingest_generic.                                    *)

Init ==
    /\ resources = <<>> /\ lifecycle = FALSE /\ handed = {}
    /\ clock = [p \in Pid |-> [c \in Context |-> 0]]
    /\ reported = <<>> /\ findings = <<>>
    /\ phase = "reading" /\ generic_finalized = FALSE /\ err = FALSE
    /\ restarted = FALSE

\* The library's model is created with the first record that finds none.  Where it
\* cannot be, or does not take the record, the adapter returns without a word: the
\* error is set if the library has set it.
Ingest(kind, p, c, class) == \E created, taken \in Outcomes :
    /\ phase = "reading" /\ ~err /\ Len(resources) < MaxRecords
    /\ class = Null <=> kind # "GENERIC"
    /\ clock' = [clock EXCEPT ![p][c] = @ + 1]
    /\ resources' = Append(resources,
         [kind |-> kind, pid |-> p, context |-> c, number |-> clock[p][c] + 1,
          class |-> class])
    /\ IF kind = "SPAWN" THEN UNCHANGED <<lifecycle, handed, err>>
       ELSE /\ lifecycle' = (lifecycle \/ created)
            /\ handed' = IF lifecycle' /\ taken THEN handed \cup {Len(resources')}
                         ELSE handed
            /\ err' \in {FALSE, ~(lifecycle' /\ taken)}
            /\ ~err' => Cardinality(Lost') <= MaxLost
    /\ UNCHANGED <<restarted, reported, findings, phase, generic_finalized>>

\* The process runs another image (external).
Restart(p) ==
    /\ phase = "reading" /\ ~err
    /\ Len(resources) > 0 /\ resources[Len(resources)].kind = "EXEC"
    /\ resources[Len(resources)].pid = p
    /\ clock' = [clock EXCEPT ![p] = [c \in Context |-> 0]]
    /\ restarted' = TRUE
    /\ UNCHANGED <<resources, lifecycle, handed, reported, findings, phase,
                   generic_finalized, err>>

-----------------------------------------------------------------------------
(* What the library reports (external).                                    *)

\* The finding about record i, with an earlier record j or none (0).  subject and
\* previous are not fields of the library's finding: they say what it is about.
About(kind, i, j) ==
    [kind |-> kind, pid |-> resources[i].pid, class |-> ClassOf(i),
     context |-> resources[i].context, number |-> resources[i].number,
     previous_context |-> IF j = 0 THEN resources[i].context ELSE resources[j].context,
     previous_number |-> IF j = 0 THEN 0 ELSE resources[j].number,
     subject |-> i, previous |-> j]

\* The records the library may hold against record i.
Earlier(i) ==
    {j \in handed : j < i /\ resources[j].pid = resources[i].pid /\ ClassOf(j) = ClassOf(i)}

Reportable ==
    UNION {{About(kind, i, j) : kind \in LibraryKind, j \in {0} \cup Earlier(i)} :
             i \in {m \in handed : ClassOf(m) # Null}}

\* p101_report_finalize_generic up to its loop: without a library model there is
\* nothing to do, and where the library does not finish the adapter returns, again
\* with the error the library has set, if any.
Finish == \E finished \in Outcomes :
    /\ phase = "reading" /\ ~err
    /\ IF lifecycle /\ finished
          THEN /\ \E n \in 0 .. MaxReported :
                    /\ Len(resources) + Cardinality(Lost) + n <= MaxTotal
                    /\ reported' \in [1 .. n -> Reportable]
               /\ phase' = "adding"
               /\ UNCHANGED err
          ELSE /\ phase' = "done"
               /\ err' \in {FALSE, lifecycle}
               /\ UNCHANGED reported
    /\ UNCHANGED <<resources, clock, restarted, lifecycle, handed, findings,
                   generic_finalized>>

-----------------------------------------------------------------------------
(* Adding the findings.                                                    *)

\* p101_report_generic_finding_kind
Diagnostic(f) ==
    CASE f.kind = "DUPLICATE_ACQUIRE" -> "RESOURCE_DUPLICATE_ACQUIRE"
      [] f.class = "fd" /\ f.kind = "LEAK" -> "FD_LEAK"
      [] f.class = "fd" /\ f.kind = "DOUBLE_RELEASE" -> "DOUBLE_CLOSE"
      [] f.class = "fd" /\ f.kind \in {"STRAY_RELEASE", "BAD_REPLACE"} -> "STRAY_CLOSE"
      [] f.class = "allocation" /\ f.kind = "LEAK" -> "ALLOC_LEAK"
      [] f.class = "allocation" /\ f.kind = "DOUBLE_RELEASE" -> "DOUBLE_FREE"
      [] f.class = "allocation" /\ f.kind = "STRAY_RELEASE" -> "STRAY_FREE"
      [] f.class = "allocation" /\ f.kind = "BAD_REPLACE" -> "BAD_REALLOC"
      [] f.class \in Class /\ f.kind # "DUPLICATE_ACQUIRE" -> "RESOURCE_" \o f.kind

NumberedAnywhere(f, context, number) ==                          \* mutant
    {i \in Log : resources[i].pid = f.pid /\ resources[i].number = number}

\* The records of the finding's process with that context and number.
Numbered(f, context, number) ==
    {i \in Log : /\ resources[i].pid = f.pid
                 /\ resources[i].number = number
                 /\ resources[i].context = context}

AnyClass(f, i) == TRUE          \* mutant: the class is not looked at

\* The class test of p101_report_find_generic_sequence: what carries no class is a
\* descriptor's record, or else is taken for an allocation's.
SameClass(f, i) ==
    IF resources[i].class # Null THEN resources[i].class = f.class
    ELSE f.class = IF resources[i].kind \in {"FD_OPEN", "FD_CLOSE"} THEN "fd" ELSE "allocation"

First(S) == CHOOSE i \in S : \A j \in S : i <= j

\* p101_report_find_generic_sequence: the place in the log, or the producer's own
\* number where no record fits.
SequenceOf(f, context, number) ==
    LET fitting == {i \in Numbered(f, context, number) : SameClass(f, i)}
    IN  IF fitting = {} THEN number ELSE First(fitting)

\* p101_report_find_lifecycle_event: the record the finding takes its descriptor,
\* address and size from, 0 for none; it is searched without the class.
EventOf(f) ==
    LET fitting == Numbered(f, f.context, f.number)
    IN  IF fitting = {} THEN 0 ELSE First(fitting)

Translated(f) ==
    [kind |-> Diagnostic(f), pid |-> f.pid, sequence |-> SequenceOf(f, f.context, f.number),
     resource |-> EventOf(f),
     previous_sequence |-> IF f.previous_number = 0 THEN 0
                           ELSE SequenceOf(f, f.previous_context, f.previous_number)]

\* One round of the loop.  Where a site cannot be interned or the finding not be
\* copied the error is set and the finding is not counted.
AddNext == \E stored \in Outcomes :
    /\ phase = "adding" /\ ~err /\ Len(findings) < Len(reported)
    /\ findings' = IF stored THEN Append(findings, Translated(reported[Len(findings) + 1]))
                   ELSE findings
    /\ err' = ~stored
    /\ UNCHANGED <<resources, clock, restarted, lifecycle, handed, reported, phase,
                   generic_finalized>>

FinishedAnyway ==                                                \* mutant
    /\ phase = "adding" /\ (err \/ Len(findings) = Len(reported))
    /\ phase' = "done" /\ generic_finalized' = TRUE
    /\ UNCHANGED <<resources, clock, restarted, lifecycle, handed, reported, findings, err>>

\* After the loop.
Finalized ==
    /\ phase = "adding" /\ (err \/ Len(findings) = Len(reported))
    /\ phase' = "done" /\ generic_finalized' = ~err
    /\ UNCHANGED <<resources, clock, restarted, lifecycle, handed, reported, findings, err>>

Next ==
    \/ \E kind \in Kinds, p \in Pid, c \in Context, class \in Class \cup {Null} :
         Ingest(kind, p, c, class)
    \/ \E p \in Pid : Restart(p)
    \/ Finish \/ AddNext \/ Finalized

Spec == Init /\ [][Next]_vars

-----------------------------------------------------------------------------
(* Properties.                                                             *)

\* Where no number is used twice, a finding points at the very records the library
\* meant, and takes the descriptor or address it shows from the first, although contexts,
\* processes and classes interleave in the log (model_generic.c:143-164,
\* 288-334).
FindingNamesItsRecords ==
    ~restarted => \A n \in DOMAIN findings :
      /\ findings[n].sequence = reported[n].subject
      /\ findings[n].resource = reported[n].subject
      /\ findings[n].previous_sequence = reported[n].previous

\* Where an exec makes the numbers start again, a finding still points at places
\* of the log and at records of its own process, at earlier ones than the library
\* meant if at all, and never at another class's, except that an allocation's
\* finding may be drawn to a record of no class (model_generic.c:303-317).
FindingStaysInItsClass ==
    \A n \in DOMAIN findings :
      LET f == findings[n]
          r == reported[n]
          fits(i) == /\ resources[i].pid = f.pid
                     /\ ClassOf(i) = r.class \/ (ClassOf(i) = Null /\ r.class = "allocation")
      IN  /\ f.sequence \in 1 .. r.subject /\ fits(f.sequence)
          /\ r.previous # 0 =>
               /\ f.previous_sequence \in 1 .. r.previous
               /\ fits(f.previous_sequence)

\* Once the library has finished, its findings appear all, once and in order, or the
\* report is marked as failed, however many of the additions failed; and a report
\* counts as finalized only if the library finished and none of its findings is
\* missing (model_generic.c:125-171).  Nothing is said of a library that fails and
\* sets no error: then it returns no finding, and the report is that of a clean run
\* which was never finalized.
AllFindingsOrError ==
    /\ phase = "done" /\ ~err => Len(findings) = Len(reported)
    /\ generic_finalized => phase = "done" /\ ~err /\ lifecycle /\ Len(findings) = Len(reported)
=============================================================================
