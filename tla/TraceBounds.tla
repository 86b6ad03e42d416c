---------------------------- MODULE TraceBounds ----------------------------
(***************************************************************************)
(* The trace printed under a finding (src/src/output.c).                   *)
(*                                                                         *)
(* The report joins two logs that share nothing but the numbers the        *)
(* producers gave their records.  Under each finding it shows a window of  *)
(* calls.log: it begins at the ENTER that p101_report_site_matches_call    *)
(* and the numbers single out, and ends where counting ENTER and EXIT      *)
(* records of that name comes back to zero.                                *)
(*                                                                         *)
(* The log is written here by threads whose wrapper calls nest, so that    *)
(* the call a resource record was made in and the EXIT of every call are   *)
(* known, and the window computed from the log can be held against them.   *)
(* The threads and the numbering belong to the producer (external): every  *)
(* thread counts its records of both logs with one counter, and logs a     *)
(* resource inside the wrapper call that has its source site.              *)
(***************************************************************************)
EXTENDS Integers, Sequences, SequencesExt, FiniteSets

CONSTANTS
    Thread,         \* pairs of pid and context_id
    Site,           \* source sites: records of file, line and function
    Name,           \* names of wrappers
    Limit,          \* TRACE_CONTEXT_LIMIT
    Wrappers,       \* the wrapper calls in the source: <<site, name>>
    MaxCalls,       \* bound on the records of calls.log
    MaxFindings     \* bound on the findings

ASSUME TraceAssumption ==
    /\ \A s \in Site : DOMAIN s = {"file", "line", "function"}
    /\ Wrappers \subseteq Site \X Name
    /\ Limit \in Nat /\ MaxCalls \in Nat /\ MaxFindings \in Nat

VARIABLES
    calls,          \* model->calls: calls.log, in log order
    findings,       \* the findings whose trace will be printed; `call`, the call its
                    \* record was made in, and `at` are not fields of struct finding
    clock,          \* clock[t]: the last number thread t gave a record
    open,           \* open[t]: the calls t is in, by the index of their ENTER
    exits,          \* exits[i]: the EXIT of the call entered at i, 0 if there is none
    unwound         \* some call was left without an EXIT record

vars == <<calls, findings, clock, open, exits, unwound>>

Log == 1 .. Len(calls)

-----------------------------------------------------------------------------
(* The producers.                                                          *)

Init ==
    /\ calls = <<>> /\ exits = <<>>
    /\ findings = {} /\ unwound = FALSE
    /\ clock = [t \in Thread |-> 0]
    /\ open = [t \in Thread |-> <<>>]

Numbered(t) == clock' = [clock EXCEPT ![t] = @ + 1]

Enter(t, site, name) ==
    /\ Len(calls) < MaxCalls
    /\ calls' = Append(calls, [kind |-> "ENTER", thread |-> t, site |-> site,
                               name |-> name, event |-> clock[t] + 1])
    /\ exits' = Append(exits, 0)
    /\ open' = [open EXCEPT ![t] = Append(@, Len(calls) + 1)]
    /\ Numbered(t) /\ UNCHANGED <<findings, unwound>>

Exit(t) ==
    /\ Len(calls) < MaxCalls
    /\ open[t] # <<>>
    /\ calls' = Append(calls, [calls[Last(open[t])] EXCEPT !.kind = "EXIT",
                                                           !.event = clock[t] + 1])
    /\ exits' = Append([exits EXCEPT ![Last(open[t])] = Len(calls) + 1], 0)
    /\ open' = [open EXCEPT ![t] = Front(@)]
    /\ Numbered(t) /\ UNCHANGED <<findings, unwound>>

\* The call is left by a jump or by the end of its thread: nothing is logged.
Unwind(t) ==
    /\ open[t] # <<>>
    /\ open' = [open EXCEPT ![t] = Front(@)]
    /\ unwound' = TRUE
    /\ UNCHANGED <<calls, findings, clock, exits>>

\* A resource record that will be the subject of a finding.
Makes(t) ==
    /\ Cardinality(findings) < MaxFindings
    /\ open[t] # <<>>
    /\ findings' = findings \cup
         {[thread |-> t, site |-> calls[Last(open[t])].site, event |-> clock[t] + 1,
           call |-> Last(open[t]), at |-> Len(calls)]}
    /\ Numbered(t) /\ UNCHANGED <<calls, open, exits, unwound>>

Next ==
    \E t \in Thread :
      \/ \E w \in Wrappers : Enter(t, w[1], w[2])
      \/ Exit(t) \/ Unwind(t) \/ Makes(t)

Spec == Init /\ [][Next]_vars

-----------------------------------------------------------------------------
(* The window.                                                             *)

\* p101_report_site_matches_call
SiteMatches(f, call) ==
    /\ call.thread = f.thread
    /\ call.site.file = f.site.file
    /\ call.site.line = f.site.line \/ call.site.function = f.site.function

CandidatesAtAnyTime(f) ==                                       \* mutant
    {i \in Log : calls[i].kind = "ENTER" /\ SiteMatches(f, calls[i])}

Candidates(f) ==
    {i \in Log : /\ calls[i].kind = "ENTER"
                 /\ calls[i].event <= f.event
                 /\ SiteMatches(f, calls[i])}

\* Mutant: the first candidate is kept.
BeginFirst(f) ==
    IF Candidates(f) = {} THEN 0
    ELSE CHOOSE i \in Candidates(f) : \A j \in Candidates(f) : i <= j

\* The latest candidate by the producers' numbers, and among equal ones the last
\* of the log; 0 stands for SIZE_MAX.
Begin(f) ==
    IF Candidates(f) = {} THEN 0
    ELSE CHOOSE i \in Candidates(f) :
           \A j \in Candidates(f) :
             \/ calls[j].event < calls[i].event
             \/ calls[j].event = calls[i].event /\ j <= i

\* The records up to k of the call name at `begin` that its thread, the finding's,
\* wrote.
Counted(begin, k, kind) ==
    LET first == calls[begin]
    IN  Cardinality({i \in begin .. k : /\ calls[i].thread = first.thread
                                        /\ calls[i].name = first.name
                                        /\ calls[i].kind = kind})

Closes(begin, k) == Counted(begin, k, "ENTER") = Counted(begin, k, "EXIT")

\* Mutant: nesting is not counted.
EndAtFirstExit(begin) ==
    LET closing == {k \in begin .. Len(calls) : Counted(begin, k, "EXIT") = 1}
    IN  IF closing = {} THEN Len(calls) ELSE CHOOSE k \in closing : \A j \in closing : k <= j

\* The end of the window that begins at `begin`: the first EXIT at which as many calls
\* of that name have ended as begun.
End(begin) ==
    LET closing == {k \in begin .. Len(calls) : Closes(begin, k)}
    IN  IF closing = {} THEN Len(calls) ELSE CHOOSE k \in closing : \A j \in closing : k <= j

\* p101_report_print_trace_context: the records shown under the finding, in log order.
Printed(f) ==
    LET begin == Begin(f)
        own   == {i \in begin .. End(begin) : calls[i].thread = f.thread}
    IN  IF begin = 0 THEN {} ELSE {i \in own : Cardinality({j \in own : j < i}) < Limit}

-----------------------------------------------------------------------------
(* Properties.                                                             *)

\* The window of a finding begins inside the call its record was made in, at its
\* ENTER or at that of a call nested in it, whatever the other threads log in
\* between and whichever calls the same line makes before and after
\* (output.c:366-380).
WindowStartsInCall ==
    \A f \in findings :
      LET begin == Begin(f) IN begin \in f.call .. f.at /\ calls[begin].thread = f.thread

\* As long as every call logs its EXIT the window closes at the very EXIT of the call
\* it begins with, through recursion into the same wrapper and calls of that name
\* in other threads.  Where EXIT records are missing it may be too long, never too
\* short: it stays open until its call is left, and reaches that call's EXIT if
\* there is one (output.c:386-416).
WindowEndsWithCall ==
    \A f \in findings :
      LET begin == Begin(f)
          end   == End(begin)
      IN  IF ~unwound
            THEN end = IF exits[begin] # 0 THEN exits[begin] ELSE Len(calls)
            ELSE /\ exits[begin] # 0 => end >= exits[begin]
                 /\ begin \in Range(open[f.thread]) => end = Len(calls)

\* What is printed under a finding does not depend on what is logged after its
\* call has returned, unless an EXIT was missing (output.c:218-245, 361-417).
StoryIsFinal ==
    [][~unwound => \A f \in findings :
         exits[Begin(f)] # 0 => Printed(f)' = Printed(f)]_vars
=============================================================================
