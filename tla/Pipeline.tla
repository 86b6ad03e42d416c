------------------------------ MODULE Pipeline ------------------------------
(***************************************************************************)
(* One invocation of p101-report, from its command line to its exit        *)
(* status: main.c, the control of runner.c, the two reading loops of       *)
(* reader.c and the line statuses of parse.c.                              *)
(*                                                                         *)
(* A line of a log is one of a few classes.  What the replay makes of a    *)
(* resource record is the business of Replay; here it is stored or sets    *)
(* the error, and may leave a finding.                                     *)
(***************************************************************************)
EXTENDS CommandLine, Integers, Sequences, FiniteSets

CONSTANTS
    Outcomes,       \* results a call that may fail can have: TRUE is success
    MaxLines,       \* bound on the lines of each log
    MaxFindings     \* bound on the findings of the replay

ASSUME PipelineAssumption ==
    /\ Outcomes \subseteq BOOLEAN /\ TRUE \in Outcomes
    /\ MaxLines \in Nat /\ MaxFindings \in Nat

Stream == {"resource", "call"}

CLEAN    == 0
FINDINGS == 1
TROUBLE  == 2

VARIABLES
    phase,          \* where main, p101_report_run and the readers are
    err,            \* the p101_error
    lines,          \* lines[s]: the lines read from the log of stream s
    ended,          \* ended[s]: its end was seen
    count,          \* count[s]: the counters of struct report_model
    stored,         \* stored[s]: the sequences of the stored records, in order
    health,         \* health[s]: the p101_tool_event_stream_health
    findings,       \* model.finding_count
    printed,        \* the report, or the bundle, has been written, if only in part
    status          \* the exit status

vars == <<argv, phase, err, lines, ended, count, stored, health, findings, printed, status>>

Zero == [records |-> 0, skipped |-> 0, malformed |-> 0, bad_version |-> 0]

Opening(s) == IF s = "resource" THEN "open_resource" ELSE "open_call"
Reading(s) == IF s = "resource" THEN "read_resource" ELSE "read_call"
Closing(s) == IF s = "resource" THEN "close_resource" ELSE "close_call"
After(s)   == IF s = "resource" THEN "open_call" ELSE "finish"

\* The records each reader ingests; a record of the other stream is skipped.
Own(s) == IF s = "resource" THEN "Resource" ELSE "Call"

\* OverLong lines are refused by p101_tool_event_read_line, Garbage, OldVersion
\* and Foreign ones by p101_tool_event_parse_line; the others parse.
Parsed == {"Resource", "Call", "Receipt", "FailedReceipt"}

\* p101_tool_event_stream_health_observe (external): a good receipt completes the
\* stream, a receipt of a producer that failed to write spoils it, and so may
\* anything that follows a receipt.
Observed(h, line) ==
    CASE line = "FailedReceipt"                   -> {"broken"}
      [] line = "Receipt" /\ h = "open"           -> {"complete"}
      [] line # "FailedReceipt" /\ h = "complete" -> {"complete", "broken"}
      [] OTHER                                    -> {h}

HealthIsComplete(h) == h = "complete"   \* external

-----------------------------------------------------------------------------
Init ==
    /\ argv = <<>>
    /\ phase = "arguments"
    /\ err = FALSE
    /\ lines = [s \in Stream |-> <<>>]
    /\ ended = [s \in Stream |-> FALSE]
    /\ count = [s \in Stream |-> Zero]
    /\ stored = [s \in Stream |-> <<>>]
    /\ health = [s \in Stream |-> "open"]
    /\ findings = 0
    /\ printed = FALSE
    /\ status = TROUBLE

KeepStreams == UNCHANGED <<lines, ended, count, stored, health>>

Keep == KeepStreams /\ UNCHANGED argv

Goto(p) == phase' = p

\* The command line is complete, and this is what one of the getopts makes of it.  It
\* is not looked at again.
Comes(outcome) ==
    /\ phase = "arguments"
    /\ \E permutes \in BOOLEAN : Arguments(argv, permutes).outcome = outcome
    /\ argv' = <<>>
    /\ KeepStreams /\ UNCHANGED <<findings, printed>>

Types ==
    /\ phase = "arguments"
    /\ \E word \in Words : Type(word)
    /\ KeepStreams /\ UNCHANGED <<phase, err, findings, printed, status>>

\* -h prints the usage and exits before anything is read.
Help ==
    /\ Comes("help")
    /\ Goto("helped")
    /\ status' = CLEAN
    /\ UNCHANGED err

Refuse ==
    /\ Comes("usage")
    /\ err' = TRUE
    /\ Goto("exit")
    /\ UNCHANGED status

\* A path that does not fit, or no run model: exit without reading.
StartFails ==
    /\ Comes("run")
    /\ FALSE \in Outcomes
    /\ err' \in BOOLEAN
    /\ Goto("exit")
    /\ UNCHANGED status

Accept ==
    /\ Comes("run")
    /\ Goto(Opening("resource"))
    /\ UNCHANGED <<err, status>>

\* The calls are opened even when reading the resources has failed.
Open(s) == \E opens \in Outcomes :
    /\ phase = Opening(s)
    /\ err' = (err \/ ~opens)
    /\ Goto(Reading(s))
    /\ Keep /\ UNCHANGED <<findings, printed, status>>

InLoop(s) == phase = Reading(s) /\ ~err

Bump(s, counter) == count' = [count EXCEPT ![s][counter] = @ + 1]

\* Mutant: records are numbered by their line.
LineNumber(s) == Len(lines[s]) + 1

NextSequence(s) == count[s].records + 1

Store(s) == stored' = [stored EXCEPT ![s] = Append(@, NextSequence(s))]

\* A line is read; a parsed one is first shown to the stream health.
Takes(s, line) ==
    /\ InLoop(s)
    /\ Len(lines[s]) < MaxLines
    /\ lines' = [lines EXCEPT ![s] = Append(@, line)]
    /\ IF line \in Parsed
         THEN \E h \in Observed(health[s], line) : health' = [health EXCEPT ![s] = h]
         ELSE UNCHANGED health
    /\ UNCHANGED <<argv, phase, ended, printed, status>>

TakeRefused(s) ==
    /\ \/ Takes(s, "OverLong") /\ Bump(s, "malformed")
       \/ Takes(s, "Garbage") /\ Bump(s, "malformed")
       \/ Takes(s, "OldVersion") /\ Bump(s, "bad_version")
    /\ UNCHANGED <<err, stored, findings>>

TakeSkipped(s) == \E line \in {"Foreign", "Resource", "Call"} \ {Own(s)} :
    /\ Takes(s, line)
    /\ Bump(s, "skipped")
    /\ UNCHANGED <<err, stored, findings>>

TakeReceipt(s) == \E line \in {"Receipt", "FailedReceipt"} :
    /\ Takes(s, line)
    /\ UNCHANGED <<err, count, stored, findings>>

\* The run model refuses the record, with or without raising the error, or its
\* texts cannot be copied.
TakeSpoilt(s) ==
    /\ FALSE \in Outcomes
    /\ Takes(s, Own(s))
    /\ Bump(s, "malformed")
    /\ err' \in BOOLEAN
    /\ UNCHANGED <<stored, findings>>

\* A record counts before it is stored; storing or replaying it may fail.  An exec
\* record may add a finding, and the rollback of an EXECFAIL may take any number away.
TakeRecord(s) ==
    /\ Takes(s, Own(s))
    /\ Bump(s, "records")
    /\ \/ Store(s) /\ err' \in {~ok : ok \in Outcomes}
       \/ FALSE \in Outcomes /\ err' = TRUE /\ UNCHANGED stored
    /\ IF s = "resource"
         THEN findings' \in 0 .. findings + 1 /\ findings' <= MaxFindings
         ELSE UNCHANGED findings

ReadFails(s) ==
    /\ InLoop(s)
    /\ FALSE \in Outcomes
    /\ err' = TRUE
    /\ Goto(Closing(s))
    /\ Keep /\ UNCHANGED <<findings, printed, status>>

EndOfLog(s) ==
    /\ InLoop(s)
    /\ ended' = [ended EXCEPT ![s] = TRUE]
    /\ Goto(Closing(s))
    /\ UNCHANGED <<argv, err, lines, count, stored, health, findings, printed, status>>

\* Mutant: the loop of the calls is left only at the end of the log.
StopsOnResourceError(s) == s = "resource" /\ err

Stops(s) == err

LeaveLoop(s) ==
    /\ phase = Reading(s)
    /\ Stops(s)
    /\ Goto(Closing(s))
    /\ Keep /\ UNCHANGED <<err, findings, printed, status>>

Close(s) == \E closes \in Outcomes :
    /\ phase = Closing(s)
    /\ err' = (err \/ ~closes)
    /\ Goto(After(s))
    /\ Keep /\ UNCHANGED <<findings, printed, status>>

\* p101_tool_model_finish; its failure ends the run even if no error is raised.
Finish == \E finishes \in Outcomes :
    /\ phase = "finish"
    /\ Goto(IF err \/ ~finishes THEN "exit" ELSE "finalize")
    /\ err' \in IF finishes THEN {err} ELSE {err, TRUE}
    /\ Keep /\ UNCHANGED <<findings, printed, status>>

Finalize == \E ok \in Outcomes :
    /\ phase = "finalize"
    /\ findings' \in findings .. MaxFindings
    /\ err' = ~ok
    /\ Goto(IF ok THEN "print" ELSE "exit")
    /\ Keep /\ UNCHANGED <<printed, status>>

\* Mutant: the health of the call stream is not looked at.
ResourcesAreWhole ==
    /\ \A s \in Stream : count[s].malformed = 0 /\ count[s].bad_version = 0
    /\ HealthIsComplete(health["resource"])

EvidenceIsWhole ==
    \A s \in Stream :
      count[s].malformed = 0 /\ count[s].bad_version = 0 /\ HealthIsComplete(health[s])

\* The report is printed even when the evidence is incomplete; the status tells.
PrintReport == \E ok \in Outcomes :
    /\ phase = "print"
    /\ printed' = TRUE
    /\ err' = ~ok
    /\ status' = IF ~ok \/ ~EvidenceIsWhole THEN TROUBLE
                 ELSE IF findings = 0 THEN CLEAN ELSE FINDINGS
    /\ Goto("exit")
    /\ Keep /\ UNCHANGED findings

Read(s) ==
    \/ Open(s) \/ Close(s) \/ TakeRefused(s) \/ TakeSkipped(s) \/ TakeReceipt(s)
    \/ TakeSpoilt(s) \/ TakeRecord(s) \/ ReadFails(s) \/ EndOfLog(s) \/ LeaveLoop(s)

\* What the program does once its command line is accepted.
Proceed == (\E s \in Stream : Read(s)) \/ Finish \/ Finalize \/ PrintReport

Next == Types \/ Help \/ Refuse \/ StartFails \/ Accept \/ Proceed

\* The program is one thread and never waits but for its input, which ends.  Nobody
\* has to start it.
Spec == Init /\ [][Next]_vars /\ WF_vars(Proceed)

-----------------------------------------------------------------------------
(* Properties.                                                             *)

Lines(s, class) == Cardinality({i \in DOMAIN lines[s] : lines[s][i] = class})

\* A verdict, clean or not, is given on whole evidence alone: both logs read to
\* their ends without an error, no line refused, a good receipt in each, and
\* every record of the stream stored (runner.c:44-88, main.c:44-54).
VerdictOnWholeEvidence ==
    phase = "exit" /\ status # TROUBLE =>
      /\ ~err /\ printed
      /\ \A s \in Stream :
           /\ ended[s]
           /\ \A c \in {"OverLong", "Garbage", "OldVersion", "FailedReceipt"} : Lines(s, c) = 0
           /\ Lines(s, "Receipt") > 0
           /\ Len(stored[s]) = Lines(s, Own(s))
      /\ (status = CLEAN) <=> (findings = 0)

\* The number a report shows for a record is its 1-based rank among the parsed
\* records of its stream, whatever was refused or skipped in between
\* (reader.c:47, 132; README.md:81-82).
SequenceIsRank ==
    \A s \in Stream :
      /\ \A i \in DOMAIN stored[s] : stored[s][i] = i
      /\ ~err => Len(stored[s]) = count[s].records

\* Every run that starts ends, with an exit status that an error makes TROUBLE
\* (main.c:42-60, runner.c:41-93).
Terminates == phase # "arguments" ~> phase = "helped" \/ (phase = "exit" /\ (err => status = TROUBLE))
=============================================================================
