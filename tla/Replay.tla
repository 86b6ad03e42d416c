------------------------------- MODULE Replay -------------------------------
(***************************************************************************)
(* The ownership model of p101-report (src/src/model.c).                   *)
(*                                                                         *)
(* The reader hands the parsed resource records, one at a time and in log  *)
(* order, to p101_report_ingest_resource, which replays them against       *)
(* tables of the descriptors and allocations that are live in every traced *)
(* process; p101_report_finalize_leaks closes the replay when the stream   *)
(* ends.  Each record kind is one action here.                             *)
(*                                                                         *)
(* The C tables are arrays whose order changes by swap-with-last removal.  *)
(* Here they are sets, so where the code takes the first matching entry    *)
(* the model takes any matching entry; the two agree whenever no (pid, fd) *)
(* or (pid, ptr) is entered twice.  Fields nobody reads back (the size,    *)
(* and the site of a closed descriptor) are left out.                      *)
(***************************************************************************)
EXTENDS Integers, Sequences, FiniteSets

CONSTANTS
    Pid,            \* traced process identifiers
    Fd,             \* descriptor numbers
    Ptr,            \* allocation addresses, as the log spells them
    Target,         \* exec targets
    Site,           \* interned source sites
    Null,           \* a field the record does not carry (NULL, or "-" for an address)
    Inputs,         \* the records the log may hold
    Outcomes,       \* results a memory request may have: TRUE is success
    MaxRecords,     \* bound on the length of the log
    MaxReported     \* bound on the findings the lifecycle library reports

Kind == {"FD_OPEN", "FD_CLOSE", "ALLOC", "FREE", "REALLOC", "FORK", "SPAWN",
         "EXEC", "EXEC_FAIL", "GENERIC"}

\* struct resource_event, without the fields ownership does not depend on.
ResourceEvent ==
    [kind : Kind, pid : Pid, child_pid : Pid \cup {Null}, fd : Fd \cup {Null},
     cloexec : BOOLEAN, ptr : Ptr \cup {Null}, new_ptr : Ptr \cup {Null},
     target : Target \cup {Null}, site : Site]

ASSUME ReplayAssumption ==
    /\ Inputs \subseteq ResourceEvent
    /\ \A ev \in Inputs :
         /\ ev.kind \in {"FD_OPEN", "FD_CLOSE", "EXEC"} => ev.fd \in Fd
         /\ ev.kind = "FORK" => ev.child_pid \in Pid
    /\ Outcomes \subseteq BOOLEAN
    /\ TRUE \in Outcomes
    /\ MaxRecords \in Nat
    /\ MaxReported \in Nat
    /\ Null \notin Fd \cup Pid \cup Ptr \cup Target

VARIABLES
    resources,      \* model->resources: the records stored so far, in log order
    fds,            \* model->fds: the live descriptors
    closed_fds,     \* model->closed_fds: every (pid, fd) seen closing
    allocs,         \* model->allocs: the live allocations
    freed_allocs,   \* model->freed_allocs: the allocations seen freed
    findings,       \* model->findings
    err,            \* the p101_error: once set, the reader hands over no record
    finalized       \* p101_report_finalize_leaks has run

vars == <<resources, fds, closed_fds, allocs, freed_allocs, findings, err, finalized>>

Log == 1 .. Len(resources)

\* Definitions marked "mutant" are slips the code could have had; each one is
\* there to show that a property notices it.
SequenceSkips == Len(resources) + 2     \* mutant: numbered from two

Sequence == Len(resources) + 1          \* event->sequence of the record in hand

-----------------------------------------------------------------------------
(* Entries of the tables.                                                  *)

LiveFd ==
    [pid : Pid, fd : Fd, site : Site, sequence : Nat,
     exec_pending : BOOLEAN, exec_cloexec : BOOLEAN, exec_sequence : Nat]

\* ptr is Null when its text could not be copied.
Alloc == [pid : Pid, ptr : Ptr \cup {Null}, sequence : Nat]

Finding ==
    [kind : {"EXEC_INHERIT", "LIFECYCLE"}, pid : Pid, fd : Fd \cup {Null},
     target : Target \cup {Null}, site : Site, sequence : Nat,
     previous_site : Site \cup {Null}, previous_sequence : Nat]

NewFd(pid, fd, site) ==
    [pid |-> pid, fd |-> fd, site |-> site, sequence |-> Sequence,
     exec_pending |-> FALSE, exec_cloexec |-> FALSE, exec_sequence |-> 0]

Slot(e) == <<e.pid, e.fd>>

Entries(table, pid, fd) == {e \in table : e.pid = pid /\ e.fd = fd}

BlocksOfAnyPid(pid, ptr) == {a \in allocs : a.ptr = ptr}         \* mutant

Blocks(pid, ptr) == {a \in allocs : a.pid = pid /\ a.ptr = ptr}

-----------------------------------------------------------------------------
(* The end of an exec attempt: p101_report_finish_exec.  A record of pid   *)
(* that is neither EXEC nor EXEC_FAIL shows that the attempt crossed.      *)

PendingOfAnyPid(pid) == {e \in fds : e.exec_pending}            \* mutant

Pending(pid) == {e \in fds : e.pid = pid /\ e.exec_pending}

Cleared(e) ==
    [e EXCEPT !.exec_pending = FALSE, !.exec_cloexec = FALSE, !.exec_sequence = 0]

\* Mutant: every crossing is handled as the end of the input.
SweptFdsAsAtEnd(swept) == fds \ swept

\* The table after the entries `swept` of Pending(pid) have been handled.
SweptFds(swept) ==
    (fds \ swept) \cup {Cleared(e) : e \in {x \in swept : ~x.exec_cloexec}}

SweptClosed(swept) ==
    closed_fds \cup {Slot(e) : e \in {x \in swept : x.exec_cloexec}}

\* Mutant: only records about descriptors end an attempt.
SettlingOnFdRecords(ev) ==
    IF ev.kind \in {"FD_OPEN", "FD_CLOSE"} THEN Pending(ev.pid) ELSE {}

\* The pending entries that the arrival of ev shows to have crossed.
Settling(ev) == IF ev.kind \in {"EXEC", "EXEC_FAIL"} THEN {} ELSE Pending(ev.pid)

SettledFds(ev)    == SweptFds(Settling(ev))
SettledClosed(ev) == SweptClosed(Settling(ev))

-----------------------------------------------------------------------------
(* A failed exec: p101_report_rollback_failed_exec.                        *)

\* p101_report_exec_attempt_matches
AttemptMatches(candidate, ev) ==
    /\ candidate.kind = "EXEC"
    /\ candidate.pid = ev.pid
    /\ candidate.site = ev.site
    /\ candidate.target # Null
    /\ candidate.target = ev.target

\* Mutants: the walk stops at the last record, or does not stop at all.
FindingMatchesLast(f, ev) ==
    f.kind = "EXEC_INHERIT" /\ f.pid = ev.pid /\ f.target = ev.target /\ f.sequence = Len(resources)

FindingMatchesAnywhere(f, ev) ==
    f.kind = "EXEC_INHERIT" /\ f.pid = ev.pid /\ f.target = ev.target

\* p101_report_exec_finding_matches: first_sequence is where the backward walk
\* over matching records stops, so f lies in the attempt exactly when every
\* record from its own on matches.
FindingMatches(f, ev) ==
    /\ f.kind = "EXEC_INHERIT"
    /\ f.pid = ev.pid
    /\ f.target # Null
    /\ f.target = ev.target
    /\ \A i \in f.sequence .. Len(resources) : AttemptMatches(resources[i], ev)

\* p101_tool_event_ownership_exec_inherits for a live descriptor (external).
ExecInherits(cloexec) == ~cloexec

InheritFinding(ev, e) ==
    [kind |-> "EXEC_INHERIT", pid |-> ev.pid, fd |-> ev.fd, target |-> ev.target,
     site |-> ev.site, sequence |-> Sequence,
     previous_site |-> e.site, previous_sequence |-> e.sequence]

-----------------------------------------------------------------------------
Init ==
    /\ resources = <<>>
    /\ fds = {} /\ closed_fds = {}
    /\ allocs = {} /\ freed_allocs = {}
    /\ findings = {}
    /\ err = FALSE
    /\ finalized = FALSE

Reading == ~err /\ ~finalized /\ Len(resources) < MaxRecords

\* What every stored record does: it joins the log (add_resource_event) and goes
\* to the lifecycle model, which may fail (`adopted`); that result is dropped
\* and the switch on the kind still runs, so err is looked at afterwards.
Stored(ev) ==
    /\ Reading
    /\ resources' = Append(resources, ev)
    /\ UNCHANGED finalized

KeepAllocs == UNCHANGED <<allocs, freed_allocs>>

Settle(ev) ==
    /\ fds' = SettledFds(ev)
    /\ closed_fds' = SettledClosed(ev)

FdOpen(ev) == \E adopted, grows \in Outcomes :
    /\ ev.kind = "FD_OPEN"
    /\ Stored(ev)
    /\ fds' = SettledFds(ev) \cup
                 IF grows THEN {NewFd(ev.pid, ev.fd, ev.site)} ELSE {}
    /\ closed_fds' = SettledClosed(ev)
    /\ err' = ~(adopted /\ grows)
    /\ KeepAllocs /\ UNCHANGED findings

\* The entry goes even when the closing could not be recorded.
FdClose(ev) == \E adopted, grows \in Outcomes :
    /\ ev.kind = "FD_CLOSE"
    /\ Stored(ev)
    /\ \E e \in Entries(SettledFds(ev), ev.pid, ev.fd) :
         fds' = SettledFds(ev) \ {e}
    /\ closed_fds' = SettledClosed(ev) \cup
                        IF grows THEN {<<ev.pid, ev.fd>>} ELSE {}
    /\ err' = ~(adopted /\ grows)
    /\ KeepAllocs /\ UNCHANGED findings

\* A close of a descriptor that is not in the table leaves no trace in it.
FdCloseStray(ev) == \E adopted \in Outcomes :
    /\ ev.kind = "FD_CLOSE"
    /\ Stored(ev)
    /\ Entries(SettledFds(ev), ev.pid, ev.fd) = {}
    /\ Settle(ev)
    /\ err' = ~adopted
    /\ KeepAllocs /\ UNCHANGED findings

\* What a table may gain for a block: nothing if it cannot grow, and an entry
\* without an address if only the text cannot be copied.
Gained(pid, ptr, grows) ==
    LET entry(address) == [pid |-> pid, ptr |-> address, sequence |-> Sequence]
    IN  IF grows THEN {{entry(ptr)}} ELSE {{}, {entry(Null)}}

AllocStore(ev) == \E adopted, grows \in Outcomes :
    /\ ev.kind = "ALLOC"
    /\ Stored(ev)
    /\ Settle(ev)
    /\ IF ev.ptr = Null
          THEN allocs' = allocs /\ err' = ~adopted
          ELSE /\ \E new \in Gained(ev.pid, ev.ptr, grows) : allocs' = allocs \cup new
               /\ err' = ~(adopted /\ grows)
    /\ UNCHANGED <<freed_allocs, findings>>

FreeBlock(ev) == \E adopted, grows \in Outcomes :
    /\ ev.kind = "FREE"
    /\ Stored(ev)
    /\ Settle(ev)
    /\ \E a \in Blocks(ev.pid, ev.ptr) : allocs' = allocs \ {a}
    /\ \E new \in Gained(ev.pid, ev.ptr, grows) : freed_allocs' = freed_allocs \cup new
    /\ err' = ~(adopted /\ grows)
    /\ UNCHANGED findings

FreeStray(ev) == \E adopted \in Outcomes :
    /\ ev.kind = "FREE"
    /\ Stored(ev)
    /\ Settle(ev)
    /\ Blocks(ev.pid, ev.ptr) = {}
    /\ err' = ~adopted
    /\ KeepAllocs /\ UNCHANGED findings

\* The old block leaves without a freed entry; the new one is a fresh birth.
Realloc(ev) == \E adopted, grows \in Outcomes :
    /\ ev.kind = "REALLOC"
    /\ Stored(ev)
    /\ Settle(ev)
    /\ \E old \in SUBSET Blocks(ev.pid, ev.ptr),
          new \in IF ev.new_ptr = Null THEN {{}} ELSE Gained(ev.pid, ev.new_ptr, grows) :
         /\ (old = {}) <=> (Blocks(ev.pid, ev.ptr) = {})
         /\ \A a, b \in old : a = b
         /\ allocs' = (allocs \ old) \cup new
    /\ err' = ~(adopted /\ (ev.new_ptr = Null \/ grows))
    /\ UNCHANGED <<freed_allocs, findings>>

\* Mutants: one of the two probes of the child's tables is missing.
InheritedThoughLive(ev, table) ==
    {d \in Fd : /\ Entries(table, ev.pid, d) # {}
                /\ <<ev.child_pid, d>> \notin SettledClosed(ev)}

InheritedThoughClosed(ev, table) ==
    {d \in Fd : Entries(table, ev.pid, d) # {} /\ Entries(table, ev.child_pid, d) = {}}

\* The descriptors the child receives: those of the parent that the child
\* neither holds already nor has closed (its records may precede the FORK).
Inherited(ev, table) ==
    {d \in Fd : /\ Entries(table, ev.pid, d) # {}
                /\ Entries(table, ev.child_pid, d) = {}
                /\ <<ev.child_pid, d>> \notin SettledClosed(ev)}

\* The loop stops at the first error: part of the descriptors may be missing.
Fork(ev) == \E adopted \in Outcomes :
    /\ ev.kind = "FORK"
    /\ Stored(ev)
    /\ LET table == SettledFds(ev)
           all   == Inherited(ev, table)
       IN \E given \in IF ~adopted THEN {{}}
                       ELSE IF FALSE \in Outcomes THEN SUBSET all ELSE {all} :
            /\ \E source \in [given -> table] :
                 /\ \A d \in given : source[d] \in Entries(table, ev.pid, d)
                 /\ fds' = table \cup
                      {NewFd(ev.child_pid, d, source[d].site) : d \in given}
            /\ err' = ~(adopted /\ given = all)
    /\ closed_fds' = SettledClosed(ev)
    /\ KeepAllocs /\ UNCHANGED findings

\* Not handed to the lifecycle model, and nothing is inherited.
Spawn(ev) ==
    /\ ev.kind = "SPAWN"
    /\ Stored(ev)
    /\ Settle(ev)
    /\ err' = FALSE
    /\ KeepAllocs /\ UNCHANGED findings

\* One record per descriptor open at the exec call.
Exec(ev) == \E adopted, grows \in Outcomes, e \in Entries(SettledFds(ev), ev.pid, ev.fd) :
    /\ ev.kind = "EXEC"
    /\ Stored(ev)
    /\ fds' = (SettledFds(ev) \ {e}) \cup
          {[e EXCEPT !.exec_pending = TRUE, !.exec_cloexec = ev.cloexec,
                     !.exec_sequence = Sequence]}
    /\ closed_fds' = SettledClosed(ev)
    /\ IF ~ExecInherits(ev.cloexec)
          THEN findings' = findings /\ err' = ~adopted
          ELSE /\ err' = ~(adopted /\ grows)
               /\ findings' = findings \cup
                    IF adopted /\ grows THEN {InheritFinding(ev, e)} ELSE {}
    /\ KeepAllocs

ExecUnknown(ev) == \E adopted \in Outcomes :
    /\ ev.kind = "EXEC"
    /\ Stored(ev)
    /\ Entries(SettledFds(ev), ev.pid, ev.fd) = {}
    /\ Settle(ev)
    /\ err' = ~adopted
    /\ KeepAllocs /\ UNCHANGED findings

\* The attempt is over and did not cross: its marks and its findings go.
ExecFail(ev) == \E adopted \in Outcomes :
    /\ ev.kind = "EXEC_FAIL"
    /\ Stored(ev)
    /\ fds' = {IF e.pid = ev.pid /\ e.exec_pending THEN Cleared(e) ELSE e
                 : e \in SettledFds(ev)}
    /\ closed_fds' = SettledClosed(ev)
    /\ findings' = {f \in findings : ~FindingMatches(f, ev)}
    /\ err' = ~adopted
    /\ KeepAllocs

Generic(ev) == \E adopted \in Outcomes :
    /\ ev.kind = "GENERIC"
    /\ Stored(ev)
    /\ Settle(ev)
    /\ err' = ~adopted
    /\ KeepAllocs /\ UNCHANGED findings

\* Memory runs out while the pending entries are swept: some are handled, and
\* one close-on-exec entry is dropped without being recorded as closed.
SweepFails(entries) ==
    /\ FALSE \in Outcomes
    /\ \E swept \in SUBSET entries : \E e \in swept :
         /\ e.exec_cloexec
         /\ fds' = SweptFds(swept)
         /\ closed_fds' = SweptClosed(swept \ {e})
    /\ err' = TRUE

SettleFails(ev) ==
    /\ Reading
    /\ SweepFails(Settling(ev))
    /\ KeepAllocs /\ UNCHANGED <<resources, findings, finalized>>

\* The copy of the record could not be stored: nothing else is done with it.
StoreFails(ev) ==
    /\ Reading
    /\ FALSE \in Outcomes
    /\ Settle(ev)
    /\ err' = TRUE
    /\ KeepAllocs /\ UNCHANGED <<resources, findings, finalized>>

\* p101_report_ingest_resource
Ingest(ev) ==
    \/ FdOpen(ev) \/ FdClose(ev) \/ FdCloseStray(ev)
    \/ AllocStore(ev) \/ FreeBlock(ev) \/ FreeStray(ev) \/ Realloc(ev)
    \/ Fork(ev) \/ Spawn(ev) \/ Exec(ev) \/ ExecUnknown(ev) \/ ExecFail(ev)
    \/ Generic(ev)
    \/ SettleFails(ev) \/ StoreFails(ev)

-----------------------------------------------------------------------------
(* The end of the stream: p101_report_finalize_leaks.                      *)

\* What p101_tool_event_lifecycle_finish may report (external): any of the
\* records it was given can be the subject of a finding.  The record is taken to
\* be found again by its producer's numbers.
Reportable ==
    {[kind |-> "LIFECYCLE", pid |-> resources[i].pid, fd |-> resources[i].fd,
      target |-> Null, site |-> resources[i].site, sequence |-> i,
      previous_site |-> Null, previous_sequence |-> 0]
       : i \in {j \in Log : resources[j].kind # "SPAWN"}}

\* Attempts still open are taken to have crossed, and their entries leave the
\* table whether close-on-exec or not.
Finalize ==
    /\ ~err /\ ~finalized
    /\ fds' = {e \in fds : ~e.exec_pending}
    /\ closed_fds' = SweptClosed({e \in fds : e.exec_pending})
    /\ \E reported \in SUBSET Reportable :
         /\ Cardinality(reported) <= MaxReported
         /\ findings' = findings \cup reported
    /\ err' \in {~ok : ok \in Outcomes}
    /\ finalized' = TRUE
    /\ KeepAllocs /\ UNCHANGED resources

\* Memory runs out in that sweep.  The lifecycle model is still finished, but
\* none of its findings is added.
FinalizeFails ==
    /\ ~err /\ ~finalized
    /\ FALSE \in Outcomes
    /\ \E swept \in SUBSET {e \in fds : e.exec_pending} : \E e \in swept :
         /\ e.exec_cloexec
         /\ fds' = fds \ swept
         /\ closed_fds' = SweptClosed(swept \ {e})
    /\ err' = TRUE
    /\ finalized' = TRUE
    /\ KeepAllocs /\ UNCHANGED <<resources, findings>>

Next == (\E ev \in Inputs : Ingest(ev)) \/ Finalize \/ FinalizeFails

Spec == Init /\ [][Next]_vars

-----------------------------------------------------------------------------
(* What the log says, read on its own: the yardstick of the properties.    *)

IsFor(i, kind, pid, fd) ==
    resources[i].kind = kind /\ resources[i].pid = pid /\ resources[i].fd = fd

Opens(i, pid, fd)  == IsFor(i, "FD_OPEN", pid, fd)
Closes(i, pid, fd) == IsFor(i, "FD_CLOSE", pid, fd)
Execs(i, pid, fd)  == IsFor(i, "EXEC", pid, fd)

\* Since record i, pid has logged nothing but exec snapshots.
AtExec(i, pid) ==
    \A j \in Log : j >= i /\ resources[j].pid = pid => resources[j].kind = "EXEC"

\* The attempt that record i belongs to crossed: the next record of the process
\* that is not a snapshot is not an EXEC_FAIL.
Crossed(i) ==
    \E k \in Log :
      /\ k > i
      /\ resources[k].pid = resources[i].pid
      /\ resources[k].kind \notin {"EXEC", "EXEC_FAIL"}
      /\ \A j \in i .. k-1 : resources[j].pid = resources[i].pid => resources[j].kind = "EXEC"

\* The next EXEC_FAIL that the process of record i logs is record k.
FailsAt(i, k) ==
    /\ k > i
    /\ resources[k].pid = resources[i].pid /\ resources[k].kind = "EXEC_FAIL"
    /\ \A j \in i+1 .. k-1 :
         resources[j].pid = resources[i].pid => resources[j].kind # "EXEC_FAIL"

\* All that the process has logged from record i on, up to record k, is of one call.
OneCall(i, k) ==
    /\ resources[k].target # Null
    /\ \A j \in i .. k-1 : resources[j].pid = resources[k].pid =>
         /\ resources[j].kind = "EXEC"
         /\ resources[j].target = resources[k].target
         /\ resources[j].site = resources[k].site

\* Between them something else is logged than snapshots of that process.
BrokenUp(i, k) ==
    \E j \in i+1 .. k-1 : resources[j].pid # resources[i].pid \/ resources[j].kind # "EXEC"

\* The descriptor opened by record i has not been closed by a later record,
\* neither explicitly nor by an exec that crossed.
StillOpen(i, pid, fd) ==
    /\ Opens(i, pid, fd)
    /\ \A j \in Log : j > i =>
         /\ ~Closes(j, pid, fd)
         /\ ~(Execs(j, pid, fd) /\ resources[j].cloexec /\ Crossed(j))

InheritFindings == {f \in findings : f.kind = "EXEC_INHERIT"}

-----------------------------------------------------------------------------
(* Properties.                                                             *)

\* Every table holds entries of its own shape, and nothing points past the log.
TypeOK ==
    /\ resources \in Seq(Inputs)
    /\ Len(resources) <= MaxRecords
    /\ fds \subseteq LiveFd
    /\ closed_fds \subseteq Pid \X Fd
    /\ allocs \subseteq Alloc /\ freed_allocs \subseteq Alloc
    /\ findings \subseteq Finding
    /\ err \in BOOLEAN /\ finalized \in BOOLEAN
    /\ \A e \in fds : e.sequence \in Log /\ e.exec_sequence <= Len(resources)
    /\ \A f \in findings : f.sequence \in Log

\* An entry marked pending stands for a snapshot of that very descriptor, with
\* that close-on-exec flag, and its process has logged nothing else since: the
\* mark never outlives the attempt (model.c:24-27, 219-222, 343-352).
PendingIsOpenAttempt ==
    \A e \in fds : e.exec_pending =>
      /\ e.exec_sequence \in Log
      /\ e.sequence < e.exec_sequence
      /\ Execs(e.exec_sequence, e.pid, e.fd)
      /\ resources[e.exec_sequence].cloexec = e.exec_cloexec
      /\ AtExec(e.exec_sequence, e.pid)

\* The record of its sequence opened the descriptor, or forked its process.
Born(e) ==
    \/ Opens(e.sequence, e.pid, e.fd) /\ resources[e.sequence].site = e.site
    \/ resources[e.sequence].kind = "FORK" /\ resources[e.sequence].child_pid = e.pid

DuplicatesAreOpens ==
    \A e, g \in fds :
      Slot(e) = Slot(g) /\ e.sequence < g.sequence => Opens(g.sequence, g.pid, g.fd)

EntriesAreDistinct ==
    \A e, g \in fds : Slot(e) = Slot(g) /\ e.sequence = g.sequence => e = g

\* A descriptor in the table came from an open or a fork of its own process; two
\* entries for one descriptor mean that the later one is an open whose
\* close was missed, never a fork that inherited it twice (model.c:154-201).
FdsComeFromLog == (\A e \in fds : Born(e)) /\ DuplicatesAreOpens /\ EntriesAreDistinct

\* The records of a child may come before its FORK record: what the child had both
\* opened and closed by then is not given back to it by the fork, at once or by
\* a later fork of the same pid (model.c:180-188).  A descriptor it inherited and
\* closed by then is given back: its close found no entry and left no trace
\* (model.c:54-79).
ForkNeverRevives ==
    \A e \in fds, i, j \in Log :
      /\ resources[e.sequence].kind = "FORK"
      /\ i < j /\ Opens(i, e.pid, e.fd) /\ Closes(j, e.pid, e.fd)
      => e.sequence < j

\* No live descriptor is lost: while the replay goes well, what the log shows
\* open is in the table, through failed execs, forks and the closes of others.
OpenDescriptorsAreHeld ==
    ~err /\ ~finalized =>
      \A i \in Log, p \in Pid, d \in Fd : StillOpen(i, p, d) => Entries(fds, p, d) # {}

\* An EXEC_INHERIT finding is backed by the log: its record is an exec snapshot
\* of that descriptor without close-on-exec, the descriptor was born earlier, and if
\* the call it belongs to failed, then another process has logged something
\* between the snapshot and the EXEC_FAIL: nothing else keeps the finding of a
\* failed exec in the report (model.c:228-239, 360-391).
Backed(f) ==
    /\ Execs(f.sequence, f.pid, f.fd)
    /\ ~resources[f.sequence].cloexec
    /\ resources[f.sequence].target = f.target
    /\ f.previous_sequence < f.sequence
    /\ \/ Opens(f.previous_sequence, f.pid, f.fd)
       \/ /\ resources[f.previous_sequence].kind = "FORK"
          /\ resources[f.previous_sequence].child_pid = f.pid
    /\ \A k \in Log :
         FailsAt(f.sequence, k) /\ OneCall(f.sequence, k) => BrokenUp(f.sequence, k)

InheritFindingsAreBacked == \A f \in InheritFindings : Backed(f)

\* No inheritance goes unreported: a snapshot without close-on-exec of a
\* descriptor the log shows open, in an attempt the process has not reported as
\* failed, has its finding (model.c:211-243, 392).
InheritanceIsReported ==
    ~err => \A i, n \in Log, p \in Pid, d \in Fd :
      /\ i < n /\ Opens(i, p, d)
      /\ \A j \in i+1 .. n-1 : ~Closes(j, p, d) /\ ~(Execs(j, p, d) /\ resources[j].cloexec)
      /\ Execs(n, p, d) /\ ~resources[n].cloexec
      /\ Crossed(n) \/ AtExec(n, p)
      => \E f \in InheritFindings : f.sequence = n

\* Once its process has logged anything but a snapshot after it, a finding is
\* final: no later EXEC_FAIL takes it away, although rollback searches all the
\* findings (model.c:354-391).
FinalOnceProcessMovesOn ==
    [][\A f \in InheritFindings : ~AtExec(f.sequence, f.pid) => f \in findings']_vars

\* The addresses held, counted on the log alone: an allocation adds one, a
\* release takes one away if there is one.
TakesBlock(ev, pid, ptr) == ev.kind \in {"FREE", "REALLOC"} /\ ev.pid = pid /\ ev.ptr = ptr

GivesBlock(ev, pid, ptr) ==
    /\ ev.pid = pid
    /\ \/ ev.kind = "ALLOC" /\ ev.ptr = ptr
       \/ ev.kind = "REALLOC" /\ ev.new_ptr = ptr

BalanceAfter(held, ev, pid, ptr) ==
    (IF TakesBlock(ev, pid, ptr) /\ held > 0 THEN held - 1 ELSE held)
      + (IF GivesBlock(ev, pid, ptr) THEN 1 ELSE 0)

Balances(log, pid, ptr) ==
    LET bal[n \in Nat] == IF n = 0 THEN 0 ELSE BalanceAfter(bal[n - 1], log[n], pid, ptr)
    IN  bal

Balance(pid, ptr) == Balances(resources, pid, ptr)[Len(resources)]

\* The allocation table agrees with that count and never with another process's
\* block at the same address (model.c:80-153).
AllocsMatchLog ==
    ~err => \A p \in Pid, a \in Ptr : Cardinality(Blocks(p, a)) = Balance(p, a)
=============================================================================
