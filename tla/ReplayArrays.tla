---------------------------- MODULE ReplayArrays ----------------------------
(***************************************************************************)
(* The loops of src/src/model.c on the arrays they work on.                *)
(*                                                                         *)
(* Replay says what a record does to the tables as sets.  Here the tables  *)
(* are the arrays of struct report_model: an entry is removed by moving    *)
(* the last one into its place, the first match is the one taken, the      *)
(* fork loop appends to the array it runs over, the rollback compacts the  *)
(* findings in place, and a loop that runs out of memory stops where it    *)
(* is.  Replay is the abstract specification: the range of every array is  *)
(* the set of the same name.                                               *)
(***************************************************************************)
EXTENDS Integers, Sequences, SequencesExt

CONSTANTS
    Pid, Fd, Ptr, Target, Site, Null, Inputs, Outcomes, MaxRecords, MaxReported,
    Granted         \* how many requests of one loop memory may suffice for

VARIABLES resources, fds, closed_fds, allocs, freed_allocs, findings, err, finalized

vars == <<resources, fds, closed_fds, allocs, freed_allocs, findings, err, finalized>>

Abstract == INSTANCE Replay
    WITH fds <- Range(fds), closed_fds <- Range(closed_fds), allocs <- Range(allocs),
         freed_allocs <- Range(freed_allocs), findings <- Range(findings)

\* A loop may run out of memory, and so may a single request.
ASSUME ArraysAssumption ==
    /\ Granted \subseteq Nat /\ FALSE \in Outcomes
    /\ Abstract!ReplayAssumption

-----------------------------------------------------------------------------
(* The array idioms.                                                       *)

\* array[i] = array[count - 1], count--
Drop(array, i) ==
    IF i = Len(array) THEN Front(array) ELSE Front([array EXCEPT ![i] = Last(array)])

-----------------------------------------------------------------------------
(* p101_report_finish_exec.  `granted` requests succeed, the next one sets *)
(* the error.                                                              *)

Sweeping(granted) ==
    [fds |-> fds, closed |-> closed_fds, err |-> FALSE, granted |-> granted, index |-> 1]

\* The close-on-exec entry at the index leaves, recorded as closed if it can be.
CloseOnExec(state) ==
    LET e == state.fds[state.index]
        grows == state.granted > 0
    IN  [state EXCEPT
           !.closed = IF grows THEN Append(@, <<e.pid, e.fd>>) ELSE @,
           !.granted = IF grows THEN @ - 1 ELSE @,
           !.err = ~grows,
           !.fds = Drop(@, state.index)]

\* Mutant: the entry moved into the gap is not looked at.
SweepOnePassing(pid, at_end, state) ==
    LET e == state.fds[state.index]
        swept == IF e.exec_cloexec THEN CloseOnExec(state)
                 ELSE IF at_end THEN [state EXCEPT !.fds = Drop(@, state.index)]
                 ELSE [state EXCEPT !.fds[state.index] = Abstract!Cleared(e)]
    IN  [swept EXCEPT !.index = @ + 1]

SweepOne(pid, at_end, state) ==
    LET e == state.fds[state.index]
    IN  IF e.exec_cloexec THEN CloseOnExec(state)
        ELSE IF at_end THEN [state EXCEPT !.fds = Drop(@, state.index)]
        ELSE [state EXCEPT !.fds[state.index] = Abstract!Cleared(e), !.index = @ + 1]

\* One round of the loop.
SweepRound(pid, at_end, state) ==
    IF state.err \/ state.index > Len(state.fds) THEN state
    ELSE LET e == state.fds[state.index]
         IN  IF e.pid = pid /\ e.exec_pending THEN SweepOne(pid, at_end, state)
             ELSE [state EXCEPT !.index = @ + 1]

\* The loop.  A round takes the entry away or leaves it behind, so there are no more
\* rounds than entries.
Sweep(pid, at_end, state) ==
    LET after[n \in 0 .. Len(state.fds)] ==
          IF n = 0 THEN state ELSE SweepRound(pid, at_end, after[n - 1])
    IN  after[Len(state.fds)]

\* The sweep before a record of ev's kind and process.
Settle(ev, granted) ==
    IF ev.kind \in {"EXEC", "EXEC_FAIL"} THEN Sweeping(granted)
    ELSE Sweep(ev.pid, FALSE, Sweeping(granted))

\* The loop at the end of the stream looks from the start, again after every sweep,
\* for an entry to sweep for.
EndRound(state) ==
    LET at == SelectInSeq(state.fds, LAMBDA e : e.exec_pending)
    IN  IF state.err \/ at = 0 THEN state
        ELSE Sweep(state.fds[at].pid, TRUE, [state EXCEPT !.index = 1])

\* A sweep takes at least that entry away.
SweepAll(granted) ==
    LET after[n \in 0 .. Len(fds)] ==
          IF n = 0 THEN Sweeping(granted) ELSE EndRound(after[n - 1])
    IN  after[Len(fds)]

-----------------------------------------------------------------------------
(* The loops of the other records.                                         *)

\* The index of the first entry of a table for a slot; 0 if there is none.
FdIndex(table, pid, fd) ==
    SelectInSeq(table, LAMBDA e : e.pid = pid /\ e.fd = fd)

BlockIndex(pid, ptr) ==
    SelectInSeq(allocs, LAMBDA a : a.pid = pid /\ a.ptr = ptr)

\* One round of the loop of FORK: the child's tables are searched for e's number.
Give(ev, e, state) ==
    IF \/ state.err
       \/ e.pid # ev.pid
       \/ FdIndex(state.fds, ev.child_pid, e.fd) # 0
       \/ Contains(state.closed, <<ev.child_pid, e.fd>>)
      THEN state
    ELSE IF state.granted = 0 THEN [state EXCEPT !.err = TRUE]
    ELSE [state EXCEPT !.granted = @ - 1,
            !.fds = Append(@, Abstract!NewFd(ev.child_pid, e.fd, e.site))]

\* The loop, over the entries there were before it.
Inherit(ev, start) ==
    LET after[n \in 0 .. Len(start.fds)] ==
          IF n = 0 THEN start ELSE Give(ev, after[n - 1].fds[n], after[n - 1])
    IN  after[Len(start.fds)]

\* first_sequence of the rollback: the walk over the records before the EXEC_FAIL.
FirstSequence(ev) ==
    LET first[n \in 0 .. Len(resources)] ==
          IF n > 0 /\ Abstract!AttemptMatches(resources[n], ev) THEN first[n - 1] ELSE n + 1
    IN  first[Len(resources)]

\* Mutant: earlier attempts are searched too.
FindingMatchesAnywhere(f, ev) ==
    f.kind = "EXEC_INHERIT" /\ f.pid = ev.pid /\ f.target = ev.target

\* p101_report_exec_finding_matches
FindingMatches(f, ev) ==
    /\ f.kind = "EXEC_INHERIT"
    /\ f.pid = ev.pid
    /\ f.sequence >= FirstSequence(ev)
    /\ f.target # Null
    /\ f.target = ev.target

\* One round of the in-place compaction: an item that stays is copied down to the
\* write index.
Copy(ev, read, state) ==
    LET item == state.items[read]
    IN  IF FindingMatches(item, ev) THEN state
        ELSE [items |-> [state.items EXCEPT ![state.write + 1] = item],
              write |-> state.write + 1]

Compact(ev) ==
    LET after[n \in 0 .. Len(findings)] ==
          IF n = 0 THEN [items |-> findings, write |-> 0] ELSE Copy(ev, n, after[n - 1])
        done == after[Len(findings)]
    IN  SubSeq(done.items, 1, done.write)

-----------------------------------------------------------------------------
Init ==
    /\ resources = <<>>
    /\ fds = <<>> /\ closed_fds = <<>>
    /\ allocs = <<>> /\ freed_allocs = <<>>
    /\ findings = <<>>
    /\ err = FALSE
    /\ finalized = FALSE

Reading == ~err /\ ~finalized /\ Len(resources) < MaxRecords

\* The record is swept for and stored; `now` are the descriptor tables then.
Stored(ev, now) ==
    /\ Reading
    /\ ~now.err
    /\ resources' = Append(resources, ev)
    /\ UNCHANGED finalized

Tables(now) == fds' = now.fds /\ closed_fds' = now.closed

KeepAllocs == UNCHANGED <<allocs, freed_allocs>>

Pushed(array, e, grows) == IF grows THEN Append(array, e) ELSE array

FdOpen(ev, now) == \E adopted, grows \in Outcomes :
    /\ ev.kind = "FD_OPEN"
    /\ fds' = Pushed(now.fds, Abstract!NewFd(ev.pid, ev.fd, ev.site), grows)
    /\ closed_fds' = now.closed
    /\ err' = ~(adopted /\ grows)
    /\ KeepAllocs /\ UNCHANGED findings

FdClose(ev, now) == \E adopted, grows \in Outcomes :
    LET at == FdIndex(now.fds, ev.pid, ev.fd)
    IN  /\ ev.kind = "FD_CLOSE"
        /\ IF at = 0
             THEN Tables(now) /\ err' = ~adopted
             ELSE /\ fds' = Drop(now.fds, at)
                  /\ closed_fds' = Pushed(now.closed, <<ev.pid, ev.fd>>, grows)
                  /\ err' = ~(adopted /\ grows)
        /\ KeepAllocs /\ UNCHANGED findings

\* Growing the table and copying the address: the entry is there if it grew.
Gain(array, pid, ptr, grows, copied) ==
    Pushed(array, [pid |-> pid, ptr |-> IF copied THEN ptr ELSE Null,
                   sequence |-> Abstract!Sequence], grows)

AllocStore(ev, now) == \E adopted, grows, copied \in Outcomes :
    /\ ev.kind = "ALLOC"
    /\ Tables(now)
    /\ allocs' = IF ev.ptr = Null THEN allocs ELSE Gain(allocs, ev.pid, ev.ptr, grows, copied)
    /\ err' = ~(adopted /\ (ev.ptr = Null \/ (grows /\ copied)))
    /\ UNCHANGED <<freed_allocs, findings>>

Free(ev, now) == \E adopted, grows, copied \in Outcomes :
    LET at == BlockIndex(ev.pid, ev.ptr)
    IN  /\ ev.kind = "FREE"
        /\ Tables(now)
        /\ IF at = 0
             THEN KeepAllocs /\ err' = ~adopted
             ELSE /\ allocs' = Drop(allocs, at)
                  /\ freed_allocs' = Gain(freed_allocs, ev.pid, ev.ptr, grows, copied)
                  /\ err' = ~(adopted /\ grows /\ copied)
        /\ UNCHANGED findings

Realloc(ev, now) == \E adopted, grows, copied \in Outcomes :
    LET at == IF ev.ptr = Null THEN 0 ELSE BlockIndex(ev.pid, ev.ptr)
        left == IF at = 0 THEN allocs ELSE Drop(allocs, at)
    IN  /\ ev.kind = "REALLOC"
        /\ Tables(now)
        /\ allocs' = IF ev.new_ptr = Null THEN left
                     ELSE Gain(left, ev.pid, ev.new_ptr, grows, copied)
        /\ err' = ~(adopted /\ (ev.new_ptr = Null \/ (grows /\ copied)))
        /\ UNCHANGED <<freed_allocs, findings>>

Fork(ev, now) == \E adopted \in Outcomes, granted \in Granted :
    LET after == Inherit(ev, [now EXCEPT !.err = ~adopted, !.granted = granted])
    IN  /\ ev.kind = "FORK"
        /\ Tables(after)
        /\ err' = after.err
        /\ KeepAllocs /\ UNCHANGED findings

Exec(ev, now) == \E adopted, grows \in Outcomes :
    LET at == FdIndex(now.fds, ev.pid, ev.fd)
        reports == at # 0 /\ Abstract!ExecInherits(ev.cloexec)
    IN  /\ ev.kind = "EXEC"
        /\ fds' = IF at = 0 THEN now.fds
                  ELSE [now.fds EXCEPT ![at].exec_pending = TRUE,
                                       ![at].exec_cloexec = ev.cloexec,
                                       ![at].exec_sequence = Abstract!Sequence]
        /\ closed_fds' = now.closed
        /\ findings' = Pushed(findings, Abstract!InheritFinding(ev, now.fds[at]),
                              reports /\ adopted /\ grows)
        /\ err' = ~(adopted /\ (reports => grows))
        /\ KeepAllocs

ExecFail(ev, now) == \E adopted \in Outcomes :
    /\ ev.kind = "EXEC_FAIL"
    /\ fds' = [i \in DOMAIN now.fds |->
                 LET e == now.fds[i]
                 IN  IF e.pid = ev.pid /\ e.exec_pending THEN Abstract!Cleared(e) ELSE e]
    /\ closed_fds' = now.closed
    /\ findings' = Compact(ev)
    /\ err' = ~adopted
    /\ KeepAllocs

\* SPAWN and GENERIC: no case of the switch does anything for them.
Other(ev, now) == \E adopted \in Outcomes :
    /\ ev.kind \in {"SPAWN", "GENERIC"}
    /\ Tables(now)
    /\ err' = (ev.kind = "GENERIC" /\ ~adopted)
    /\ KeepAllocs /\ UNCHANGED findings

\* The record is not stored: the sweep or the copy of the record failed.
NotStored(now) ==
    /\ Reading
    /\ now.err \/ FALSE \in Outcomes
    /\ Tables(now)
    /\ err' = TRUE
    /\ KeepAllocs /\ UNCHANGED <<resources, findings, finalized>>

\* p101_report_ingest_resource
Ingest(ev, granted) ==
    LET now == Settle(ev, granted)
    IN  \/ /\ Stored(ev, now)
           /\ \/ FdOpen(ev, now) \/ FdClose(ev, now)
              \/ AllocStore(ev, now) \/ Free(ev, now) \/ Realloc(ev, now)
              \/ Fork(ev, now) \/ Exec(ev, now) \/ ExecFail(ev, now) \/ Other(ev, now)
        \/ NotStored(now)

\* p101_report_finalize_leaks; what the lifecycle library reports is appended.
Finalize(granted) ==
    LET now == SweepAll(granted)
    IN  /\ ~err /\ ~finalized
        /\ Tables(now)
        /\ finalized' = TRUE
        /\ IF now.err
             THEN err' = TRUE /\ UNCHANGED findings
             ELSE /\ err' \in {~ok : ok \in Outcomes}
                  /\ \E reported \in SeqOf(Abstract!Reportable, MaxReported) :
                       findings' = findings \o reported
        /\ KeepAllocs /\ UNCHANGED resources

Next == \E granted \in Granted :
    (\E ev \in Inputs : Ingest(ev, granted)) \/ Finalize(granted)

Spec == Init /\ [][Next]_vars

-----------------------------------------------------------------------------
(* Properties.                                                             *)

\* The loops do to the arrays what Replay says a record does to the tables: every
\* step of the arrays is a step of the sets (model.c:45-200, 264-396).
RefinesReplay == Abstract!Spec

\* Findings come and go at the end of the array only: what a rollback takes away are
\* always the latest, although it searches and compacts all of them
\* (model.c:374-392).
FindingsAreAStack ==
    [][IsPrefix(findings, findings') \/ IsPrefix(findings', findings)]_vars
=============================================================================
