---------------------------- MODULE ObservedRun ----------------------------
(***************************************************************************)
(* The traced run and the replay of its resource log, side by side.        *)
(*                                                                         *)
(* Replay says what p101-report makes of a log; this module says which     *)
(* logs the observed processes write, and keeps the truth the report is    *)
(* about: the descriptors each process really has open, and the snapshots  *)
(* whose descriptors really crossed into a new image.  The processes are   *)
(* external (the p101 wrappers); they are modelled from what the comments  *)
(* and the handlers of src/src/model.c rely on: an exec wrapper logs one   *)
(* EXEC record per open descriptor, then EXEC_FAIL if the call returns,    *)
(* and nothing if it does not.                                             *)
(*                                                                         *)
(* The report reads the log after the run.  A record is ingested here when *)
(* it is written, which is the same thing, since the replay depends on the *)
(* log's order alone.                                                      *)
(***************************************************************************)
EXTENDS Replay

CONSTANTS
    First,          \* the process the run starts with
    Worlds          \* the kinds of run there may be

\* What the processes of a run do, and how much of it is looked at.
World ==
    [interleave : BOOLEAN,      \* another process may log between the records of an attempt
     reexec : BOOLEAN,          \* a new image may exec before it logs anything else
     late_fork : BOOLEAN,       \* a child may log before its parent logs the FORK
     nested : BOOLEAN,          \* such a child may fork, too
     exiting : BOOLEAN,         \* processes may exit, and their pids be used again
     threads : BOOLEAN,         \* other threads may log while one is inside an exec or a fork
     fds : SUBSET Fd, targets : SUBSET Target,
     records : Nat]             \* bound on the length of the log

\* A call of an exec wrapper.
Call == [target : Target, site : Site]

ASSUME RunAssumption == First \in Pid /\ Worlds \subseteq World /\ Null \notin Call

VARIABLES
    world,          \* the kind of this run
    alive,          \* the processes that run
    open,           \* open[p]: the descriptors p has open
    keep,           \* keep[p]: those of them that are not close-on-exec
    call,           \* call[p]: the exec call p is inside, or Null
    todo,           \* todo[p]: the descriptors whose snapshot p has still to log
    snapshots,      \* snapshots[p]: <<fd, sequence>> of the open attempt's records
    unannounced,    \* <<parent, child>>: forked, the FORK record not yet logged
    fresh,          \* the processes that run a new image and have logged nothing yet
    crossed         \* the snapshot sequences of descriptors that crossed an exec

procs   == <<alive, open, keep, call, todo, snapshots, unannounced, fresh, crossed>>
runVars == <<vars, world, procs>>

RunInit ==
    /\ Init
    /\ world \in Worlds
    /\ alive = {First}
    /\ open = [x \in Pid |-> {}] /\ keep = [x \in Pid |-> {}]
    /\ call = [x \in Pid |-> Null]
    /\ todo = [x \in Pid |-> {}] /\ snapshots = [x \in Pid |-> {}]
    /\ unannounced = {} /\ fresh = {} /\ crossed = {}

InAttempt(x) == call[x] # Null

\* x is neither inside an exec nor inside a fork.
Free(x) ==
    /\ x \in alive
    /\ ~InAttempt(x)
    /\ \A y \in Pid : <<x, y>> \notin unannounced

\* Some thread of x runs user code.
UserRuns(x) == Free(x) \/ (world.threads /\ x \in alive)

\* The log is open to x: nobody else is in the middle of an attempt.
MayLog(x) == world.interleave \/ \A y \in Pid \ {x} : ~InAttempt(y)

UserLogs(x) ==
    /\ UserRuns(x) /\ MayLog(x)
    /\ fresh' = fresh \ {x}
    /\ UNCHANGED <<alive, call, unannounced, crossed>>

\* What a descriptor opened while the wrapper takes its snapshots does to them:
\* the wrapper may come past its number or not.
Notices(x, fd) ==
    \/ UNCHANGED todo
    \/ InAttempt(x) /\ todo' = [todo EXCEPT ![x] = @ \cup {fd}]

OpensFd(x, fd, survives) ==
    /\ UserLogs(x)
    /\ fd \notin open[x]
    /\ open' = [open EXCEPT ![x] = @ \cup {fd}]
    /\ keep' = [keep EXCEPT ![x] = IF survives THEN @ \cup {fd} ELSE @]
    /\ Notices(x, fd) /\ UNCHANGED snapshots
    /\ \E ev \in Inputs : ev.pid = x /\ ev.fd = fd /\ FdOpen(ev)

ClosesFd(x, fd) ==
    /\ UserLogs(x)
    /\ fd \in open[x]
    /\ open' = [open EXCEPT ![x] = @ \ {fd}]
    /\ keep' = [keep EXCEPT ![x] = @ \ {fd}]
    /\ todo' = [todo EXCEPT ![x] = @ \ {fd}]
    /\ snapshots' = [snapshots EXCEPT ![x] = {n \in @ : n[1] # fd}]
    /\ \E ev \in Inputs : ev.pid = x /\ ev.fd = fd /\ (FdClose(ev) \/ FdCloseStray(ev))

Forks(x, child) ==
    /\ Free(x)
    /\ child \in Pid \ alive
    /\ world.nested \/ \A y \in Pid : <<y, x>> \notin unannounced
    /\ alive' = alive \cup {child}
    /\ open' = [open EXCEPT ![child] = open[x]]
    /\ keep' = [keep EXCEPT ![child] = keep[x]]
    /\ UNCHANGED <<call, todo, snapshots, crossed>>
    /\ IF world.late_fork
         THEN unannounced' = unannounced \cup {<<x, child>>} /\ UNCHANGED <<vars, fresh>>
         ELSE /\ MayLog(x)
              /\ fresh' = fresh \ {x}
              /\ UNCHANGED unannounced
              /\ \E ev \in Inputs : ev.pid = x /\ ev.child_pid = child /\ Fork(ev)

LogsFork(x, child) ==
    /\ <<x, child>> \in unannounced
    /\ MayLog(x)
    /\ unannounced' = unannounced \ {<<x, child>>}
    /\ fresh' = fresh \ {x}
    /\ UNCHANGED <<alive, open, keep, call, todo, snapshots, crossed>>
    /\ \E ev \in Inputs : ev.pid = x /\ ev.child_pid = child /\ Fork(ev)

StartsExec(x, g) ==
    /\ Free(x) /\ MayLog(x)
    /\ world.reexec \/ x \notin fresh
    /\ \E site \in Site : call' = [call EXCEPT ![x] = [target |-> g, site |-> site]]
    /\ todo' = [todo EXCEPT ![x] = open[x]]
    /\ UNCHANGED <<vars, alive, open, keep, snapshots, unannounced, fresh, crossed>>

LogsSnapshot(x, fd) ==
    /\ fd \in todo[x]
    /\ MayLog(x)
    /\ todo' = [todo EXCEPT ![x] = @ \ {fd}]
    /\ snapshots' = [snapshots EXCEPT ![x] = @ \cup {<<fd, Sequence>>}]
    /\ \E ev \in Inputs :
         /\ ev.pid = x /\ ev.fd = fd /\ ev.target = call[x].target /\ ev.site = call[x].site
         /\ ev.cloexec = (fd \notin keep[x])
         /\ Exec(ev) \/ ExecUnknown(ev)
    /\ UNCHANGED <<alive, open, keep, call, unannounced, fresh, crossed>>

EndsAttempt(x) ==
    /\ InAttempt(x) /\ todo[x] = {}
    /\ call' = [call EXCEPT ![x] = Null]
    /\ snapshots' = [snapshots EXCEPT ![x] = {}]
    /\ UNCHANGED <<alive, todo, unannounced>>

\* The call does not return: the close-on-exec descriptors are gone.
ExecSucceeds(x) ==
    /\ EndsAttempt(x)
    /\ open' = [open EXCEPT ![x] = keep[x]]
    /\ crossed' = crossed \cup {n[2] : n \in {m \in snapshots[x] : m[1] \in keep[x]}}
    /\ fresh' = fresh \cup {x}
    /\ UNCHANGED <<vars, keep>>

ExecReturns(x) ==
    /\ EndsAttempt(x)
    /\ MayLog(x)
    /\ \E ev \in Inputs :
         /\ ev.pid = x /\ ev.target = call[x].target /\ ev.site = call[x].site
         /\ ExecFail(ev)
    /\ fresh' = fresh \ {x}
    /\ UNCHANGED <<open, keep, crossed>>

\* An exit logs nothing; the descriptors x had open are the leaks of the report.
Exits(x) ==
    /\ world.exiting
    /\ Free(x)
    /\ alive' = alive \ {x}
    /\ open' = [open EXCEPT ![x] = {}]
    /\ keep' = [keep EXCEPT ![x] = {}]
    /\ fresh' = fresh \ {x}
    /\ UNCHANGED <<vars, call, todo, snapshots, unannounced, crossed>>

\* Everything a process may do next.
Runs(x) ==
    \/ \E fd \in world.fds : OpensFd(x, fd, TRUE) \/ OpensFd(x, fd, FALSE)
    \/ \E fd \in world.fds : ClosesFd(x, fd) \/ LogsSnapshot(x, fd)
    \/ \E child \in Pid : Forks(x, child) \/ LogsFork(x, child)
    \/ \E g \in world.targets : StartsExec(x, g)
    \/ ExecSucceeds(x) \/ ExecReturns(x)
    \/ Exits(x)

RunNext ==
    /\ \E x \in Pid : Runs(x)
    /\ Len(resources') <= world.records
    /\ UNCHANGED world

RunSpec == RunInit /\ [][RunNext]_runVars

-----------------------------------------------------------------------------
(* Properties, all of the state in which no attempt and no fork is half    *)
(* logged and memory has not run out: what the report says if the run      *)
(* stops there.                                                            *)

Quiescent == ~err /\ unannounced = {} /\ \A x \in Pid : ~InAttempt(x)

Reported == {f.sequence : f \in InheritFindings}

\* Only descriptors crossing a successful image boundary are reported
\* (README.md:19-20; model.c:332-396).
NoFalseReport == Quiescent => Reported \subseteq crossed

\* That holds wherever the records of an attempt are not torn apart: also when
\* children log before their FORK record, when pids are used again, and when an image
\* execs at once (model.c:183, 360-372).
NoFalseReportUntorn == ~world.interleave /\ ~world.threads => NoFalseReport

\* A thread closed the descriptor of snapshot n before the exec.
ClosedInside(n) ==
    world.threads /\ \E k \in Log : k > n /\ Closes(k, resources[n].pid, resources[n].fd)

\* Whatever the world, nothing else makes a report false: a snapshot that is
\* reported though its descriptor did not cross belongs to an exec that failed, and
\* another process or thread logged something between it and the EXEC_FAIL; or
\* another thread closed the descriptor before the exec (model.c:360-391).
FalseReportsAreBrokenUp ==
    Quiescent => \A n \in Reported \ crossed :
      (\E k \in Log : FailsAt(n, k) /\ BrokenUp(n, k)) \/ ClosedInside(n)

\* Every descriptor that crossed is reported, whatever fails later: an earlier
\* successful exec of the same target remains a finding (model.c:354-359).
NoLostReport == Quiescent => crossed \subseteq Reported

\* That holds wherever a new image logs something before it execs and every child is
\* known from its own FORK on: also when processes and threads log in the middle
\* of each other's attempts (model.c:24-27, 360-372).
Announced == ~world.late_fork /\ ~world.exiting

NoLostReportAnnounced == ~world.reexec /\ Announced => NoLostReport

\* An entry whose descriptor a crossed exec has already closed, though no record
\* of its process has shown that yet.
Doomed(e) == e.exec_pending /\ e.exec_cloexec

\* The table holds exactly the descriptors that are open: every one of them, once,
\* and otherwise only those a crossed exec has closed, also when processes log in the
\* middle of each other's attempts (model.c:45-79, 154-201, 286-330).
TableTracksOpen ==
    Quiescent /\ ~world.threads /\ ~world.reexec /\ Announced => \A x \in Pid, fd \in Fd :
      LET held == {e \in Entries(fds, x, fd) : ~Doomed(e)}
      IN  IF fd \in open[x] THEN Cardinality(held) = 1 ELSE held = {}

\* Every child is known from its own FORK on, or the parent has no other thread that
\* could close something in between, and no child forks before it is known.
Orderly == ~world.exiting /\ ~(world.late_fork /\ (world.threads \/ world.nested))

\* The weaker half, which holds also when a child logs before its FORK record and
\* when an image execs at once: what a process has open is in the table.  Where other
\* threads log while one is inside an exec that fails, only close-on-exec ones
\* are swept away (model.c:24-27, 161-190, 302-328).
TableCoversOpen ==
    Quiescent /\ Orderly =>
      \A x \in Pid : \A fd \in IF world.threads THEN keep[x] ELSE open[x] :
        Entries(fds, x, fd) # {}
=============================================================================
