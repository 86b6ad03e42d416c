--------------------------- MODULE MCObservedRun ---------------------------
(* Instances of ObservedRun for TLC: every record its processes may write, *)
(* and the kinds of run that are checked.                                  *)
EXTENDS ObservedRun, MCRecords

CONSTANTS p, q, t, u

RunInputs ==
    {OnFd(k, x, fd) : k \in {"FD_OPEN", "FD_CLOSE"}, x \in Pid, fd \in Fd}
      \cup {ForkOf(x, y) : x, y \in Pid}
      \cup {ExecOf(x, fd, g, cx) : x \in Pid, fd \in Fd, g \in Target, cx \in BOOLEAN}
      \cup {FailOf(x, g) : x \in Pid, g \in Target}

\* Attempts logged without interruption, by two descriptors and one target.
Ordered ==
    [interleave |-> FALSE, reexec |-> FALSE, late_fork |-> FALSE, nested |-> TRUE,
     exiting |-> FALSE, threads |-> FALSE, fds |-> {3, 4}, targets |-> {t}, records |-> 6]

Interleaved == [Ordered EXCEPT !.interleave = TRUE, !.fds = {3}]
TwoTargets  == [Interleaved EXCEPT !.targets = {t, u}, !.records = 5]
LateFork    == [Ordered EXCEPT !.late_fork = TRUE, !.nested = FALSE, !.records = 5]
Threaded    == [Ordered EXCEPT !.threads = TRUE, !.records = 5]
Reused      == [Ordered EXCEPT !.exiting = TRUE, !.fds = {3}]
Reexecuted  == [Ordered EXCEPT !.reexec = TRUE, !.fds = {3}]

AllWorlds == {Ordered, Interleaved, TwoTargets, LateFork, Threaded, Reused, Reexecuted}

TornWorld == {Interleaved}

ReexecWorld == {Reexecuted}
=============================================================================
