--------------------------- MODULE MCReplayArrays ---------------------------
(***************************************************************************)
(* Instances of ReplayArrays for TLC.  A log holds the records of one of   *)
(* two sets; memory may run out in the second.                             *)
(***************************************************************************)
EXTENDS ReplayArrays, MCRecords

CONSTANTS p, q, c, d, t, a, b    \* pids, descriptors, a target, addresses

\* One process with two descriptors that forks another: sweeps and rollbacks over
\* entries that are not neighbours.
ExecInputs ==
    {OnFd("FD_OPEN", p, c), OnFd("FD_OPEN", p, d), OnFd("FD_CLOSE", p, c),
     OnFd("FD_CLOSE", q, d), ForkOf(p, q), FailOf(p, t),
     ExecOf(q, d, t, FALSE), Blank("SPAWN", p), Blank("GENERIC", q)}
      \cup {ExecOf(p, fd, t, cx) : fd \in {c, d}, cx \in BOOLEAN}

\* Two descriptors closed by one exec, forks and blocks, where memory may run out.
FaultInputs ==
    {OnFd("FD_OPEN", p, c), OnFd("FD_OPEN", p, d), ForkOf(p, q),
     ExecOf(p, c, t, TRUE), ExecOf(p, d, t, TRUE),
     OnPtr("ALLOC", p, a), OnPtr("FREE", p, a), Moves(p, a, b)}

AllInputs == ExecInputs \cup FaultInputs

Plain == Range(resources) \subseteq ExecInputs

Faulty == Range(resources) \subseteq FaultInputs

\* The library reports on short logs only: its findings are appended to the others.
Reports == Len(findings') > Len(findings) => Len(resources) <= 2

\* Two requests are as many as a loop over these descriptors makes.
TopicNext ==
    \/ Plain /\ (\E ev \in ExecInputs : Ingest(ev, 2)) /\ ~err'
    \/ Plain /\ Finalize(2) /\ ~err' /\ Reports
    \/ Faulty /\ \E ev \in FaultInputs, granted \in Granted : Ingest(ev, granted)
    \/ Faulty /\ (\E granted \in Granted : Finalize(granted)) /\ Reports

TopicSpec == Init /\ [][TopicNext]_vars
=============================================================================
