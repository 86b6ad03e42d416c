----------------------------- MODULE MCRecords -----------------------------
(* Short names for the records of the instances TLC checks.                *)
CONSTANTS
    s,              \* the one source site
    Nil             \* Null of Replay

Blank(kind, pid) ==
    [kind |-> kind, pid |-> pid, child_pid |-> Nil, fd |-> Nil, cloexec |-> FALSE,
     ptr |-> Nil, new_ptr |-> Nil, target |-> Nil, site |-> s]

OnFd(kind, pid, fd)    == [Blank(kind, pid) EXCEPT !.fd = fd]
ExecOf(pid, fd, g, cx) == [Blank("EXEC", pid) EXCEPT !.fd = fd, !.target = g, !.cloexec = cx]
FailOf(pid, g)         == [Blank("EXEC_FAIL", pid) EXCEPT !.target = g]
ForkOf(pid, child)     == [Blank("FORK", pid) EXCEPT !.child_pid = child]
OnPtr(kind, pid, x)    == [Blank(kind, pid) EXCEPT !.ptr = x]
Moves(pid, x, y)       == [OnPtr("REALLOC", pid, x) EXCEPT !.new_ptr = y]
=============================================================================
