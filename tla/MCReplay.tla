------------------------------ MODULE MCReplay ------------------------------
(***************************************************************************)
(* Instances of Replay, and of the lifetimes listed for the same log.      *)
(*                                                                         *)
(* A log stays within one topic: a set of records that bear on each other, *)
(* with a length of its own.  Memory fails in one topic only.              *)
(***************************************************************************)
EXTENDS Lifetimes, MCRecords

CONSTANTS p, q, d, t, u, a, b, x, y, heap, lock
    \* pids, a descriptor, targets, addresses, identities, classes

\* One process that opens, closes, and execs two targets.
ExecInputs ==
    {OnFd("FD_OPEN", p, d), OnFd("FD_CLOSE", p, d), Blank("SPAWN", p),
     ExecOf(p, d, t, FALSE), ExecOf(p, d, t, TRUE), FailOf(p, t), FailOf(p, u)}

\* Two processes that fork each other, in any order of their records.
ForkInputs ==
    {OnFd(k, pid, d) : k \in {"FD_OPEN", "FD_CLOSE"}, pid \in {p, q}}
      \cup {ForkOf(p, q), ForkOf(q, p), Blank("SPAWN", q)}
      \cup {ExecOf(q, d, t, cx) : cx \in BOOLEAN} \cup {FailOf(q, t)}

\* Two processes with the same two addresses: blocks that are released, moved, given
\* out again, or that could not be had.
AllocInputs ==
    {OnPtr(k, p, z) : k \in {"ALLOC", "FREE"}, z \in {a, b}}
      \cup {OnPtr("ALLOC", p, Null), OnPtr("ALLOC", q, a), OnPtr("FREE", q, a)}
      \cup {Moves(p, a, b), Moves(p, Null, a), Moves(p, b, Null)}

\* What generic records say: one identity passed on to another and back, beside
\* another class.  The site that writes it is named by it.
Said ==
    {g \in [op : Operation, class : {heap, lock}, id : {x, y}, related : {x, y, Null}] :
       \/ g.class = heap /\ g.op \in {"ACQUIRE", "RELEASE"} /\ g.related = Null
       \/ g.class = heap /\ g.op = "REPLACE" /\ g.related \notin {g.id, Null}
       \/ g.class = heap /\ g.op = "TRANSFER" /\ g.id = x /\ g.related # x
       \/ g.class = lock /\ g.op \in {"ACQUIRE", "RELEASE"} /\ g.id = x /\ g.related = Null}

Sites == {s} \cup Said

SiteWrites == [site \in Sites |-> IF site = s THEN NoDetail ELSE site]

Say(pid, g) == [Blank("GENERIC", pid) EXCEPT !.site = g]

GenericInputs ==
    {Say(p, g) : g \in Said}
      \cup {Say(q, g) : g \in {h \in Said : h.op \in {"ACQUIRE", "RELEASE"} /\ h.id = x}}

\* A record of every kind, for the logs during which memory may run out.
MixedInputs ==
    {OnFd("FD_OPEN", p, d), OnFd("FD_CLOSE", p, d), ForkOf(p, q), Blank("SPAWN", p),
     ExecOf(p, d, t, FALSE), ExecOf(p, d, t, TRUE), FailOf(p, t),
     OnPtr("ALLOC", p, a), OnPtr("FREE", p, a), Moves(p, a, b)}
      \cup {Say(q, g) : g \in {h \in Said : h.class = lock /\ h.op = "ACQUIRE"}}

AllInputs == ExecInputs \cup ForkInputs \cup AllocInputs \cup GenericInputs \cup MixedInputs

Topics ==
    {[inputs |-> ExecInputs,    length |-> 6, reliable |-> TRUE],
     [inputs |-> ForkInputs,    length |-> 5, reliable |-> TRUE],
     [inputs |-> AllocInputs,   length |-> 5, reliable |-> TRUE],
     [inputs |-> GenericInputs, length |-> 4, reliable |-> TRUE],
     [inputs |-> MixedInputs,   length |-> 4, reliable |-> FALSE]}

\* The topics a log may have that holds the records of this one.
Open == {topic \in Topics : Range(resources) \subseteq topic.inputs /\ Len(resources) <= topic.length}

\* One more record of the topic, or the end of the log.
TopicNext == \E topic \in Open :
    /\ \/ \E ev \in topic.inputs : Len(resources) < topic.length /\ Ingest(ev)
       \/ Finalize
       \/ FinalizeFails
    /\ topic.reliable => ~err' /\ Cardinality(findings' \ InheritFindings') = 0

TopicSpec == Init /\ [][TopicNext]_vars
=============================================================================
