----------------------------- MODULE Lifetimes -----------------------------
(***************************************************************************)
(* The resource lifetimes the report lists (src/src/lifetime.c,            *)
(* lifetime_common.c, lifetime_mermaid.c).                                 *)
(*                                                                         *)
(* A lifetime begins with a record that opens, allocates or acquires       *)
(* something, and its end is searched among the later records of the       *)
(* stored log.  Nothing is kept between the searches and nothing is shared *)
(* with the tables of the replay, so the list and the findings of one      *)
(* report are two answers to the same question: this module sets them side *)
(* by side, in every state of Replay.                                      *)
(***************************************************************************)
EXTENDS Replay, FiniteSetsExt

CONSTANTS
    Class, Id,      \* classes and identities of generic resources
    Writes,         \* what the generic record a source site writes says
    TextLimit       \* LIFETIME_TEXT_LIMIT

Operation == {"ACQUIRE", "RELEASE", "REPLACE", "TRANSFER"}

\* The fields of struct resource_event that only a generic record carries.
Detail ==
    [op : Operation, class : Class, id : Id, related : Id \cup {Null}]

NoDetail == [op |-> Null, class |-> Null, id |-> Null, related |-> Null]

\* Every generic record a site writes says the same: there are as many sites as
\* there are things to say.
ASSUME LifetimesAssumption ==
    /\ Writes \in [Site -> Detail \cup {NoDetail}]
    /\ \A ev \in Inputs : ev.kind = "GENERIC" <=> Writes[ev.site] # NoDetail
    /\ TextLimit \in Nat

\* Those fields of the stored record i.
DetailOf(i) == Writes[resources[i].site]

-----------------------------------------------------------------------------
(* Births: each rendering has a test of its own for them, below.           *)

\* A generic record that passes a resource on under a new identity.
HandsOn(i) ==
    DetailOf(i).op \in {"REPLACE", "TRANSFER"} /\ DetailOf(i).related # Null

\* What is born: the address an allocation yields, the identity a generic record
\* gives out (p101_report_generic_birth_id).
BirthPtr(i) == IF resources[i].kind = "ALLOC" THEN resources[i].ptr ELSE resources[i].new_ptr

BirthId(i) == IF DetailOf(i).op = "ACQUIRE" THEN DetailOf(i).id ELSE DetailOf(i).related

-----------------------------------------------------------------------------
(* Ends: 0 stands for the NULL of a search that found none.                *)

Least(found) == IF found = {} THEN 0 ELSE Min(found)

After(i) == i + 1 .. Len(resources)

SamePid(i, j) == resources[j].pid = resources[i].pid

FdEndOfAnyPid(i) ==                                             \* mutant
    Least({j \in After(i) : resources[j].kind = "FD_CLOSE" /\ resources[j].fd = resources[i].fd})

\* p101_report_find_fd_lifetime_end
FdEnd(i) == Least({j \in After(i) : Closes(j, resources[i].pid, resources[i].fd)})

EndsBlock(j, i) ==
    /\ resources[j].kind \in {"FREE", "REALLOC"}
    /\ SamePid(i, j)
    /\ resources[j].ptr = BirthPtr(i)

AllocEndOnFree(i) ==                  \* mutant: a reallocation does not end a block
    Least({j \in After(i) : EndsBlock(j, i) /\ resources[j].kind = "FREE"})

\* p101_report_find_alloc_lifetime_end.  The address of a block that could not be
\* had is spelt "-" in birth and end alike, and those match too.
AllocEnd(i) == Least({j \in After(i) : EndsBlock(j, i)})

EndsGeneric(j, i) ==
    /\ resources[j].kind = "GENERIC"
    /\ SamePid(i, j)
    /\ DetailOf(j).op = "RELEASE" \/ HandsOn(j)
    /\ DetailOf(j).class = DetailOf(i).class
    /\ DetailOf(j).id = BirthId(i)

\* p101_report_find_generic_lifetime_end
GenericEnd(i) == Least({j \in After(i) : EndsGeneric(j, i)})

-----------------------------------------------------------------------------
(* The three renderings: the lifetimes each one shows.  Each is a loop over *)
(* the log with a test and a choice of the search of its own; json[n],      *)
(* text[n] and drawn[n] are what it has after n records.  A rendering's     *)
(* death of a record that begins no lifetime is NoLifetime.                 *)

NoLifetime == -1

\* What p101_report_print_json_lifetimes does not pass over.
IsBirth(i) ==
    LET kind == resources[i].kind
        op   == DetailOf(i).op
    IN  ~ /\ kind # "FD_OPEN" /\ kind # "ALLOC"
          /\ ~(kind = "REALLOC" /\ resources[i].new_ptr # Null)
          /\ ~ /\ kind = "GENERIC"
               /\ op = "ACQUIRE" \/ (op \in {"REPLACE", "TRANSFER"} /\ DetailOf(i).related # Null)

\* The search p101_report_print_json_lifetime chooses.
End(i) ==
    CASE resources[i].kind = "FD_OPEN" -> FdEnd(i)
      [] resources[i].kind \in {"ALLOC", "REALLOC"} -> AllocEnd(i)
      [] OTHER -> GenericEnd(i)

Lifetime(i) == [birth |-> i, death |-> End(i)]

\* p101_report_print_json_lifetimes
JsonRound(shown, i) == IF IsBirth(i) THEN Append(shown, Lifetime(i)) ELSE shown

JsonRows ==
    LET json[n \in Nat] == IF n = 0 THEN <<>> ELSE JsonRound(json[n - 1], n) IN json

JsonLifetimes == JsonRows[Len(resources)]

\* Mutant: what is handed on begins no lifetime of the text.
TextDeathOfAcquired(i) ==
    LET r == resources[i] IN
    CASE r.kind = "FD_OPEN" -> FdEnd(i)
      [] r.kind = "ALLOC" \/ (r.kind = "REALLOC" /\ r.new_ptr # Null) -> AllocEnd(i)
      [] r.kind = "GENERIC" /\ DetailOf(i).op = "ACQUIRE" -> GenericEnd(i)
      [] OTHER -> NoLifetime

\* The three branches of p101_report_print_text_lifetimes.
TextDeath(i) ==
    LET r  == resources[i]
        op == DetailOf(i).op
    IN  CASE r.kind = "FD_OPEN" -> FdEnd(i)
          [] r.kind = "ALLOC" \/ (r.kind = "REALLOC" /\ r.new_ptr # Null) -> AllocEnd(i)
          [] /\ r.kind = "GENERIC"
             /\ op = "ACQUIRE" \/ (op \in {"REPLACE", "TRANSFER"} /\ DetailOf(i).related # Null)
               -> GenericEnd(i)
          [] OTHER -> NoLifetime

\* One round of its loop.
Count(report, i) ==
    IF TextDeath(i) = NoLifetime THEN report
    ELSE [total |-> report.total + 1,
          shown |-> IF Len(report.shown) >= TextLimit THEN report.shown
                    ELSE Append(report.shown, [birth |-> i, death |-> TextDeath(i)])]

TextRows ==
    LET text[n \in Nat] ==
          IF n = 0 THEN [total |-> 0, shown |-> <<>>] ELSE Count(text[n - 1], n)
    IN  text

TextLifetimes == TextRows[Len(resources)]

\* The three branches of p101_report_print_mermaid_lifetimes.
MermaidDeath(i) ==
    LET r  == resources[i]
        op == DetailOf(i).op
    IN  CASE r.kind = "FD_OPEN" -> FdEnd(i)
          [] r.kind = "ALLOC" \/ (r.kind = "REALLOC" /\ r.new_ptr # Null) -> AllocEnd(i)
          [] /\ r.kind = "GENERIC"
             /\ op = "ACQUIRE" \/ (op \in {"REPLACE", "TRANSFER"} /\ DetailOf(i).related # Null)
               -> GenericEnd(i)
          [] OTHER -> NoLifetime

\* One round of its loop: it stops at the limit, and does not say so.
Draw(drawn, i) ==
    IF MermaidDeath(i) # NoLifetime /\ Len(drawn) < TextLimit
    THEN Append(drawn, [birth |-> i, death |-> MermaidDeath(i)]) ELSE drawn

MermaidRows ==
    LET drawn[n \in Nat] == IF n = 0 THEN <<>> ELSE Draw(drawn[n - 1], n) IN drawn

MermaidLifetimes == MermaidRows[Len(resources)]

-----------------------------------------------------------------------------
(* Properties.                                                             *)

\* Of the lifetimes the report lists, those of some kinds.
Births(kinds) == {i \in Log : resources[i].kind \in kinds /\ IsBirth(i)}

\* The list of lifetimes and the allocation table tell one story: a block without
\* an end is in the table; and where the process was never given an address it
\* still held, a block in the table has no end (lifetime_common.c:98-123,
\* model.c:80-153).
BlocksAgree ==
    ~err => \A i \in Births({"ALLOC", "REALLOC"}) : BirthPtr(i) # Null =>
      LET held   == \E a \in allocs : a.sequence = i
          alike  == {k \in Births({"ALLOC", "REALLOC"}) :
                       SamePid(i, k) /\ BirthPtr(k) = BirthPtr(i)}
          inTurn == \A k, n \in alike : k < n => End(k) \in 1 .. n
      IN  /\ End(i) = 0 => held
          /\ held /\ inTurn => End(i) = 0

\* The entry of record i left the table with an exec that crossed.
SweptAway(i) ==
    \E j \in Log :
      /\ j > i /\ Execs(j, resources[i].pid, resources[i].fd)
      /\ resources[j].cloexec /\ Crossed(j)

\* The same for the descriptors of a process, except that an exec may have closed
\* one whose lifetime has no end, and that a fork may have put an entry
\* without a birth beside it (lifetime_common.c:77-96, model.c:45-79, 286-330).
DescriptorsAgree ==
    ~err /\ ~finalized => \A i \in Births({"FD_OPEN"}) :
      LET held   == \E e \in fds : e.sequence = i
          alike  == {k \in Births({"FD_OPEN"}) :
                       SamePid(i, k) /\ resources[k].fd = resources[i].fd}
          inTurn == /\ \A k, n \in alike : k < n => End(k) \in 1 .. n
                    /\ \A j \in Log : resources[j].child_pid # resources[i].pid
      IN  /\ End(i) = 0 => held \/ SweptAway(i)
          /\ held /\ inTurn => End(i) = 0

\* Although each has its own test for a birth and its own choice of the search, the
\* renderings differ in length only: the text and the diagram stop at the same
\* limit, and the text counts what it leaves out (lifetime.c:119-249, 251-276,
\* 278-330, lifetime_mermaid.c:8-78).
RenderingsAgree ==
    /\ TextLifetimes.total = Len(JsonLifetimes)
    /\ TextLifetimes.shown = SubSeq(JsonLifetimes, 1, Len(TextLifetimes.shown))
    /\ Len(TextLifetimes.shown) < TextLifetimes.total => Len(TextLifetimes.shown) = TextLimit
    /\ MermaidLifetimes = TextLifetimes.shown
=============================================================================
