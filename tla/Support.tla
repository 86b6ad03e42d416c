------------------------------ MODULE Support ------------------------------
(***************************************************************************)
(* How the model's arrays grow and are filled (src/src/model_support.c).   *)
(*                                                                         *)
(* Sites, findings and calls live in arrays that double when they are      *)
(* full, in the arithmetic of size_t.  A finding is added after its site   *)
(* has been interned; both steps ask for memory several times, any request *)
(* may fail, and what has been done by then stays.                         *)
(***************************************************************************)
EXTENDS Integers, Sequences

CONSTANTS
    Text,           \* file and function names
    Line,           \* line numbers
    Null,           \* a text that could not be copied
    SizeMax,        \* SIZE_MAX
    FirstCapacity,  \* FIRST_CAPACITY
    SiteSize,       \* sizeof(struct source_site)
    FindingSize,    \* sizeof(struct finding)
    Outcomes        \* results a memory request may have: TRUE is success

ASSUME SupportAssumption ==
    /\ Null \notin Text
    /\ SizeMax \in Nat /\ FirstCapacity \in Nat \ {0}
    /\ SiteSize \in Nat \ {0} /\ FindingSize \in Nat \ {0}
    /\ FirstCapacity <= SizeMax
    /\ Outcomes \subseteq BOOLEAN

Site == [file : Text, function : Text, line : Line]

NullableSite == [file : Text \cup {Null}, function : Text \cup {Null}, line : Line]

VARIABLES
    sites,          \* model->sites
    findings,       \* model->findings: the indices of its two sites, from 0 as in C
    site_block,     \* the block of sites: its capacity, in items, and its bytes
    finding_block,  \* the same for findings
    reported,       \* the sites of the findings counted, as the caller named them
    err

vars == <<sites, findings, site_block, finding_block, reported, err>>

Empty == [capacity |-> 0, bytes |-> 0]

Init ==
    /\ sites = <<>> /\ findings = <<>> /\ reported = <<>>
    /\ site_block = Empty /\ finding_block = Empty
    /\ err = FALSE

-----------------------------------------------------------------------------
(* p101_report_grow_array_internal                                         *)

\* size_t arithmetic.
Wrapped(n) == n % (SizeMax + 1)

NewCapacity(capacity) == IF capacity = 0 THEN FirstCapacity ELSE Wrapped(capacity * 2)

\* Mutant: the bytes are not tested.
FitsUnlessWrapped(capacity, size) == NewCapacity(capacity) >= capacity

\* Neither the capacity nor the size in bytes wraps around.
Fits(capacity, size) ==
    /\ NewCapacity(capacity) >= capacity
    /\ NewCapacity(capacity) <= SizeMax \div size

\* What may become of an array of `count` items before the next one is stored.
Grown(block, count, size) ==
    IF count < block.capacity THEN {[ok |-> TRUE, block |-> block]}
    ELSE LET new == [capacity |-> NewCapacity(block.capacity),
                     bytes    |-> Wrapped(NewCapacity(block.capacity) * size)]
         IN  {[ok |-> FALSE, block |-> block] : o \in Outcomes \ {TRUE}}
               \cup IF Fits(block.capacity, size) THEN {[ok |-> TRUE, block |-> new]}
                    ELSE {[ok |-> FALSE, block |-> block]}

-----------------------------------------------------------------------------
(* p101_report_intern_site                                                 *)

Copied(text) == {text} \cup {Null : o \in Outcomes \ {TRUE}}

\* Mutants: the function is not compared, or the last site.
KnownByLine(table, site) ==
    {i \in 1 .. Len(table) : table[i].line = site.line /\ table[i].file = site.file}

KnownEarlier(table, site) == {i \in 1 .. Len(table) - 1 : table[i] = site}

\* The places a site already has.  A text that could not be copied equals none:
\* comparing it is undefined in C, and where that ends the run no step follows.
Known(table, site) == {i \in 1 .. Len(table) : table[i] = site}

First(S) == CHOOSE i \in S : \A j \in S : i <= j

\* The outcomes of interning a site: the new table, and the index returned.  Where
\* a name could not be copied the site is counted with what could; where the
\* array could not grow the index is 0.
Interned(table, block, site) ==
    IF Known(table, site) # {}
    THEN {[ok |-> TRUE, sites |-> table, block |-> block,
           index |-> First(Known(table, site)) - 1]}
    ELSE UNION {
      IF ~g.ok THEN {[ok |-> FALSE, sites |-> table, block |-> g.block, index |-> 0]}
      ELSE {[ok |-> Null \notin {file, function}, block |-> g.block, index |-> Len(table),
             sites |-> Append(table, [file |-> file, function |-> function, line |-> site.line])]
              : file \in Copied(site.file), function \in Copied(site.function)}
      : g \in Grown(block, Len(table), SiteSize)}

-----------------------------------------------------------------------------
(* Callers.                                                                *)

\* A record of resources.log names its site (p101_report_parse_resource_line).
Intern(site) ==
    /\ ~err
    /\ \E in \in Interned(sites, site_block, site) :
         /\ sites' = in.sites /\ site_block' = in.block
         /\ err' = ~in.ok
    /\ UNCHANGED <<findings, finding_block, reported>>

\* The last test of p101_report_add_finding_internal: any error, an earlier one
\* too, keeps the copy from being counted.
Counted(ok, copied) == ok /\ copied

\* One round of p101_report_finalize_generic: the site is interned, then that of the
\* earlier record if the finding has one, and the finding is added with the
\* indices that came back, whether that went well or not.
Report(site, previous) ==
    /\ ~err
    /\ \E one \in Interned(sites, site_block, site) :
       \E two \in IF previous = Null
                   THEN {[ok |-> TRUE, sites |-> one.sites, block |-> one.block, index |-> 0]}
                   ELSE Interned(one.sites, one.block, previous) :
       \E g \in Grown(finding_block, Len(findings), FindingSize), copied \in {TRUE} \cup Outcomes :
         LET counted == g.ok /\ Counted(one.ok /\ two.ok, copied)
         IN  /\ sites' = two.sites /\ site_block' = two.block
             /\ finding_block' = g.block
             /\ findings' = IF counted
                              THEN Append(findings, [site |-> one.index, previous |-> two.index])
                              ELSE findings
             /\ reported' = IF counted
                              THEN Append(reported, [site |-> site, previous |-> previous])
                              ELSE reported
             /\ err' = ~(one.ok /\ two.ok /\ g.ok /\ copied)

Next ==
    \E site \in Site : Intern(site) \/ \E previous \in Site \cup {Null} : Report(site, previous)

Spec == Init /\ [][Next]_vars

-----------------------------------------------------------------------------
(* Properties.                                                             *)

\* Every finding points into the table of sites, and the rest is of its kind.
TypeOK ==
    /\ sites \in Seq(NullableSite)
    /\ findings \in Seq([site : 0 .. Len(sites) - 1, previous : 0 .. Len(sites) - 1])
    /\ reported \in Seq([site : Site, previous : Site \cup {Null}])
    /\ site_block \in [capacity : Nat, bytes : Nat]
    /\ finding_block \in [capacity : Nat, bytes : Nat]
    /\ err \in BOOLEAN

\* No array holds more than it has room for, and the room in items is the room in
\* bytes: no write goes past a block, whatever the doubling does at the end of
\* the range of size_t (model_support.c:112-133).
RoomIsReal ==
    /\ Len(sites) <= site_block.capacity
    /\ site_block.bytes = site_block.capacity * SiteSize
    /\ Len(findings) <= finding_block.capacity
    /\ finding_block.bytes = finding_block.capacity * FindingSize

\* Until something fails every site is whole and listed once, so that records of
\* one source line share an index and those of different lines never do
\* (model_support.c:22-36).
SitesAreDistinct ==
    ~err => /\ \A i \in 1 .. Len(sites) : sites[i] \in Site
            /\ \A i, j \in 1 .. Len(sites) : sites[i] = sites[j] => i = j

\* A finding that is counted points at its own two sites, also when memory ran out
\* between the interning of a site and the copy of the finding
\* (model_support.c:18-82, model_generic.c:151-165).
FindingsKeepTheirSite ==
    /\ Len(reported) = Len(findings)
    /\ \A n \in 1 .. Len(findings) :
         /\ findings[n].site + 1 \in DOMAIN sites
         /\ sites[findings[n].site + 1] = reported[n].site
         /\ reported[n].previous # Null =>
              /\ findings[n].previous + 1 \in DOMAIN sites
              /\ sites[findings[n].previous + 1] = reported[n].previous
=============================================================================
