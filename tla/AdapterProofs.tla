----------------------------- MODULE AdapterProofs -----------------------------
(***************************************************************************)
(* Theorems about LifecycleAdapter, for every log, every selection of      *)
(* findings by the library and any memory request failing.                 *)
(*                                                                         *)
(* A finding names its records by numbers, and what the adapter makes of   *)
(* it is a search of the log.  The invariant is what the search rests on:  *)
(* Numbering says how the numbers rise along the log, Translations that    *)
(* what has been added is what the search makes of the findings so far.    *)
(***************************************************************************)
EXTENDS LifecycleAdapter, WellFoundedInduction, TLAPS

AdapterTyped ==
    /\ resources \in Seq(Record)
    /\ clock \in [Pid -> [Context -> Nat]]
    /\ restarted \in BOOLEAN /\ lifecycle \in BOOLEAN
    /\ err \in BOOLEAN /\ generic_finalized \in BOOLEAN
    /\ phase \in {"reading", "adding", "done"}
    /\ handed \subseteq Log

Numbering ==
    /\ \A i \in Log : /\ resources[i].number > 0
                      /\ (resources[i].class = Null) <=> (resources[i].kind # "GENERIC")
    /\ ~restarted =>
         /\ \A i \in Log : resources[i].number <= clock[resources[i].pid][resources[i].context]
         /\ \A i, j \in Log :
              /\ i < j
              /\ resources[i].pid = resources[j].pid
              /\ resources[i].context = resources[j].context
              => resources[i].number < resources[j].number

Renderings == {Translated(f) : f \in Reportable}

Translations ==
    /\ reported \in Seq(Reportable) /\ findings \in Seq(Renderings)
    /\ phase = "reading" => reported = <<>> /\ findings = <<>>
    /\ Len(findings) <= Len(reported)
    /\ \A n \in DOMAIN findings : findings[n] = Translated(reported[n])

Ending ==
    /\ phase = "done" /\ ~err => Len(findings) = Len(reported)
    /\ generic_finalized => phase = "done" /\ ~err /\ lifecycle /\ Len(findings) = Len(reported)
    /\ phase = "adding" => lifecycle

AdapterInv == AdapterTyped /\ Numbering /\ Translations /\ Ending

-----------------------------------------------------------------------------
(* The search.                                                             *)

\* First is the least of a set of places.
LEMMA FirstIsLeast ==
    ASSUME NEW S, S \subseteq Nat, S # {}
    PROVE  First(S) \in S /\ \A j \in S : First(S) <= j
<1> DEFINE R == {ss \in Nat \X Nat : ss[1] < ss[2]}
<1>1. \E i \in S : \A j \in S : ~(<<j, i>> \in R)
  <2>1. IsWellFoundedOn(R, Nat)
    BY NatLessThanWellFounded DEF OpToRel
  <2> HIDE DEF R
  <2> QED BY <2>1, WFMin
<1>2. PICK i \in S : \A j \in S : ~(<<j, i>> \in R)
  BY <1>1
<1>3. ASSUME NEW j \in S PROVE i <= j
  <2>1. i \in Nat /\ j \in Nat /\ ~(<<j, i>> \in R)
    BY <1>2
  <2> QED BY <2>1
<1> QED BY <1>3 DEF First

LEMMA LogTyped ==
    ASSUME AdapterTyped, NEW i \in Log
    PROVE  /\ i \in Nat /\ resources[i] \in Record /\ resources[i].number \in Nat
           /\ resources[i].pid \in Pid /\ resources[i].context \in Context
<1>1. i \in DOMAIN resources /\ i \in Nat
  BY DEF AdapterTyped, Log
<1>2. resources[i] \in Record
  BY <1>1 DEF AdapterTyped
<1> QED BY <1>1, <1>2 DEF Record

\* What the library says of a finding: its records are in the log.
LEMMA ReportableMeaning ==
    ASSUME AdapterTyped, NEW f \in Reportable
    PROVE  /\ f.subject \in Log /\ ClassOf(f.subject) # Null /\ f.class = ClassOf(f.subject)
           /\ f.pid = resources[f.subject].pid
           /\ f.context = resources[f.subject].context
           /\ f.number = resources[f.subject].number
           /\ f.previous = 0 => f.previous_number = 0
           /\ f.previous # 0 =>
                /\ f.previous \in Log /\ f.previous < f.subject
                /\ f.class = ClassOf(f.previous)
                /\ f.pid = resources[f.previous].pid
                /\ f.previous_context = resources[f.previous].context
                /\ f.previous_number = resources[f.previous].number
<1>1. PICK i \in {m \in handed : ClassOf(m) # Null} :
        f \in {About(kind, i, j) : kind \in LibraryKind, j \in {0} \cup Earlier(i)}
  BY DEF Reportable
<1>2. PICK kind \in LibraryKind, j \in {0} \cup Earlier(i) : f = About(kind, i, j)
  BY <1>1
<1>3. i \in Log /\ ClassOf(i) # Null /\ i # 0
  BY DEF AdapterTyped, Log
<1>4. j # 0 => /\ j \in Log /\ j < i /\ resources[j].pid = resources[i].pid
               /\ ClassOf(j) = ClassOf(i)
  BY DEF Earlier, AdapterTyped
<1> QED BY <1>2, <1>3, <1>4 DEF About

\* The records a finding is about are among those its searches find.
LEMMA RecordsAreFound ==
    ASSUME AdapterTyped, Numbering, NEW f \in Reportable
    PROVE  /\ f.subject \in Numbered(f, f.context, f.number) /\ SameClass(f, f.subject)
           /\ f.previous # 0 =>
                /\ f.previous \in Numbered(f, f.previous_context, f.previous_number)
                /\ SameClass(f, f.previous) /\ f.previous_number # 0
<1>1. ASSUME NEW i \in Log, f.class = ClassOf(i), f.class # Null
      PROVE  SameClass(f, i)
  <2>1. (resources[i].class = Null) <=> (resources[i].kind # "GENERIC")
    BY DEF Numbering
  <2>2. CASE resources[i].kind \in {"FD_OPEN", "FD_CLOSE"}
    BY <1>1, <2>1, <2>2 DEF ClassOf, SameClass
  <2>3. CASE resources[i].kind \in {"ALLOC", "FREE", "REALLOC"}
    BY <1>1, <2>1, <2>3 DEF ClassOf, SameClass
  <2>4. CASE resources[i].kind \notin {"FD_OPEN", "FD_CLOSE", "ALLOC", "FREE", "REALLOC"}
    <3>1. ClassOf(i) = resources[i].class
      BY <2>4 DEF ClassOf
    <3> QED BY <1>1, <3>1 DEF SameClass
  <2> QED BY <2>2, <2>3, <2>4
<1>2. f.subject \in Log /\ f.class = ClassOf(f.subject) /\ f.class # Null
  BY ReportableMeaning
<1>3. f.subject \in Numbered(f, f.context, f.number)
  BY ReportableMeaning DEF Numbered
<1>4. ASSUME f.previous # 0
      PROVE  /\ f.previous \in Numbered(f, f.previous_context, f.previous_number)
             /\ SameClass(f, f.previous) /\ f.previous_number # 0
  <2>1. f.previous \in Log /\ f.class = ClassOf(f.previous)
        /\ f.previous_number = resources[f.previous].number
        /\ f.previous \in Numbered(f, f.previous_context, f.previous_number)
    BY <1>4, ReportableMeaning DEF Numbered
  <2>2. f.previous_number > 0 /\ f.previous_number \in Nat
    BY <2>1, LogTyped DEF Numbering
  <2> QED BY <1>1, <1>2, <2>1, <2>2
<1> QED BY <1>1, <1>2, <1>3, <1>4

\* A search gives a place no later than any record that fits.
LEMMA SearchIsLeast ==
    ASSUME NEW f, NEW context, NEW number,
           NEW i \in Numbered(f, context, number), SameClass(f, i)
    PROVE  /\ SequenceOf(f, context, number) \in Numbered(f, context, number)
           /\ SameClass(f, SequenceOf(f, context, number))
           /\ SequenceOf(f, context, number) <= i
<1> DEFINE fitting == {k \in Numbered(f, context, number) : SameClass(f, k)}
<1>1. i \in fitting /\ fitting \subseteq Nat
  BY DEF Numbered, Log
<1>2. SequenceOf(f, context, number) = First(fitting)
  BY <1>1 DEF SequenceOf
<1>3. First(fitting) \in fitting /\ First(fitting) <= i
  BY <1>1, FirstIsLeast
<1> QED BY <1>2, <1>3

LEMMA EventIsLeast ==
    ASSUME NEW f, NEW i \in Numbered(f, f.context, f.number)
    PROVE  EventOf(f) \in Numbered(f, f.context, f.number) /\ EventOf(f) <= i
<1> DEFINE fitting == Numbered(f, f.context, f.number)
<1>1. i \in fitting /\ fitting \subseteq Nat
  BY DEF Numbered, Log
<1>2. EventOf(f) = First(fitting)
  BY <1>1 DEF EventOf
<1>3. First(fitting) \in fitting /\ First(fitting) <= i
  BY <1>1, FirstIsLeast
<1> QED BY <1>2, <1>3

\* Where the numbers never start again, a search has one record to find.
LEMMA NumbersAreUnique ==
    ASSUME AdapterTyped, Numbering, ~restarted, NEW f, NEW context, NEW number,
           NEW i \in Numbered(f, context, number), NEW j \in Numbered(f, context, number)
    PROVE  i = j
<1>1. /\ i \in Log /\ j \in Log /\ i \in Nat /\ j \in Nat
      /\ resources[i].pid = resources[j].pid /\ resources[i].context = resources[j].context
      /\ resources[i].number = resources[j].number /\ resources[i].number \in Nat
  BY LogTyped DEF Numbered
<1>2. ~(i < j) /\ ~(j < i)
  BY <1>1 DEF Numbering
<1> QED BY <1>1, <1>2

-----------------------------------------------------------------------------
(* What the invariant says of the findings.                                *)

LEMMA NamesItsRecords ==
    ASSUME AdapterInv
    PROVE  FindingNamesItsRecords
<1> SUFFICES ASSUME ~restarted, NEW n \in DOMAIN findings
             PROVE  /\ findings[n].sequence = reported[n].subject
                    /\ findings[n].resource = reported[n].subject
                    /\ findings[n].previous_sequence = reported[n].previous
  BY DEF FindingNamesItsRecords
<1> DEFINE f == reported[n]
<1>1. AdapterTyped /\ Numbering /\ f \in Reportable /\ findings[n] = Translated(f)
  BY DEF AdapterInv, Translations
<1> HIDE DEF f
<1>2. f.subject \in Numbered(f, f.context, f.number) /\ SameClass(f, f.subject)
  BY <1>1, RecordsAreFound
<1>3. SequenceOf(f, f.context, f.number) = f.subject
  BY <1>1, <1>2, SearchIsLeast, NumbersAreUnique
<1>4. EventOf(f) = f.subject
  BY <1>1, <1>2, EventIsLeast, NumbersAreUnique
<1>5. CASE f.previous = 0
  <2>1. f.previous_number = 0
    BY <1>1, <1>5, ReportableMeaning
  <2> QED BY <1>1, <1>3, <1>4, <1>5, <2>1 DEF Translated, f
<1>6. CASE f.previous # 0
  <2>1. /\ f.previous \in Numbered(f, f.previous_context, f.previous_number)
        /\ SameClass(f, f.previous) /\ f.previous_number # 0
    BY <1>1, <1>6, RecordsAreFound
  <2>2. SequenceOf(f, f.previous_context, f.previous_number) = f.previous
    BY <1>1, <2>1, SearchIsLeast, NumbersAreUnique
  <2> QED BY <1>1, <1>3, <1>4, <2>1, <2>2 DEF Translated, f
<1> QED BY <1>5, <1>6

\* A record of the class a finding searches.
LEMMA SameClassMeaning ==
    ASSUME Numbering, NEW f, NEW i \in Log, SameClass(f, i)
    PROVE  ClassOf(i) = f.class \/ (ClassOf(i) = Null /\ f.class = "allocation")
<1>1. (resources[i].class = Null) <=> (resources[i].kind # "GENERIC")
  BY DEF Numbering
<1>2. CASE resources[i].kind \in {"FD_OPEN", "FD_CLOSE"}
  BY <1>1, <1>2 DEF ClassOf, SameClass
<1>3. CASE resources[i].kind \in {"ALLOC", "FREE", "REALLOC"}
  BY <1>1, <1>3 DEF ClassOf, SameClass
<1>4. CASE resources[i].kind \notin {"FD_OPEN", "FD_CLOSE", "ALLOC", "FREE", "REALLOC"}
  <2>1. ClassOf(i) = resources[i].class
    BY <1>4 DEF ClassOf
  <2> QED BY <1>1, <1>4, <2>1 DEF SameClass
<1> QED BY <1>2, <1>3, <1>4

LEMMA StaysInItsClass ==
    ASSUME AdapterInv
    PROVE  FindingStaysInItsClass
<1> DEFINE Fits(r, i) ==
             /\ resources[i].pid = r.pid
             /\ ClassOf(i) = r.class \/ (ClassOf(i) = Null /\ r.class = "allocation")
<1>1. ASSUME NEW n \in DOMAIN findings
      PROVE  /\ findings[n].pid = reported[n].pid
             /\ findings[n].sequence \in 1 .. reported[n].subject
             /\ Fits(reported[n], findings[n].sequence)
             /\ reported[n].previous # 0 =>
                  /\ findings[n].previous_sequence \in 1 .. reported[n].previous
                  /\ Fits(reported[n], findings[n].previous_sequence)
  <2> DEFINE f == reported[n]
  <2>1. AdapterTyped /\ Numbering /\ f \in Reportable /\ findings[n] = Translated(f)
    BY DEF AdapterInv, Translations
  <2> HIDE DEF f
  <2>2. ASSUME NEW context, NEW number, NEW i \in Numbered(f, context, number), SameClass(f, i)
        PROVE  /\ SequenceOf(f, context, number) \in 1 .. i
               /\ Fits(f, SequenceOf(f, context, number))
    <3> DEFINE k == SequenceOf(f, context, number)
    <3>1. k \in Numbered(f, context, number) /\ SameClass(f, k) /\ k <= i
      BY <2>2, SearchIsLeast
    <3> HIDE DEF k
    <3>2. k \in Log /\ resources[k].pid = f.pid /\ i \in Log
      BY <3>1 DEF Numbered
    <3>3. ClassOf(k) = f.class \/ (ClassOf(k) = Null /\ f.class = "allocation")
      BY <2>1, <3>1, <3>2, SameClassMeaning
    <3>4. k \in 1 .. i
      BY <3>1, <3>2 DEF Log
    <3> QED BY <3>2, <3>3, <3>4 DEF k
  <2>3. f.subject \in Numbered(f, f.context, f.number) /\ SameClass(f, f.subject)
    BY <2>1, RecordsAreFound
  <2>4. /\ SequenceOf(f, f.context, f.number) \in 1 .. f.subject
        /\ Fits(f, SequenceOf(f, f.context, f.number))
    BY <2>2, <2>3
  <2>5. ASSUME f.previous # 0
        PROVE  /\ f.previous_number # 0
               /\ SequenceOf(f, f.previous_context, f.previous_number) \in 1 .. f.previous
               /\ Fits(f, SequenceOf(f, f.previous_context, f.previous_number))
    BY <2>1, <2>2, <2>5, RecordsAreFound
  <2>6. /\ findings[n].pid = f.pid
        /\ findings[n].sequence = SequenceOf(f, f.context, f.number)
        /\ f.previous_number # 0 => findings[n].previous_sequence =
             SequenceOf(f, f.previous_context, f.previous_number)
    BY <2>1 DEF Translated
  <2> HIDE DEF Fits
  <2> QED BY <2>4, <2>5, <2>6 DEF f
<1> QED BY <1>1 DEF FindingStaysInItsClass

-----------------------------------------------------------------------------
(* The invariant.                                                          *)

LEMMA AdapterInit ==
    ASSUME Init
    PROVE  AdapterInv
<1>1. resources = <<>> /\ Log = {}
  BY DEF Init, Log
<1>2. AdapterTyped
  <2>1. [p \in Pid |-> [c \in Context |-> 0]] \in [Pid -> [Context -> Nat]]
    OBVIOUS
  <2>2. /\ resources \in Seq(Record) /\ clock \in [Pid -> [Context -> Nat]]
        /\ phase \in {"reading", "adding", "done"} /\ handed \subseteq Log
    BY <1>1, <2>1 DEF Init
  <2>3. /\ restarted \in BOOLEAN /\ lifecycle \in BOOLEAN
        /\ err \in BOOLEAN /\ generic_finalized \in BOOLEAN
    BY DEF Init
  <2> QED BY <2>2, <2>3 DEF AdapterTyped
<1>4. Numbering
  BY <1>1 DEF Numbering
<1>3. Translations /\ Ending
  BY DEF Init, Translations, Ending
<1> QED BY <1>2, <1>3, <1>4 DEF AdapterInv

\* While the log stays, so does what the adapter makes of a finding.
LEMMA TranslationStays ==
    ASSUME UNCHANGED <<resources, handed>>
    PROVE  /\ \A f : Translated(f)' = Translated(f)
           /\ Reportable' = Reportable
           /\ Renderings' = Renderings
<1>1. \A f, c, n : Numbered(f, c, n)' = Numbered(f, c, n)
  BY DEF Numbered, Log
<1>2. \A f, i : SameClass(f, i)' = SameClass(f, i)
  BY DEF SameClass
<1>3. \A f, c, n : SequenceOf(f, c, n)' = SequenceOf(f, c, n)
  BY <1>1, <1>2 DEF SequenceOf
<1>4. \A f : EventOf(f)' = EventOf(f)
  BY <1>1 DEF EventOf
<1>5. \A f : Translated(f)' = Translated(f)
  BY <1>3, <1>4 DEF Translated
<1>6. Reportable' = Reportable
  BY DEF Reportable, Earlier, About, ClassOf
<1>7. Renderings' = Renderings
  BY <1>5, <1>6 DEF Renderings
<1> QED BY <1>5, <1>6, <1>7

LEMMA IngestStep ==
    ASSUME AdapterInv, NEW kind \in Kinds, NEW p \in Pid, NEW c \in Context,
           NEW class \in Class \cup {Null}, Ingest(kind, p, c, class)
    PROVE  AdapterInv'
<1> DEFINE rec == [kind |-> kind, pid |-> p, context |-> c, number |-> clock[p][c] + 1,
                   class |-> class]
           n == Len(resources)
<1>0. AdapterTyped /\ Numbering /\ Translations /\ Ending
  BY DEF AdapterInv
<1>1. /\ resources \in Seq(Record) /\ n \in Nat /\ Log = 1 .. n
      /\ clock \in [Pid -> [Context -> Nat]] /\ clock[p][c] \in Nat /\ handed \subseteq Log
  BY <1>0 DEF AdapterTyped, Log
<1>2. rec \in Record /\ rec.number = clock[p][c] + 1
  BY <1>1 DEF Record
<1>3. /\ resources' = Append(resources, rec)
      /\ clock' = [clock EXCEPT ![p] = [clock[p] EXCEPT ![c] = clock[p][c] + 1]]
      /\ (class = Null) <=> (kind # "GENERIC")
      /\ UNCHANGED <<restarted, reported, findings, phase, generic_finalized>>
      /\ phase = "reading" /\ handed' \subseteq handed \cup {Len(resources')}
  BY DEF Ingest
<1>4. /\ resources' \in Seq(Record) /\ Len(resources') = n + 1 /\ Log' = 1 .. (n + 1)
      /\ resources'[n + 1] = rec /\ \A i \in Log : resources'[i] = resources[i]
  BY <1>1, <1>2, <1>3 DEF Log
<1>5. /\ clock' \in [Pid -> [Context -> Nat]] /\ clock'[p][c] = clock[p][c] + 1
      /\ \A q \in Pid, d \in Context : clock'[q][d] \in Nat /\ clock[q][d] \in Nat
                                   /\ clock[q][d] <= clock'[q][d]
  <2>1. [clock[p] EXCEPT ![c] = clock[p][c] + 1] \in [Context -> Nat]
    BY <1>1
  <2>2. clock'[p] = [clock[p] EXCEPT ![c] = clock[p][c] + 1]
        /\ \A q \in Pid : q # p => clock'[q] = clock[q]
    BY <1>1, <1>3
  <2> QED BY <1>1, <1>3, <2>1, <2>2
<1>6. err' \in BOOLEAN /\ lifecycle' \in BOOLEAN
  <2>1. CASE kind = "SPAWN"
    BY <1>0, <2>1 DEF Ingest, AdapterTyped
  <2>2. CASE kind # "SPAWN"
    <3>1. PICK created \in BOOLEAN, taken \in BOOLEAN :
            /\ lifecycle' = (lifecycle \/ created)
            /\ err' \in {FALSE, ~(lifecycle' /\ taken)}
      BY <2>2, AdapterAssumption DEF Ingest
    <3>2. lifecycle' \in BOOLEAN
      BY <1>0, <3>1 DEF AdapterTyped
    <3> QED BY <3>1, <3>2
  <2> QED BY <2>1, <2>2
<1>7. AdapterTyped'
  <2>1. handed' \subseteq Log'
    BY <1>1, <1>3, <1>4
  <2> QED BY <1>0, <1>3, <1>4, <1>5, <1>6, <2>1 DEF AdapterTyped
<1>8. ASSUME NEW i \in Log'
      PROVE  i = n + 1 \/ (i \in Log /\ i < n + 1)
  BY <1>1, <1>4
<1> HIDE DEF rec
<1>9. ASSUME NEW i \in Log'
      PROVE  /\ resources'[i].number > 0
             /\ (resources'[i].class = Null) <=> (resources'[i].kind # "GENERIC")
  <2>1. CASE i = n + 1
    BY <1>1, <1>3, <1>4, <2>1 DEF rec
  <2>2. CASE i \in Log
    BY <1>0, <1>4, <2>2 DEF Numbering
  <2> QED BY <1>8, <2>1, <2>2
<1>10. ASSUME ~restarted, NEW i \in Log'
       PROVE  resources'[i].number <= clock'[resources'[i].pid][resources'[i].context]
  <2>1. CASE i = n + 1
    BY <1>1, <1>4, <1>5, <2>1 DEF rec
  <2>2. CASE i \in Log
    <3>1. resources'[i] = resources[i] /\ resources[i].number \in Nat
          /\ resources[i].pid \in Pid /\ resources[i].context \in Context
      BY <1>0, <1>4, <2>2, LogTyped
    <3>2. resources[i].number <= clock[resources[i].pid][resources[i].context]
      BY <1>0, <1>10, <2>2 DEF Numbering
    <3> QED BY <1>5, <3>1, <3>2
  <2> QED BY <1>8, <2>1, <2>2
<1>11. ASSUME ~restarted, NEW i \in Log', NEW j \in Log', i < j,
              resources'[i].pid = resources'[j].pid,
              resources'[i].context = resources'[j].context
       PROVE  resources'[i].number < resources'[j].number
  <2>1. i \in Log
    BY <1>1, <1>4, <1>11
  <2>2. CASE j = n + 1
    <3>1. resources[i].pid = p /\ resources[i].context = c
      BY <1>4, <1>11, <2>1, <2>2 DEF rec
    <3>2. resources[i].number <= clock[p][c] /\ resources[i].number \in Nat
      BY <1>0, <1>11, <2>1, <3>1, LogTyped DEF Numbering
    <3> QED BY <1>1, <1>2, <1>4, <2>1, <2>2, <3>2
  <2>3. CASE j \in Log
    BY <1>0, <1>4, <1>11, <2>1, <2>3 DEF Numbering
  <2> QED BY <1>8, <2>2, <2>3
<1>12. Numbering'
  BY <1>3, <1>9, <1>10, <1>11 DEF Numbering
<1>13. Translations' /\ Ending'
  BY <1>0, <1>3 DEF Translations, Ending
<1> QED BY <1>7, <1>12, <1>13 DEF AdapterInv

LEMMA RestartStep ==
    ASSUME AdapterInv, NEW p \in Pid, Restart(p)
    PROVE  AdapterInv'
<1>0. AdapterTyped /\ Numbering /\ Translations /\ Ending
  BY DEF AdapterInv
<1>1. /\ UNCHANGED <<resources, lifecycle, handed, reported, findings, phase,
                     generic_finalized, err>>
      /\ restarted' = TRUE /\ clock' = [clock EXCEPT ![p] = [c \in Context |-> 0]]
  BY DEF Restart
<1>2. AdapterTyped'
  <2>1. clock' \in [Pid -> [Context -> Nat]]
    <3>1. [c \in Context |-> 0] \in [Context -> Nat]
      OBVIOUS
    <3> QED BY <1>0, <1>1, <3>1 DEF AdapterTyped
  <2> QED BY <1>0, <1>1, <2>1 DEF AdapterTyped, Log
<1>3. Numbering'
  BY <1>0, <1>1 DEF Numbering, Log
<1>4. Translations'
  BY <1>0, <1>1, TranslationStays DEF Translations
<1>5. Ending'
  BY <1>0, <1>1 DEF Ending
<1> QED BY <1>2, <1>3, <1>4, <1>5 DEF AdapterInv

\* The steps after the log has ended leave it alone.
LEMMA LogStays ==
    ASSUME AdapterInv, UNCHANGED <<resources, clock, restarted, lifecycle, handed>>,
           phase' \in {"reading", "adding", "done"}, err' \in BOOLEAN,
           generic_finalized' \in BOOLEAN
    PROVE  AdapterTyped' /\ Numbering'
BY DEF AdapterInv, AdapterTyped, Numbering, Log

LEMMA FinishStep ==
    ASSUME AdapterInv, Finish
    PROVE  AdapterInv'
<1>0. AdapterTyped /\ Translations /\ Ending
  BY DEF AdapterInv
<1>1. /\ UNCHANGED <<resources, clock, restarted, lifecycle, handed, findings,
                     generic_finalized>>
      /\ phase = "reading" /\ ~err /\ phase' \in {"adding", "done"} /\ err' \in BOOLEAN
      /\ phase' = "done" => reported' = reported
      /\ phase' = "adding" => lifecycle
  BY <1>0 DEF Finish, AdapterTyped
<1>2. reported = <<>> /\ findings = <<>> /\ ~generic_finalized
  BY <1>0, <1>1 DEF Translations, Ending
<1>3. AdapterTyped' /\ Numbering'
  BY <1>0, <1>1, LogStays DEF AdapterTyped
<1>4. reported' \in Seq(Reportable)
  <2>1. CASE reported' = reported
    BY <1>2, <2>1
  <2>2. CASE \E n \in 0 .. MaxReported :
               /\ Len(resources) + Cardinality(Lost) + n <= MaxTotal
               /\ reported' \in [1 .. n -> Reportable]
    <3>1. PICK n \in Nat : reported' \in [1 .. n -> Reportable]
      BY <2>2, AdapterAssumption
    <3> QED BY <3>1
  <2> QED BY <2>1, <2>2 DEF Finish
<1>5. Translations'
  BY <1>1, <1>2, <1>4, TranslationStays DEF Translations
<1>6. Ending'
  BY <1>1, <1>2 DEF Ending
<1> QED BY <1>3, <1>5, <1>6 DEF AdapterInv

LEMMA AddStep ==
    ASSUME AdapterInv, AddNext
    PROVE  AdapterInv'
<1> DEFINE n == Len(findings)
<1>0. AdapterTyped /\ Translations /\ Ending
  BY DEF AdapterInv
<1>1. /\ UNCHANGED <<resources, clock, restarted, lifecycle, handed, reported, phase,
                     generic_finalized>>
      /\ phase = "adding" /\ n < Len(reported) /\ err' \in BOOLEAN
      /\ findings' = findings \/ findings' = Append(findings, Translated(reported[n + 1]))
  BY <1>0 DEF AddNext, AdapterTyped
<1>2. AdapterTyped' /\ Numbering'
  BY <1>0, <1>1, LogStays DEF AdapterTyped
<1>3. /\ n \in Nat /\ findings \in Seq(Renderings) /\ reported \in Seq(Reportable)
      /\ Len(reported) \in Nat /\ \A i \in DOMAIN findings : findings[i] = Translated(reported[i])
  BY <1>0 DEF Translations
<1>4. reported[n + 1] \in Reportable
  BY <1>1, <1>3
<1>5. Translated(reported[n + 1]) \in Renderings
  BY <1>4 DEF Renderings
<1>6. /\ findings' \in Seq(Renderings) /\ Len(findings') <= Len(reported)
      /\ \A i \in DOMAIN findings' : findings'[i] = Translated(reported[i])
  <2>1. CASE findings' = findings
    BY <1>1, <1>3, <2>1
  <2>2. CASE findings' = Append(findings, Translated(reported[n + 1]))
    BY <1>1, <1>3, <1>5, <2>2
  <2> QED BY <1>1, <2>1, <2>2
<1>7. Translations'
  BY <1>1, <1>3, <1>6, TranslationStays DEF Translations
<1>8. Ending'
  BY <1>0, <1>1 DEF Ending
<1> QED BY <1>2, <1>7, <1>8 DEF AdapterInv

LEMMA FinalizedStep ==
    ASSUME AdapterInv, Finalized
    PROVE  AdapterInv'
<1>0. AdapterTyped /\ Translations /\ Ending
  BY DEF AdapterInv
<1>1. /\ UNCHANGED <<resources, clock, restarted, lifecycle, handed, reported, findings, err>>
      /\ phase = "adding" /\ phase' = "done" /\ (err \/ Len(findings) = Len(reported))
  BY DEF Finalized
<1>2. generic_finalized' \in BOOLEAN /\ (generic_finalized' => ~err)
  BY DEF Finalized
<1>3. AdapterTyped' /\ Numbering'
  BY <1>0, <1>1, <1>2, LogStays DEF AdapterTyped
<1>4. Translations'
  BY <1>0, <1>1, TranslationStays DEF Translations
<1>5. Ending'
  BY <1>0, <1>1, <1>2 DEF Ending
<1> QED BY <1>3, <1>4, <1>5 DEF AdapterInv

LEMMA AdapterStep ==
    ASSUME AdapterInv, [Next]_vars
    PROVE  AdapterInv'
<1>1. CASE UNCHANGED vars
  <2>1. AdapterTyped' /\ Numbering'
    BY <1>1, LogStays DEF AdapterInv, AdapterTyped, vars
  <2>2. Translations'
    BY <1>1, TranslationStays DEF AdapterInv, Translations, vars
  <2>3. Ending'
    BY <1>1 DEF AdapterInv, Ending, vars
  <2> QED BY <2>1, <2>2, <2>3 DEF AdapterInv
<1> QED BY <1>1, IngestStep, RestartStep, FinishStep, AddStep, FinalizedStep DEF Next

LEMMA AdapterInvariance == Spec => []AdapterInv
<1>1. Init => AdapterInv
  BY AdapterInit
<1>2. AdapterInv /\ [Next]_vars => AdapterInv'
  BY AdapterStep
<1> QED BY <1>1, <1>2, PTL DEF Spec

-----------------------------------------------------------------------------
(* The theorems.                                                           *)

\* Where the numbers never start again, a finding points at the very records the
\* library meant, however many processes, contexts and classes the log
\* interleaves (model_generic.c:143-164, 288-334).
THEOREM FindingsNameTheirRecords == Spec => []FindingNamesItsRecords
<1>1. AdapterInv => FindingNamesItsRecords
  BY NamesItsRecords
<1> QED BY <1>1, AdapterInvariance, PTL

\* Numbers that start again draw a finding to an earlier record of its own
\* process and class at worst (model_generic.c:303-317).
THEOREM FindingsStayInTheirClass == Spec => []FindingStaysInItsClass
<1>1. AdapterInv => FindingStaysInItsClass
  BY StaysInItsClass
<1> QED BY <1>1, AdapterInvariance, PTL

\* The findings of a library that has finished are in the report all together, or the
\* run has failed (model_generic.c:125-171).
THEOREM NoFindingIsDropped == Spec => []AllFindingsOrError
<1>1. AdapterInv => AllFindingsOrError
  BY DEF AdapterInv, Ending, AllFindingsOrError
<1> QED BY <1>1, AdapterInvariance, PTL
=============================================================================
