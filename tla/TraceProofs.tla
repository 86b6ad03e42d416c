----------------------------- MODULE TraceProofs -----------------------------
(***************************************************************************)
(* Theorems about TraceBounds, for any number of threads, wrappers and     *)
(* findings, and logs of any length.                                       *)
(*                                                                         *)
(* The window is found by numbers and by counting, the truth it is held    *)
(* against is the nesting of the calls.  The invariant joins them:         *)
(* Numbering and Subjects say where a finding's number stands among those  *)
(* of its thread, OpenCounts and EndedCounts what the count of begun and   *)
(* ended calls amounts to at every place of the log.                       *)
(***************************************************************************)
EXTENDS TraceBounds, FiniteSetTheorems, WellFoundedInduction, TLAPS

Call == [kind : {"ENTER", "EXIT"}, thread : Thread, site : Site, name : Name, event : Nat]

Finding == [thread : Thread, site : Site, event : Nat, call : Nat, at : Nat]

TraceTyped ==
    /\ calls \in Seq(Call)
    /\ exits \in Seq(Nat) /\ Len(exits) = Len(calls)
    /\ findings \subseteq Finding
    /\ clock \in [Thread -> Nat]
    /\ open \in [Thread -> Seq(Nat)]
    /\ unwound \in BOOLEAN

\* A thread's numbers rise along the log.
Numbering ==
    /\ \A i \in Log : calls[i].event <= clock[calls[i].thread]
    /\ \A i, j \in Log :
         i < j /\ calls[i].thread = calls[j].thread => calls[i].event < calls[j].event

\* A thread is in the calls it entered and has not left.
Nesting == \A t \in Thread : \A x \in DOMAIN open[t] :
    /\ open[t][x] \in Log
    /\ calls[open[t][x]].kind = "ENTER" /\ calls[open[t][x]].thread = t
    /\ exits[open[t][x]] = 0
    /\ \A y \in DOMAIN open[t] : x < y => open[t][x] < open[t][y]

\* A finding's number stands between those its thread gave before and after.
Subjects == \A f \in findings :
    /\ f.call \in 1 .. f.at /\ f.at <= Len(calls) /\ f.event <= clock[f.thread]
    /\ calls[f.call].kind = "ENTER" /\ calls[f.call].thread = f.thread
    /\ calls[f.call].site = f.site
    /\ \A i \in Log : calls[i].thread = f.thread =>
         IF i <= f.at THEN calls[i].event < f.event ELSE f.event < calls[i].event

StartInv == TraceTyped /\ Numbering /\ Nesting /\ Subjects

\* How many more calls have begun than ended, of those counted from b to k.
Excess(b, k) == Counted(b, k, "ENTER") - Counted(b, k, "EXIT")

\* The open calls of t from the x-th inwards that have its name.
Inner(t, x) ==
    {y \in x .. Len(open[t]) : calls[open[t][y]].name = calls[open[t][x]].name}

\* A call that is open has more begun than ended since, at the end of the log as many
\* as are open inwards, or more where calls were left without an EXIT.
OpenCounts ==
    \A t \in Thread : \A x \in DOMAIN open[t] : \A b \in Log : open[t][x] = b =>
      \A k \in b .. Len(calls) :
        /\ Excess(b, k) > 0
        /\ k = Len(calls) =>
             /\ Cardinality(Inner(t, x)) <= Excess(b, k)
             /\ ~unwound => Cardinality(Inner(t, x)) = Excess(b, k)

\* The count of a call that has ended did not come back to zero before its EXIT, and
\* did at its EXIT unless calls were left without one.
EndedCounts ==
    \A b \in Log : exits[b] # 0 =>
      /\ exits[b] \in b .. Len(calls)
      /\ \A k \in b .. Len(calls) :
           /\ k < exits[b] => Excess(b, k) > 0
           /\ k = exits[b] /\ ~unwound => Excess(b, k) = 0

NoneLost ==
    ~unwound => \A b \in Log : calls[b].kind = "ENTER" /\ exits[b] = 0 =>
                  \E x \in DOMAIN open[calls[b].thread] : open[calls[b].thread][x] = b

EndInv == StartInv /\ OpenCounts /\ EndedCounts /\ NoneLost

-----------------------------------------------------------------------------
(* Least and greatest.                                                     *)

LEMMA LeastExists ==
    ASSUME NEW S, S \subseteq Nat, S # {}
    PROVE  \E i \in S : \A j \in S : i <= j
<1> DEFINE R == {ss \in Nat \X Nat : ss[1] < ss[2]}
<1>1. \E i \in S : \A j \in S : ~(<<j, i>> \in R)
  <2>1. IsWellFoundedOn(R, Nat)
    BY NatLessThanWellFounded DEF OpToRel
  <2> HIDE DEF R
  <2> QED BY <2>1, WFMin
<1>2. PICK i \in S : \A j \in S : ~(<<j, i>> \in R)
  BY <1>1
<1>3. ASSUME NEW j \in S PROVE i <= j
  <2>1. i \in Nat /\ j \in Nat /\ ~(<<j, i>> \in R)
    BY <1>2
  <2> QED BY <2>1
<1> QED BY <1>3

LEMMA GreatestExists ==
    ASSUME NEW n \in Nat, NEW S, S \subseteq 1 .. n, S # {}
    PROVE  \E i \in S : \A j \in S : j <= i
<1> DEFINE T == {n - i : i \in S}
<1>1. T \subseteq Nat /\ T # {}
  OBVIOUS
<1>2. PICK d \in T : \A e \in T : d <= e
  BY <1>1, LeastExists
<1>3. PICK i \in S : d = n - i
  OBVIOUS
<1>4. ASSUME NEW j \in S PROVE j <= i
  <2>1. n - j \in T
    OBVIOUS
  <2>2. n - i <= n - j
    BY <1>2, <1>3, <2>1
  <2> QED BY <2>2
<1> QED BY <1>4

-----------------------------------------------------------------------------
(* Where the window begins.                                                *)

LEMMA LogTyped ==
    ASSUME TraceTyped, NEW i \in Log
    PROVE  /\ i \in Nat /\ calls[i] \in Call /\ calls[i].event \in Nat
           /\ calls[i].thread \in Thread /\ calls[i].name \in Name
<1>1. i \in DOMAIN calls /\ i \in Nat
  BY DEF TraceTyped, Log
<1>2. calls[i] \in Call
  BY <1>1 DEF TraceTyped
<1> QED BY <1>1, <1>2 DEF Call

\* The window begins at the last of its candidates.
LEMMA BeginIsLast ==
    ASSUME TraceTyped, Numbering, NEW f, Candidates(f) # {}
    PROVE  Begin(f) \in Candidates(f) /\ \A j \in Candidates(f) : j <= Begin(f)
<1>1. Candidates(f) \subseteq Log /\ Len(calls) \in Nat
  BY DEF Candidates, TraceTyped
<1>2. \A j \in Candidates(f) : j \in Nat /\ calls[j].event \in Nat /\ calls[j].thread = f.thread
  BY LogTyped DEF Candidates, SiteMatches
<1>3. PICK i \in Candidates(f) : \A j \in Candidates(f) : j <= i
  BY <1>1, GreatestExists DEF Log
<1>4. ASSUME NEW j \in Candidates(f), j < i
      PROVE  calls[j].event < calls[i].event
  BY <1>1, <1>2, <1>4 DEF Numbering
<1>5. \A j \in Candidates(f) :
        calls[j].event < calls[i].event \/ (calls[j].event = calls[i].event /\ j <= i)
  BY <1>2, <1>3, <1>4
<1>6. /\ Begin(f) \in Candidates(f)
      /\ \A j \in Candidates(f) :
           \/ calls[j].event < calls[Begin(f)].event
           \/ calls[j].event = calls[Begin(f)].event /\ j <= Begin(f)
  BY <1>5 DEF Begin
<1>7. Begin(f) = i
  <2>1. ~(Begin(f) < i)
    BY <1>2, <1>4, <1>6
  <2> QED BY <1>2, <1>3, <1>6, <2>1
<1> QED BY <1>3, <1>7

LEMMA StartsInCall ==
    ASSUME StartInv
    PROVE  \A f \in findings : /\ Begin(f) \in f.call .. f.at
                              /\ calls[Begin(f)].thread = f.thread
                              /\ calls[Begin(f)].kind = "ENTER" /\ Begin(f) \in Log
<1> SUFFICES ASSUME NEW f \in findings
             PROVE  /\ Begin(f) \in f.call .. f.at
                    /\ calls[Begin(f)].thread = f.thread
                    /\ calls[Begin(f)].kind = "ENTER" /\ Begin(f) \in Log
  OBVIOUS
<1>1. TraceTyped /\ Numbering /\ Subjects
  BY DEF StartInv
<1>2. f.call \in Nat /\ f.at \in Nat /\ f.event \in Nat /\ Len(calls) \in Nat
  BY <1>1 DEF TraceTyped, Finding
<1>3. \A i \in Log : calls[i].event \in Nat /\ i \in Nat
  BY <1>1, LogTyped
<1>4. /\ f.call \in 1 .. f.at /\ f.at <= Len(calls)
      /\ calls[f.call].kind = "ENTER" /\ calls[f.call].thread = f.thread
      /\ calls[f.call].site = f.site
      /\ \A i \in Log : calls[i].thread = f.thread =>
           IF i <= f.at THEN calls[i].event < f.event ELSE f.event < calls[i].event
  BY <1>1 DEF Subjects
<1>5. f.call \in Log
  BY <1>2, <1>4 DEF Log
<1>6. f.call \in Candidates(f)
  BY <1>2, <1>3, <1>4, <1>5 DEF Candidates, SiteMatches
<1>7. Begin(f) \in Candidates(f) /\ f.call <= Begin(f)
  BY <1>1, <1>6, BeginIsLast
<1>8. /\ Begin(f) \in Log /\ calls[Begin(f)].thread = f.thread
      /\ calls[Begin(f)].kind = "ENTER" /\ calls[Begin(f)].event <= f.event
  BY <1>7 DEF Candidates, SiteMatches
<1>9. Begin(f) <= f.at
  BY <1>2, <1>3, <1>4, <1>8
<1> QED BY <1>2, <1>3, <1>7, <1>8, <1>9

-----------------------------------------------------------------------------
(* What a record does to the log.                                          *)

\* Thread t writes rec to calls.log.
Writes(t, rec) ==
    /\ rec \in Call /\ rec.thread = t /\ rec.event = clock[t] + 1
    /\ calls' = Append(calls, rec)
    /\ clock' = [clock EXCEPT ![t] = @ + 1]

LEMMA ClockAfter ==
    ASSUME TraceTyped, NEW t \in Thread, clock' = [clock EXCEPT ![t] = @ + 1]
    PROVE  /\ clock' \in [Thread -> Nat] /\ clock[t] \in Nat /\ clock'[t] = clock[t] + 1
           /\ \A u \in Thread : clock[u] <= clock'[u] /\ clock[u] \in Nat /\ clock'[u] \in Nat
BY DEF TraceTyped

LEMMA LogAfter ==
    ASSUME TraceTyped, NEW t \in Thread, NEW rec, Writes(t, rec)
    PROVE  /\ calls' \in Seq(Call) /\ Len(calls) \in Nat /\ Len(calls') = Len(calls) + 1
           /\ Log' = Log \cup {Len(calls) + 1} /\ Len(calls) + 1 \notin Log
           /\ calls'[Len(calls) + 1] = rec
           /\ \A i \in Log : calls'[i] = calls[i] /\ i < Len(calls) + 1
<1>1. calls \in Seq(Call) /\ rec \in Call /\ calls' = Append(calls, rec)
  BY DEF TraceTyped, Writes
<1> QED BY <1>1 DEF Log

LEMMA NumberingAfter ==
    ASSUME StartInv, NEW t \in Thread, NEW rec, Writes(t, rec)
    PROVE  Numbering'
<1> DEFINE n == Len(calls) + 1
<1>0. TraceTyped /\ Numbering
  BY DEF StartInv
<1>1. /\ clock[t] \in Nat /\ clock'[t] = clock[t] + 1
      /\ \A u \in Thread : clock[u] <= clock'[u] /\ clock[u] \in Nat /\ clock'[u] \in Nat
  BY <1>0, ClockAfter DEF Writes
<1>2. rec.thread = t /\ rec.event = clock[t] + 1
  BY DEF Writes
<1>3. ASSUME NEW i \in Log'
      PROVE  calls'[i].event <= clock'[calls'[i].thread]
  <2>1. CASE i \in Log
    <3>1. calls'[i] = calls[i] /\ calls[i].event <= clock[calls[i].thread]
      BY <1>0, <2>1, LogAfter DEF Numbering
    <3> QED BY <1>0, <1>1, <2>1, <3>1, LogTyped
  <2>2. CASE i = n
    BY <1>0, <1>1, <1>2, <2>2, LogAfter
  <2> QED BY <1>0, <2>1, <2>2, LogAfter
<1>4. ASSUME NEW i \in Log', NEW j \in Log', i < j, calls'[i].thread = calls'[j].thread
      PROVE  calls'[i].event < calls'[j].event
  <2>1. CASE j \in Log
    <3>1. i \in Log
      BY <1>0, <1>4, <2>1, LogAfter, LogTyped
    <3> QED BY <1>0, <1>4, <2>1, <3>1, LogAfter DEF Numbering
  <2>2. CASE j = n
    <3>1. i \in Log /\ calls'[i] = calls[i] /\ calls[i].thread = t
      BY <1>0, <1>2, <1>4, <2>2, LogAfter
    <3>2. calls[i].event <= clock[t] /\ calls[i].event \in Nat
      BY <1>0, <3>1, LogTyped DEF Numbering
    <3> QED BY <1>0, <1>1, <1>2, <2>2, <3>1, <3>2, LogAfter
  <2> QED BY <1>0, <2>1, <2>2, LogAfter
<1> QED BY <1>3, <1>4 DEF Numbering

\* A record of a thread is numbered after every finding the thread made before.
LEMMA SubjectsAfter ==
    ASSUME StartInv, NEW t \in Thread, NEW rec, Writes(t, rec), UNCHANGED findings
    PROVE  Subjects'
<1>0. TraceTyped /\ Subjects
  BY DEF StartInv
<1> SUFFICES ASSUME NEW f \in findings
             PROVE  /\ f.call \in 1 .. f.at /\ f.at <= Len(calls') /\ f.event <= clock'[f.thread]
                    /\ calls'[f.call].kind = "ENTER" /\ calls'[f.call].thread = f.thread
                    /\ calls'[f.call].site = f.site
                    /\ \A i \in Log' : calls'[i].thread = f.thread =>
                         IF i <= f.at THEN calls'[i].event < f.event
                         ELSE f.event < calls'[i].event
  BY DEF Subjects
<1>1. f.call \in Nat /\ f.at \in Nat /\ f.event \in Nat /\ f.thread \in Thread
  BY <1>0 DEF TraceTyped, Finding
<1>2. /\ f.call \in 1 .. f.at /\ f.at <= Len(calls) /\ f.event <= clock[f.thread]
      /\ calls[f.call].kind = "ENTER" /\ calls[f.call].thread = f.thread
      /\ calls[f.call].site = f.site
      /\ \A i \in Log : calls[i].thread = f.thread =>
           IF i <= f.at THEN calls[i].event < f.event ELSE f.event < calls[i].event
  BY <1>0 DEF Subjects
<1>3. f.call \in Log /\ Len(calls') = Len(calls) + 1 /\ Len(calls) \in Nat
  BY <1>0, <1>1, <1>2, LogAfter DEF Log
<1>4. /\ clock[f.thread] \in Nat /\ clock[f.thread] <= clock'[f.thread]
      /\ clock'[f.thread] \in Nat /\ clock[t] \in Nat
  BY <1>0, <1>1, ClockAfter DEF Writes
<1>5. ASSUME NEW i \in Log', calls'[i].thread = f.thread
      PROVE  IF i <= f.at THEN calls'[i].event < f.event ELSE f.event < calls'[i].event
  <2>1. CASE i \in Log
    BY <1>0, <1>2, <1>5, <2>1, LogAfter
  <2>2. CASE i = Len(calls) + 1
    <3>1. f.thread = t /\ calls'[i].event = clock[t] + 1
      BY <1>0, <1>5, <2>2, LogAfter DEF Writes
    <3> QED BY <1>1, <1>2, <1>3, <1>4, <2>2, <3>1
  <2> QED BY <1>0, <2>1, <2>2, LogAfter
<1>6. calls'[f.call] = calls[f.call]
  BY <1>0, <1>3, LogAfter
<1> QED BY <1>1, <1>2, <1>3, <1>4, <1>5, <1>6

LEMMA SequenceOfNumbers ==
    ASSUME NEW k \in Nat, NEW s \in [1 .. k -> Nat]
    PROVE  s \in Seq(Nat) /\ Len(s) = k
OBVIOUS

LEMMA FrontMeaning ==
    ASSUME NEW s \in Seq(Nat), s # <<>>
    PROVE  /\ Len(s) \in Nat \ {0} /\ Last(s) = s[Len(s)] /\ Last(s) \in Nat
           /\ Front(s) \in Seq(Nat) /\ Len(Front(s)) = Len(s) - 1
           /\ \A x \in DOMAIN Front(s) : x \in DOMAIN s /\ x < Len(s) /\ Front(s)[x] = s[x]
<1> DEFINE n == Len(s)
<1>1. n \in Nat \ {0} /\ DOMAIN s = 1 .. n /\ \A x \in 1 .. n : s[x] \in Nat
  OBVIOUS
<1>2. Last(s) = s[n] /\ Front(s) = SubSeq(s, 1, n - 1)
  BY DEF Front, Last
<1>3. SubSeq(s, 1, n - 1) = [x \in 1 .. n - 1 |-> s[x]]
  BY <1>1
<1>4. [x \in 1 .. n - 1 |-> s[x]] \in [1 .. n - 1 -> Nat] /\ n - 1 \in Nat
  BY <1>1
<1>5. Front(s) \in Seq(Nat) /\ Len(Front(s)) = n - 1 /\ DOMAIN Front(s) = 1 .. n - 1
  <2> HIDE DEF n
  <2>1. Front(s) \in [1 .. n - 1 -> Nat]
    BY <1>2, <1>3, <1>4
  <2> QED BY <1>4, <2>1, SequenceOfNumbers
<1>6. \A x \in 1 .. n - 1 : Front(s)[x] = s[x]
  BY <1>2, <1>3
<1> HIDE DEF n
<1>7. \A x \in 1 .. n - 1 : x \in 1 .. n /\ x < n
  BY <1>1
<1>8. Len(s) = n
  BY DEF n
<1> QED BY <1>1, <1>2, <1>5, <1>6, <1>7, <1>8

\* The call a thread is in.
LEMMA CurrentCall ==
    ASSUME StartInv, NEW t \in Thread, open[t] # <<>>
    PROVE  /\ open[t] \in Seq(Nat) /\ Last(open[t]) \in Log /\ calls[Last(open[t])] \in Call
           /\ calls[Last(open[t])].kind = "ENTER" /\ calls[Last(open[t])].thread = t
           /\ Len(open[t]) \in DOMAIN open[t] /\ Last(open[t]) = open[t][Len(open[t])]
<1>1. open[t] \in Seq(Nat) /\ TraceTyped /\ Nesting
  BY DEF StartInv, TraceTyped
<1>2. Len(open[t]) \in DOMAIN open[t] /\ Last(open[t]) = open[t][Len(open[t])]
  BY <1>1, FrontMeaning
<1> QED BY <1>1, <1>2, LogTyped DEF Nesting

LEMMA EnterWrites ==
    ASSUME TraceAssumption, TraceTyped, NEW t \in Thread, NEW w \in Wrappers, Enter(t, w[1], w[2])
    PROVE  \E rec \in Call : /\ Writes(t, rec) /\ rec.kind = "ENTER"
                             /\ exits' = Append(exits, 0)
                             /\ open' = [open EXCEPT ![t] = Append(@, Len(calls) + 1)]
                             /\ UNCHANGED <<findings, unwound>>
<1> DEFINE rec == [kind |-> "ENTER", thread |-> t, site |-> w[1], name |-> w[2],
                   event |-> clock[t] + 1]
<1>1. w[1] \in Site /\ w[2] \in Name
  BY DEF TraceAssumption
<1>2. clock[t] + 1 \in Nat
  BY DEF TraceTyped
<1>3. rec \in Call /\ rec.thread = t /\ rec.event = clock[t] + 1 /\ rec.kind = "ENTER"
  BY <1>1, <1>2 DEF Call
<1>4. /\ calls' = Append(calls, rec) /\ clock' = [clock EXCEPT ![t] = @ + 1]
      /\ exits' = Append(exits, 0) /\ open' = [open EXCEPT ![t] = Append(@, Len(calls) + 1)]
      /\ UNCHANGED <<findings, unwound>>
  BY DEF Enter, Numbered
<1> HIDE DEF rec
<1> QED BY <1>3, <1>4 DEF Writes

LEMMA ExitWrites ==
    ASSUME StartInv, NEW t \in Thread, Exit(t)
    PROVE  \E rec \in Call :
             /\ Writes(t, rec) /\ rec.kind = "EXIT" /\ rec.name = calls[Last(open[t])].name
             /\ exits' = Append([exits EXCEPT ![Last(open[t])] = Len(calls) + 1], 0)
             /\ open' = [open EXCEPT ![t] = Front(@)]
             /\ open[t] # <<>> /\ UNCHANGED <<findings, unwound>>
<1> DEFINE rec == [calls[Last(open[t])] EXCEPT !.kind = "EXIT", !.event = clock[t] + 1]
<1>1. calls[Last(open[t])] \in Call /\ calls[Last(open[t])].thread = t
  BY CurrentCall DEF Exit
<1>2. clock[t] + 1 \in Nat
  BY DEF StartInv, TraceTyped
<1>3. /\ rec \in Call /\ rec.thread = t /\ rec.event = clock[t] + 1 /\ rec.kind = "EXIT"
      /\ rec.name = calls[Last(open[t])].name
  BY <1>1, <1>2 DEF Call
<1>4. /\ calls' = Append(calls, rec) /\ clock' = [clock EXCEPT ![t] = @ + 1]
      /\ exits' = Append([exits EXCEPT ![Last(open[t])] = Len(calls) + 1], 0)
      /\ open' = [open EXCEPT ![t] = Front(@)]
      /\ open[t] # <<>> /\ UNCHANGED <<findings, unwound>>
  BY DEF Exit, Numbered
<1> HIDE DEF rec
<1> QED BY <1>3, <1>4 DEF Writes

-----------------------------------------------------------------------------
(* The first half of the invariant.                                        *)

LEMMA StartInit ==
    ASSUME Init
    PROVE  StartInv
<1>1. Log = {} /\ Len(calls) = 0
  BY DEF Init, Log
<1>2. /\ calls \in Seq(Call) /\ exits \in Seq(Nat) /\ Len(exits) = Len(calls)
      /\ findings \subseteq Finding /\ clock \in [Thread -> Nat]
      /\ open \in [Thread -> Seq(Nat)]
  BY DEF Init
<1>3. unwound \in BOOLEAN
  BY DEF Init
<1>4. Numbering
  BY <1>1 DEF Numbering
<1>5. Nesting /\ Subjects
  BY DEF Init, Nesting, Subjects
<1> QED BY <1>2, <1>3, <1>4, <1>5 DEF StartInv, TraceTyped

LEMMA StartEnter ==
    ASSUME TraceAssumption, StartInv, NEW t \in Thread, NEW w \in Wrappers, Enter(t, w[1], w[2])
    PROVE  StartInv'
<1> DEFINE n == Len(calls) + 1
<1>0. TraceTyped /\ Nesting
  BY DEF StartInv
<1>1. PICK rec \in Call : /\ Writes(t, rec) /\ rec.kind = "ENTER"
                          /\ exits' = Append(exits, 0)
                          /\ open' = [open EXCEPT ![t] = Append(@, n)]
                          /\ UNCHANGED <<findings, unwound>>
  BY <1>0, EnterWrites
<1>2. /\ calls' \in Seq(Call) /\ Len(calls) \in Nat /\ Len(calls') = n
      /\ Log' = Log \cup {n} /\ calls'[n] = rec /\ rec.thread = t
      /\ \A i \in Log : calls'[i] = calls[i] /\ i < n
  BY <1>0, <1>1, LogAfter DEF Writes
<1>3. exits' \in Seq(Nat) /\ Len(exits') = n /\ exits'[n] = 0 /\ \A i \in Log : exits'[i] = exits[i]
  BY <1>0, <1>1 DEF TraceTyped, Log
<1>4. /\ open[t] \in Seq(Nat) /\ open'[t] = Append(open[t], n) /\ open' \in [Thread -> Seq(Nat)]
      /\ \A u \in Thread : u # t => open'[u] = open[u]
  BY <1>0, <1>1, <1>2 DEF TraceTyped
<1>5. TraceTyped'
  <2>1. clock' \in [Thread -> Nat]
    BY <1>0, <1>1, ClockAfter DEF Writes
  <2> QED BY <1>0, <1>1, <1>2, <1>3, <1>4, <2>1 DEF TraceTyped
<1>6. ASSUME NEW u \in Thread, NEW x \in DOMAIN open'[u]
      PROVE  /\ open'[u][x] \in Log'
             /\ calls'[open'[u][x]].kind = "ENTER" /\ calls'[open'[u][x]].thread = u
             /\ exits'[open'[u][x]] = 0
             /\ \A y \in DOMAIN open'[u] : x < y => open'[u][x] < open'[u][y]
  <2>1. ASSUME x \in DOMAIN open[u]
        PROVE  /\ open[u][x] \in Log
               /\ calls[open[u][x]].kind = "ENTER" /\ calls[open[u][x]].thread = u
               /\ exits[open[u][x]] = 0
               /\ \A y \in DOMAIN open[u] : x < y => open[u][x] < open[u][y]
    BY <1>0, <2>1 DEF Nesting
  <2>2. CASE u # t
    BY <1>2, <1>3, <1>4, <2>1, <2>2
  <2>3. CASE u = t /\ x \in DOMAIN open[t]
    <3>1. open'[t][x] = open[t][x]
      BY <1>4, <2>3
    <3>2. ASSUME NEW y \in DOMAIN open'[t], x < y
          PROVE  open'[t][x] < open'[t][y]
      <4>1. CASE y \in DOMAIN open[t]
        BY <1>4, <2>1, <2>3, <3>1, <3>2, <4>1
      <4>2. CASE y \notin DOMAIN open[t]
        <5>1. open'[t][y] = n
          <6>1. y \in 1 .. Len(open[t]) + 1 /\ y \notin 1 .. Len(open[t])
            BY <1>4, <3>2, <4>2
          <6>2. y = Len(open[t]) + 1
            BY <1>4, <6>1
          <6> QED BY <1>4, <6>2
        <5> QED BY <1>2, <2>1, <2>3, <3>1, <5>1
      <4> QED BY <4>1, <4>2
    <3> QED BY <1>2, <1>3, <2>1, <2>3, <3>1, <3>2
  <2>4. CASE u = t /\ x \notin DOMAIN open[t]
    <3>1. open'[t][x] = n /\ \A y \in DOMAIN open'[t] : ~(x < y)
      BY <1>4, <2>4
    <3> QED BY <1>1, <1>2, <1>3, <2>4, <3>1
  <2> QED BY <2>2, <2>3, <2>4
<1>7. Nesting'
  BY <1>6 DEF Nesting
<1> QED BY <1>1, <1>5, <1>7, NumberingAfter, SubjectsAfter DEF StartInv

LEMMA StartExit ==
    ASSUME StartInv, NEW t \in Thread, Exit(t)
    PROVE  StartInv'
<1> DEFINE n == Len(calls) + 1
           last == Last(open[t])
<1>0. TraceTyped /\ Nesting
  BY DEF StartInv
<1>1. PICK rec \in Call : /\ Writes(t, rec)
                          /\ exits' = Append([exits EXCEPT ![last] = n], 0)
                          /\ open' = [open EXCEPT ![t] = Front(@)]
                          /\ open[t] # <<>> /\ UNCHANGED <<findings, unwound>>
  BY ExitWrites
<1>2. /\ calls' \in Seq(Call) /\ Len(calls) \in Nat /\ Len(calls') = n
      /\ Log' = Log \cup {n} /\ \A i \in Log : calls'[i] = calls[i] /\ i < n
  BY <1>0, <1>1, LogAfter
<1>3. /\ open[t] \in Seq(Nat) /\ last \in Log /\ calls[last].thread = t
      /\ Len(open[t]) \in DOMAIN open[t] /\ last = open[t][Len(open[t])]
  BY <1>1, CurrentCall
<1> HIDE DEF last
<1>4. /\ exits' \in Seq(Nat) /\ Len(exits') = n
      /\ \A i \in Log : i # last => exits'[i] = exits[i]
  <2>1. exits \in Seq(Nat) /\ Len(exits) = Len(calls)
    BY <1>0 DEF TraceTyped
  <2>2. [exits EXCEPT ![last] = n] \in Seq(Nat) /\ Len([exits EXCEPT ![last] = n]) = Len(calls)
        /\ \A i \in Log : i # last => [exits EXCEPT ![last] = n][i] = exits[i]
    <3>1. exits \in [1 .. Len(calls) -> Nat] /\ n \in Nat
      BY <1>2, <2>1
    <3>2. [exits EXCEPT ![last] = n] \in [1 .. Len(calls) -> Nat]
      BY <3>1
    <3>3. \A i \in Log : i # last => [exits EXCEPT ![last] = n][i] = exits[i]
      BY <3>1 DEF Log
    <3> QED BY <1>2, <3>2, <3>3, SequenceOfNumbers
  <2> HIDE DEF n
  <2>3. n \in Nat /\ n = Len(calls) + 1
    BY <1>2 DEF n
  <2> QED BY <1>1, <1>2, <2>2, <2>3 DEF Log
<1>5. /\ open' \in [Thread -> Seq(Nat)]
      /\ \A u \in Thread : u # t => open'[u] = open[u]
      /\ \A x \in DOMAIN open'[t] : x \in DOMAIN open[t] /\ x < Len(open[t]) /\ open'[t][x] = open[t][x]
  BY <1>0, <1>1, <1>3, FrontMeaning DEF TraceTyped
<1>6. TraceTyped'
  <2>1. clock' \in [Thread -> Nat]
    BY <1>0, <1>1, ClockAfter DEF Writes
  <2> QED BY <1>0, <1>1, <1>2, <1>4, <1>5, <2>1 DEF TraceTyped
<1>7. ASSUME NEW u \in Thread, NEW x \in DOMAIN open'[u]
      PROVE  /\ open'[u][x] \in Log'
             /\ calls'[open'[u][x]].kind = "ENTER" /\ calls'[open'[u][x]].thread = u
             /\ exits'[open'[u][x]] = 0
             /\ \A y \in DOMAIN open'[u] : x < y => open'[u][x] < open'[u][y]
  <2>1. /\ x \in DOMAIN open[u] /\ open'[u][x] = open[u][x]
        /\ \A y \in DOMAIN open'[u] : y \in DOMAIN open[u] /\ open'[u][y] = open[u][y]
    BY <1>5
  <2>2. /\ open[u][x] \in Log
        /\ calls[open[u][x]].kind = "ENTER" /\ calls[open[u][x]].thread = u
        /\ exits[open[u][x]] = 0
        /\ \A y \in DOMAIN open[u] : x < y => open[u][x] < open[u][y]
    BY <1>0, <2>1 DEF Nesting
  <2>3. open[u][x] # last
    <3>1. CASE u # t
      BY <1>3, <2>2, <3>1
    <3>2. CASE u = t
      <4>1. x < Len(open[t])
        BY <1>5, <3>2
      <4>2. open[t][x] < last
        BY <1>3, <2>2, <3>2, <4>1
      <4> QED BY <1>0, <2>2, <3>2, <4>2, LogTyped
    <3> QED BY <3>1, <3>2
  <2> QED BY <1>2, <1>4, <2>1, <2>2, <2>3
<1>8. Nesting'
  BY <1>7 DEF Nesting
<1> QED BY <1>1, <1>6, <1>8, NumberingAfter, SubjectsAfter DEF StartInv

LEMMA StartUnwind ==
    ASSUME StartInv, NEW t \in Thread, Unwind(t)
    PROVE  StartInv'
<1>0. TraceTyped /\ Numbering /\ Nesting /\ Subjects
  BY DEF StartInv
<1>1. /\ open[t] # <<>> /\ open' = [open EXCEPT ![t] = Front(@)] /\ unwound' = TRUE
      /\ UNCHANGED <<calls, findings, clock, exits>> /\ Log' = Log
  BY DEF Unwind, Log
<1>2. open \in [Thread -> Seq(Nat)]
  BY <1>0 DEF TraceTyped
<1>3. /\ open' \in [Thread -> Seq(Nat)]
      /\ \A u \in Thread : \A x \in DOMAIN open'[u] :
           x \in DOMAIN open[u] /\ open'[u][x] = open[u][x]
  <2>1. /\ Front(open[t]) \in Seq(Nat)
        /\ \A x \in DOMAIN Front(open[t]) : x \in DOMAIN open[t] /\ Front(open[t])[x] = open[t][x]
    BY <1>1, <1>2, FrontMeaning
  <2> QED BY <1>1, <1>2, <2>1
<1>4. TraceTyped'
  BY <1>0, <1>1, <1>3 DEF TraceTyped
<1>5. Nesting'
  BY <1>0, <1>1, <1>3 DEF Nesting
<1>6. Numbering' /\ Subjects'
  BY <1>0, <1>1 DEF Numbering, Subjects
<1> QED BY <1>4, <1>5, <1>6 DEF StartInv

LEMMA StartMakes ==
    ASSUME StartInv, NEW t \in Thread, Makes(t)
    PROVE  StartInv'
<1> DEFINE last == Last(open[t])
           new == [thread |-> t, site |-> calls[last].site, event |-> clock[t] + 1,
                   call |-> last, at |-> Len(calls)]
<1>0. TraceTyped /\ Numbering /\ Nesting /\ Subjects
  BY DEF StartInv
<1>1. /\ open[t] # <<>> /\ findings' = findings \cup {new}
      /\ clock' = [clock EXCEPT ![t] = @ + 1]
      /\ UNCHANGED <<calls, open, exits, unwound>> /\ Log' = Log
  BY DEF Makes, Numbered, Log
<1>2. /\ last \in Log /\ calls[last] \in Call /\ calls[last].kind = "ENTER"
      /\ calls[last].thread = t
  BY <1>1, CurrentCall
<1>3. /\ clock' \in [Thread -> Nat] /\ clock[t] \in Nat /\ clock'[t] = clock[t] + 1
      /\ \A u \in Thread : clock[u] <= clock'[u] /\ clock[u] \in Nat /\ clock'[u] \in Nat
  BY <1>0, <1>1, ClockAfter
<1> HIDE DEF last
<1>4. last \in Nat /\ Len(calls) \in Nat /\ calls[last].site \in Site /\ last \in 1 .. Len(calls)
  BY <1>0, <1>2, LogTyped DEF TraceTyped, Call, Log
<1>5. new \in Finding
  BY <1>3, <1>4 DEF Finding
<1>6. TraceTyped'
  BY <1>0, <1>1, <1>3, <1>5 DEF TraceTyped
<1>7. Numbering'
  <2>1. ASSUME NEW i \in Log PROVE calls[i].event <= clock'[calls[i].thread]
    BY <1>0, <1>3, LogTyped DEF Numbering
  <2> QED BY <1>0, <1>1, <2>1 DEF Numbering
<1>8. Nesting'
  BY <1>0, <1>1 DEF Nesting
<1>9. ASSUME NEW f \in findings'
      PROVE  /\ f.call \in 1 .. f.at /\ f.at <= Len(calls) /\ f.event <= clock'[f.thread]
             /\ calls[f.call].kind = "ENTER" /\ calls[f.call].thread = f.thread
             /\ calls[f.call].site = f.site
             /\ \A i \in Log : calls[i].thread = f.thread =>
                  IF i <= f.at THEN calls[i].event < f.event ELSE f.event < calls[i].event
  <2>1. CASE f \in findings
    <3>1. f.thread \in Thread /\ f.event \in Nat
      BY <1>0, <2>1 DEF TraceTyped, Finding
    <3>2. f.event <= clock'[f.thread]
      BY <1>0, <1>3, <2>1, <3>1 DEF Subjects
    <3> QED BY <1>0, <2>1, <3>2 DEF Subjects
  <2>2. CASE f = new
    <3>1. \A i \in Log : i <= Len(calls) /\ calls[i].event \in Nat
                        /\ calls[i].event <= clock[calls[i].thread]
      BY <1>0, LogTyped DEF Numbering, Log
    <3> QED BY <1>2, <1>3, <1>4, <2>2, <3>1
  <2> QED BY <1>1, <2>1, <2>2
<1>10. Subjects'
  BY <1>1, <1>9 DEF Subjects
<1> QED BY <1>6, <1>7, <1>8, <1>10 DEF StartInv

LEMMA StartStep ==
    ASSUME TraceAssumption, StartInv, [Next]_vars
    PROVE  StartInv'
<1>1. CASE UNCHANGED vars
  BY <1>1 DEF StartInv, TraceTyped, Numbering, Nesting, Subjects, Log, vars
<1> QED BY <1>1, StartEnter, StartExit, StartUnwind, StartMakes DEF Next

\* The window under a finding begins inside the call its record was made in, at its
\* ENTER or at that of a call nested in it, whatever other threads log in between and
\* however often the line calls (output.c:366-380).
THEOREM WindowsStartInTheirCalls == Spec => []WindowStartsInCall
<1>1. Init => StartInv
  BY StartInit
<1>2. StartInv /\ [Next]_vars => StartInv'
  BY TraceAssumption, StartStep
<1>3. StartInv => WindowStartsInCall
  BY StartsInCall DEF WindowStartsInCall
<1> QED BY <1>1, <1>2, <1>3, PTL DEF Spec

-----------------------------------------------------------------------------
(* Where the window ends.                                                  *)

LEMMA EndsWithCall ==
    ASSUME EndInv
    PROVE  WindowEndsWithCall
<1>1. TraceTyped /\ StartInv /\ OpenCounts /\ EndedCounts /\ NoneLost /\ Len(calls) \in Nat
  BY DEF EndInv, StartInv, TraceTyped
<1> SUFFICES ASSUME NEW f \in findings, NEW b, b = Begin(f)
             PROVE  IF ~unwound
                    THEN End(b) = IF exits[b] # 0 THEN exits[b] ELSE Len(calls)
                    ELSE /\ exits[b] # 0 => End(b) >= exits[b]
                         /\ b \in Range(open[f.thread]) => End(b) = Len(calls)
  BY DEF WindowEndsWithCall
<1>2. b \in Log /\ b \in Nat /\ calls[b].kind = "ENTER" /\ calls[b].thread = f.thread
      /\ f.thread \in Thread
  BY <1>1, StartsInCall, LogTyped
<1> DEFINE closing == {k \in b .. Len(calls) : Closes(b, k)}
<1>3. \A k \in b .. Len(calls) : k \in closing <=> Excess(b, k) = 0
  <2> SUFFICES ASSUME NEW k \in b .. Len(calls) PROVE Closes(b, k) <=> Excess(b, k) = 0
    OBVIOUS
  <2>1. Counted(b, k, "ENTER") \in Nat /\ Counted(b, k, "EXIT") \in Nat
    <3> DEFINE S(kind) == {i \in b .. k : /\ calls[i].thread = calls[b].thread
                                          /\ calls[i].name = calls[b].name
                                          /\ calls[i].kind = kind}
    <3>1. IsFiniteSet(b .. k)
      BY <1>1, <1>2, FS_Interval
    <3>2. \A kind : S(kind) \subseteq b .. k
      OBVIOUS
    <3>3. \A kind : IsFiniteSet(S(kind))
      BY <3>1, <3>2, FS_Subset
    <3> HIDE DEF S
    <3>4. Cardinality(S("ENTER")) \in Nat /\ Cardinality(S("EXIT")) \in Nat
      BY <3>3, FS_CardinalityType
    <3> QED BY <3>4 DEF Counted, S
  <2> QED BY <2>1 DEF Closes, Excess
<1>4. closing \subseteq Nat
  BY <1>1, <1>2
<1> HIDE DEF closing
<1>5. End(b) = IF closing = {} THEN Len(calls) ELSE CHOOSE k \in closing : \A j \in closing : k <= j
  BY DEF End, closing
<1>6. closing # {} => End(b) \in closing /\ \A j \in closing : End(b) <= j
  <2> SUFFICES ASSUME closing # {}
               PROVE  End(b) \in closing /\ \A j \in closing : End(b) <= j
    OBVIOUS
  <2>1. \E k \in closing : \A j \in closing : k <= j
    BY <1>4, LeastExists
  <2> QED BY <1>5, <2>1
<1>7. ASSUME b \in Range(open[f.thread])
      PROVE  End(b) = Len(calls)
  <2>1. PICK x \in DOMAIN open[f.thread] : open[f.thread][x] = b
    BY <1>7 DEF Range
  <2>2. \A k \in b .. Len(calls) : Excess(b, k) > 0
    BY <1>1, <1>2, <2>1 DEF OpenCounts
  <2>3. closing = {}
    BY <1>3, <2>2 DEF closing
  <2> QED BY <1>5, <2>3
<1>8. ASSUME exits[b] # 0
      PROVE  /\ exits[b] \in b .. Len(calls) /\ End(b) >= exits[b]
             /\ ~unwound => End(b) = exits[b]
  <2>1. /\ exits[b] \in b .. Len(calls)
        /\ \A k \in b .. Len(calls) : /\ k < exits[b] => Excess(b, k) > 0
                                      /\ k = exits[b] /\ ~unwound => Excess(b, k) = 0
    BY <1>1, <1>2, <1>8 DEF EndedCounts
  <2>2. \A k \in closing : k \in b .. Len(calls) /\ k >= exits[b]
    <3> SUFFICES ASSUME NEW k \in closing PROVE k \in b .. Len(calls) /\ k >= exits[b]
      OBVIOUS
    <3>1. k \in b .. Len(calls)
      BY DEF closing
    <3>2. ~(k < exits[b])
      BY <1>3, <2>1, <3>1
    <3> QED BY <1>1, <1>2, <2>1, <3>1, <3>2
  <2>3. ~unwound => exits[b] \in closing
    BY <1>3, <2>1
  <2>4. CASE closing = {}
    BY <1>1, <1>2, <1>5, <2>1, <2>3, <2>4
  <2>5. CASE closing # {}
    <3>1. End(b) \in closing /\ \A j \in closing : End(b) <= j
      BY <1>6, <2>5
    <3>3. exits[b] \in Nat
      BY <1>1, <1>2, <2>1
    <3>2. End(b) >= exits[b] /\ End(b) \in Nat /\ exits[b] \in Nat
      BY <1>4, <2>2, <3>1, <3>3
    <3> QED BY <2>1, <2>3, <3>1, <3>2
  <2> QED BY <2>4, <2>5
<1>9. ASSUME ~unwound, exits[b] = 0
      PROVE  b \in Range(open[f.thread])
  BY <1>1, <1>2, <1>9 DEF NoneLost, Range
<1> QED BY <1>7, <1>8, <1>9

-----------------------------------------------------------------------------
(* Counting along the log.                                                 *)

\* The records of the call at b that its thread wrote up to k.
Same(b, k, kind) ==
    {i \in b .. k : /\ calls[i].thread = calls[b].thread
                    /\ calls[i].name = calls[b].name
                    /\ calls[i].kind = kind}

LEMMA CountedMeaning ==
    /\ \A b, k, kind : Counted(b, k, kind) = Cardinality(Same(b, k, kind))
    /\ \A b, k, kind : Counted(b, k, kind)' = Cardinality(Same(b, k, kind)')
<1>1. \A b, k, kind : Counted(b, k, kind) = Cardinality(Same(b, k, kind))
  BY DEF Counted, Same
<1>2. \A b, k, kind : Counted(b, k, kind)' = Cardinality(Same(b, k, kind)')
  BY DEF Counted, Same
<1> QED BY <1>1, <1>2

LEMMA SameIsFinite ==
    ASSUME NEW b \in Nat, NEW k \in Nat, NEW kind
    PROVE  IsFiniteSet(Same(b, k, kind)) /\ Cardinality(Same(b, k, kind)) \in Nat
<1>1. IsFiniteSet(b .. k) /\ Same(b, k, kind) \subseteq b .. k
  BY FS_Interval DEF Same
<1> QED BY <1>1, FS_Subset, FS_CardinalityType

\* What the count was up to a place of the log, a new record does not change.
LEMMA ExcessBefore ==
    ASSUME TraceTyped, NEW t \in Thread, NEW rec, Writes(t, rec),
           NEW b \in Log, NEW k \in b .. Len(calls)
    PROVE  Excess(b, k)' = Excess(b, k)
<1>1. b .. k \subseteq Log /\ b \in b .. k
  BY LogTyped, LogAfter DEF Log
<1>2. \A i \in b .. k : calls'[i] = calls[i]
  BY <1>1, LogAfter
<1>3. \A kind : Same(b, k, kind)' = Same(b, k, kind)
  BY <1>1, <1>2 DEF Same
<1>4. \A kind : Counted(b, k, kind)' = Counted(b, k, kind)
  BY <1>3, CountedMeaning
<1> QED BY <1>4 DEF Excess

\* The record itself counts for the calls of its thread that have its name.
LEMMA ExcessAt ==
    ASSUME TraceTyped, NEW t \in Thread, NEW rec, Writes(t, rec), NEW b \in Log,
           NEW n, n = Len(calls) + 1
    PROVE  /\ Excess(b, Len(calls)) \in Int
           /\ Excess(b, n)' = Excess(b, Len(calls)) +
                IF calls[b].thread = t /\ calls[b].name = rec.name
                THEN IF rec.kind = "ENTER" THEN 1 ELSE -1
                ELSE 0
<1>1. /\ Len(calls) \in Nat /\ b \in Nat /\ n \in Nat /\ b .. n = b .. Len(calls) \cup {n}
      /\ n \notin b .. Len(calls) /\ b \in b .. Len(calls)
  BY LogTyped, LogAfter DEF Log
<1>2. calls'[n] = rec /\ \A i \in b .. Len(calls) : calls'[i] = calls[i]
  BY <1>1, LogAfter DEF Log
<1>3. rec.kind \in {"ENTER", "EXIT"} /\ rec.thread = t
  BY DEF Writes, Call
<1>4. ASSUME NEW kind
      PROVE  /\ Counted(b, Len(calls), kind) \in Nat
             /\ Counted(b, n, kind)' = Counted(b, Len(calls), kind) +
                  IF calls[b].thread = t /\ calls[b].name = rec.name /\ rec.kind = kind
                  THEN 1 ELSE 0
  <2> DEFINE S == Same(b, Len(calls), kind)
  <2>1. IsFiniteSet(S) /\ Cardinality(S) \in Nat
    BY <1>1, SameIsFinite
  <2>7. n \notin S
    BY <1>1 DEF Same
  <2>3. Counted(b, n, kind)' = Cardinality(Same(b, n, kind)')
    BY CountedMeaning
  <2>4. Counted(b, Len(calls), kind) = Cardinality(S)
    BY CountedMeaning
  <2>5. CASE calls[b].thread = t /\ calls[b].name = rec.name /\ rec.kind = kind
    <3>1. Same(b, n, kind)' = S \cup {n}
      BY <1>1, <1>2, <1>3, <2>5 DEF Same
    <3> HIDE DEF S
    <3>2. Cardinality(S \cup {n}) = Cardinality(S) + 1
      BY <2>1, <2>7, FS_AddElement
    <3> QED BY <2>1, <2>3, <2>4, <2>5, <3>1, <3>2
  <2>6. CASE ~(calls[b].thread = t /\ calls[b].name = rec.name /\ rec.kind = kind)
    <3>1. Same(b, n, kind)' = S
      BY <1>1, <1>2, <1>3, <2>6 DEF Same
    <3> HIDE DEF S
    <3> QED BY <2>1, <2>3, <2>4, <2>6, <3>1
  <2> QED BY <2>5, <2>6
<1>5. Excess(b, n)' = Counted(b, n, "ENTER")' - Counted(b, n, "EXIT")'
  BY DEF Excess
<1> QED BY <1>3, <1>4, <1>5 DEF Excess

\* An ENTER begins a count of its own.
LEMMA ExcessFirst ==
    ASSUME TraceTyped, NEW t \in Thread, NEW rec, Writes(t, rec), rec.kind = "ENTER",
           NEW n, n = Len(calls) + 1
    PROVE  Excess(n, n)' = 1
<1>1. n \in Nat /\ n .. n = {n} /\ calls'[n] = rec
  BY LogAfter
<1>2. Same(n, n, "ENTER")' = {n} /\ Same(n, n, "EXIT")' = {}
  BY <1>1 DEF Same
<1>3. Counted(n, n, "ENTER")' = 1 /\ Counted(n, n, "EXIT")' = 0
  BY <1>2, CountedMeaning, FS_EmptySet, FS_Singleton
<1> QED BY <1>3 DEF Excess

LEMMA InnerIsFinite ==
    ASSUME TraceTyped, NEW t \in Thread, NEW x \in DOMAIN open[t]
    PROVE  /\ IsFiniteSet(Inner(t, x)) /\ Cardinality(Inner(t, x)) \in Nat
           /\ x \in Inner(t, x) /\ Cardinality(Inner(t, x)) >= 1
<1>0. open[t] \in Seq(Nat)
  BY DEF TraceTyped
<1>1. x \in Nat /\ Len(open[t]) \in Nat /\ x \in x .. Len(open[t])
  BY <1>0
<1>5. IsFiniteSet(x .. Len(open[t]))
  BY <1>1, FS_Interval
<1>2. IsFiniteSet(x .. Len(open[t])) /\ Inner(t, x) \subseteq x .. Len(open[t])
  BY <1>5 DEF Inner
<1>3. IsFiniteSet(Inner(t, x)) /\ x \in Inner(t, x)
  BY <1>1, <1>2, FS_Subset DEF Inner
<1>4. Cardinality(Inner(t, x)) \in Nat /\ Cardinality(Inner(t, x)) # 0
  BY <1>3, FS_CardinalityType, FS_EmptySet
<1> QED BY <1>3, <1>4

-----------------------------------------------------------------------------
(* The second half of the invariant.                                       *)

\* What is open is in the log.
LEMMA OpenInLog ==
    ASSUME StartInv, NEW t \in Thread, NEW x \in DOMAIN open[t]
    PROVE  /\ open[t] \in Seq(Nat) /\ x \in Nat /\ open[t][x] \in Log
           /\ calls[open[t][x]].kind = "ENTER" /\ calls[open[t][x]].thread = t
           /\ exits[open[t][x]] = 0
           /\ \A y \in DOMAIN open[t] : x < y => open[t][x] < open[t][y]
<1>1. open[t] \in Seq(Nat)
  BY DEF StartInv, TraceTyped
<1> QED BY <1>1 DEF StartInv, Nesting

\* What OpenCounts says of the call at b, the x-th that t is in.
OpenCount(t, x, b) ==
    \A k \in b .. Len(calls) :
      /\ Excess(b, k) > 0
      /\ k = Len(calls) =>
           /\ Cardinality(Inner(t, x)) <= Excess(b, k)
           /\ ~unwound => Cardinality(Inner(t, x)) = Excess(b, k)

\* A record written keeps a count that it moves as far as the open calls change.
LEMMA OpenCountAfter ==
    ASSUME StartInv, NEW t \in Thread, NEW rec, Writes(t, rec), unwound' = unwound,
           NEW u \in Thread, NEW x \in DOMAIN open[u], NEW b \in Log, open[u][x] = b,
           OpenCount(u, x, b),
           NEW d, d = IF u = t /\ calls[b].name = rec.name
                      THEN IF rec.kind = "ENTER" THEN 1 ELSE -1 ELSE 0,
           Cardinality(Inner(u, x)') \in Nat \ {0},
           Cardinality(Inner(u, x)') = Cardinality(Inner(u, x)) + d
    PROVE  OpenCount(u, x, b)'
<1>0. TraceTyped /\ calls[b].thread = u /\ Cardinality(Inner(u, x)) \in Nat
  BY OpenInLog, InnerIsFinite DEF StartInv
<1>1. PICK n \in Nat : n = Len(calls) + 1
  BY <1>0, LogAfter
<1>2. Len(calls) \in Nat /\ Len(calls') = n /\ b \in b .. Len(calls) /\ b \in Nat
  BY <1>0, <1>1, LogAfter, LogTyped DEF Log
<1>3. Excess(b, Len(calls)) \in Int /\ Excess(b, n)' = Excess(b, Len(calls)) + d
  BY <1>0, <1>1, ExcessAt
<1>4. /\ Cardinality(Inner(u, x)) <= Excess(b, Len(calls))
      /\ ~unwound => Cardinality(Inner(u, x)) = Excess(b, Len(calls))
  BY <1>2 DEF OpenCount
<1>5. d \in Int
  OBVIOUS
<1>6. /\ Cardinality(Inner(u, x)') <= Excess(b, n)' /\ Excess(b, n)' > 0
      /\ ~unwound => Cardinality(Inner(u, x)') = Excess(b, n)'
  BY <1>0, <1>3, <1>4, <1>5
<1>7. \A k \in b .. Len(calls) : Excess(b, k)' > 0 /\ k # n
  BY <1>0, <1>1, <1>2, ExcessBefore DEF OpenCount
<1>8. ASSUME NEW k \in b .. n
      PROVE  /\ Excess(b, k)' > 0
             /\ k = n => /\ Cardinality(Inner(u, x)') <= Excess(b, k)'
                         /\ ~unwound => Cardinality(Inner(u, x)') = Excess(b, k)'
  <2>1. CASE k = n
    BY <1>6, <2>1
  <2>2. CASE k # n
    <3>1. k \in b .. Len(calls)
      BY <1>1, <1>2, <2>2
    <3> QED BY <1>7, <3>1
  <2> QED BY <2>1, <2>2
<1> QED BY <1>2, <1>8 DEF OpenCount

\* What EndedCounts says of the call at b.
EndedCount(b) ==
    /\ exits[b] \in b .. Len(calls)
    /\ \A k \in b .. Len(calls) :
         /\ k < exits[b] => Excess(b, k) > 0
         /\ k = exits[b] /\ ~unwound => Excess(b, k) = 0

\* A record written leaves the calls alone that have ended.
LEMMA EndedCountAfter ==
    ASSUME TraceTyped, NEW t \in Thread, NEW rec, Writes(t, rec), unwound' = unwound,
           NEW b \in Log, exits'[b] = exits[b], EndedCount(b)
    PROVE  EndedCount(b)'
<1>1. /\ Len(calls) \in Nat /\ Len(calls') = Len(calls) + 1 /\ b \in Nat
      /\ exits[b] \in b .. Len(calls)
  BY LogAfter, LogTyped DEF EndedCount
<1>2. ASSUME NEW k \in b .. Len(calls'), k <= exits[b]
      PROVE  k \in b .. Len(calls) /\ Excess(b, k)' = Excess(b, k)
  <2>1. k \in b .. Len(calls)
    BY <1>1, <1>2
  <2> QED BY <2>1, ExcessBefore
<1>3. exits[b] \in b .. Len(calls')
  BY <1>1
<1>4. ASSUME NEW k \in b .. Len(calls')
      PROVE  /\ k < exits[b] => Excess(b, k)' > 0
             /\ k = exits[b] /\ ~unwound => Excess(b, k)' = 0
  <2>1. CASE k <= exits[b]
    BY <1>2, <2>1 DEF EndedCount
  <2>2. CASE ~(k <= exits[b])
    BY <1>1, <2>2
  <2> QED BY <2>1, <2>2
<1> QED BY <1>3, <1>4 DEF EndedCount

\* The log does not change what the open calls of another thread are named.
LEMMA InnerElsewhere ==
    ASSUME StartInv, NEW t \in Thread, NEW rec, Writes(t, rec),
           NEW u \in Thread, open'[u] = open[u], NEW x \in DOMAIN open[u]
    PROVE  Inner(u, x)' = Inner(u, x)
<1>0. TraceTyped /\ open[u] \in Seq(Nat)
  BY OpenInLog DEF StartInv
<1>1. \A y \in x .. Len(open[u]) : y \in DOMAIN open[u]
  BY <1>0
<1>2. \A y \in DOMAIN open[u] : calls'[open[u][y]] = calls[open[u][y]]
  BY <1>0, OpenInLog, LogAfter
<1> QED BY <1>1, <1>2 DEF Inner

LEMMA IntervalGrows ==
    ASSUME NEW k \in Nat, NEW x \in 1 .. k
    PROVE  /\ x .. k + 1 = (x .. k) \cup {k + 1} /\ k + 1 \notin x .. k
           /\ x .. k \subseteq 1 .. k /\ k + 1 \in x .. k + 1
OBVIOUS

LEMMA EndEnter ==
    ASSUME TraceAssumption, EndInv, NEW t \in Thread, NEW w \in Wrappers, Enter(t, w[1], w[2])
    PROVE  OpenCounts' /\ EndedCounts' /\ NoneLost'
<1>0. StartInv /\ TraceTyped /\ OpenCounts /\ EndedCounts /\ NoneLost
  BY DEF EndInv, StartInv
<1>1. PICK rec \in Call : /\ Writes(t, rec) /\ rec.kind = "ENTER"
                          /\ exits' = Append(exits, 0)
                          /\ open' = [open EXCEPT ![t] = Append(@, Len(calls) + 1)]
                          /\ UNCHANGED <<findings, unwound>>
  BY <1>0, EnterWrites
<1>2. PICK n \in Nat : n = Len(calls) + 1
  BY <1>0, <1>1, LogAfter
<1>3. /\ Len(calls) \in Nat /\ Len(calls') = n /\ Log' = Log \cup {n} /\ n \notin Log
      /\ calls'[n] = rec /\ rec.thread = t
      /\ \A i \in Log : calls'[i] = calls[i]
  BY <1>0, <1>1, <1>2, LogAfter DEF Writes
<1>4. exits'[n] = 0 /\ \A i \in Log : exits'[i] = exits[i]
  BY <1>0, <1>1, <1>2 DEF TraceTyped, Log
<1>5. open[t] \in Seq(Nat) /\ open'[t] = Append(open[t], n) /\ \A u \in Thread : u # t => open'[u] = open[u]
  BY <1>0, <1>1, <1>2 DEF TraceTyped
<1>6. PICK m \in Nat : m = Len(open[t]) + 1
  BY <1>5
<1>7. /\ DOMAIN open'[t] = DOMAIN open[t] \cup {m} /\ m \notin DOMAIN open[t]
      /\ open'[t][m] = n /\ Len(open'[t]) = m
      /\ \A y \in DOMAIN open[t] : open'[t][y] = open[t][y]
  BY <1>5, <1>6
<1>8. ASSUME NEW u \in Thread, NEW x \in DOMAIN open'[u], NEW b \in Log', open'[u][x] = b
      PROVE  OpenCount(u, x, b)'
  <2>1. CASE u # t
    <3>1. x \in DOMAIN open[u] /\ open[u][x] = b /\ open'[u] = open[u]
      BY <1>5, <1>8, <2>1
    <3>2. b \in Log /\ OpenCount(u, x, b)
      BY <1>0, <3>1, OpenInLog DEF OpenCounts, OpenCount
    <3>3. /\ Inner(u, x)' = Inner(u, x) /\ Cardinality(Inner(u, x)) \in Nat \ {0}
          /\ Cardinality(Inner(u, x)) = Cardinality(Inner(u, x)) + 0
      BY <1>0, <1>1, <3>1, InnerElsewhere, InnerIsFinite
    <3> QED BY <1>0, <1>1, <2>1, <3>1, <3>2, <3>3, OpenCountAfter
  <2>2. CASE u = t /\ x \in DOMAIN open[t]
    <3>1. open[t][x] = b /\ x \in Nat /\ x <= Len(open[t]) /\ x <= m
      BY <1>5, <1>6, <1>7, <1>8, <2>2
    <3>2. b \in Log /\ OpenCount(t, x, b)
      BY <1>0, <2>2, <3>1, OpenInLog DEF OpenCounts, OpenCount
    <3> DEFINE S == Inner(t, x)
    <3>14. /\ x .. m = (x .. Len(open[t])) \cup {m} /\ m \notin x .. Len(open[t])
           /\ x .. Len(open[t]) \subseteq DOMAIN open[t] /\ m \in x .. m
      <4>1. Len(open[t]) \in Nat /\ DOMAIN open[t] = 1 .. Len(open[t])
        BY <1>5
      <4> QED BY <1>6, <2>2, <4>1, IntervalGrows
    <3>3. IsFiniteSet(S) /\ Cardinality(S) \in Nat \ {0} /\ m \notin S
      <4>1. S \subseteq x .. Len(open[t])
        BY DEF Inner
      <4>2. IsFiniteSet(S) /\ Cardinality(S) \in Nat /\ Cardinality(S) >= 1
        BY <1>0, <2>2, InnerIsFinite
      <4> HIDE DEF S
      <4> QED BY <3>14, <4>1, <4>2
    <3>4. \A y \in x .. m : (y \in x .. Len(open[t]) /\ y \in DOMAIN open[t]) \/ y = m
      BY <3>14
    <3>5. \A y \in DOMAIN open[t] : calls'[open'[t][y]] = calls[open[t][y]]
      BY <1>0, <1>3, <1>7, OpenInLog
    <3>6. calls'[open'[t][m]] = rec
      BY <1>3, <1>7
    <3>7. calls'[open'[t][x]].name = calls[b].name
      BY <2>2, <3>1, <3>5
    <3>8. Inner(t, x)' = {y \in x .. m : calls'[open'[t][y]].name = calls[b].name}
      BY <1>7, <3>7 DEF Inner
    <3>9. S = {y \in x .. Len(open[t]) : calls[open[t][y]].name = calls[b].name}
      BY <3>1 DEF Inner
    <3>10. \A y \in x .. Len(open[t]) : y \in x .. m /\ y # m /\ y \in DOMAIN open[t]
      BY <3>14
    <3>13. m \in x .. m
      BY <3>14
    <3> HIDE DEF S
    <3>11. CASE calls[b].name = rec.name
      <4>1. Inner(t, x)' = S \cup {m}
        BY <3>4, <3>5, <3>6, <3>8, <3>9, <3>10, <3>11, <3>13
      <4>2. Cardinality(Inner(t, x)') = Cardinality(S) + 1
        BY <3>3, <4>1, FS_AddElement
      <4>3. Cardinality(Inner(t, x)') \in Nat \ {0}
        BY <3>3, <4>2
      <4> QED BY <1>0, <1>1, <2>2, <3>1, <3>2, <3>11, <4>2, <4>3, OpenCountAfter DEF S
    <3>12. CASE calls[b].name # rec.name
      <4>1. Inner(t, x)' = S
        BY <3>4, <3>5, <3>6, <3>8, <3>9, <3>10, <3>12
      <4>2. Cardinality(Inner(t, x)') = Cardinality(S) + 0
        BY <3>3, <4>1
      <4> QED BY <1>0, <1>1, <2>2, <3>1, <3>2, <3>3, <3>12, <4>1, <4>2, OpenCountAfter DEF S
    <3> QED BY <2>2, <3>11, <3>12
  <2>3. CASE u = t /\ x = m
    <3>1. b = n /\ n .. n = {n} /\ m .. m = {m}
      BY <1>7, <1>8, <2>3
    <3>2. Inner(t, m)' = {m}
      BY <1>7, <3>1 DEF Inner
    <3>3. Cardinality(Inner(t, m)') = 1
      BY <3>2, FS_Singleton
    <3>4. Excess(n, n)' = 1
      BY <1>0, <1>1, <1>2, ExcessFirst
    <3> QED BY <1>3, <2>3, <3>1, <3>3, <3>4 DEF OpenCount
  <2> QED BY <1>7, <2>1, <2>2, <2>3
<1>9. OpenCounts'
  BY <1>8 DEF OpenCounts, OpenCount
<1>10. ASSUME NEW b \in Log', exits'[b] # 0
       PROVE  EndedCount(b)'
  <2>1. b \in Log /\ exits'[b] = exits[b]
    BY <1>3, <1>4, <1>10
  <2>2. EndedCount(b)
    BY <1>0, <1>10, <2>1 DEF EndedCounts, EndedCount
  <2> QED BY <1>0, <1>1, <2>1, <2>2, EndedCountAfter
<1>11. EndedCounts'
  BY <1>10 DEF EndedCounts, EndedCount
<1>12. ASSUME ~unwound, NEW b \in Log', calls'[b].kind = "ENTER", exits'[b] = 0
       PROVE  \E x \in DOMAIN open'[calls'[b].thread] : open'[calls'[b].thread][x] = b
  <2>1. CASE b \in Log
    <3>1. calls'[b] = calls[b] /\ calls[b].thread \in Thread
      BY <1>0, <1>3, <2>1, LogTyped
    <3>2. PICK x \in DOMAIN open[calls[b].thread] : open[calls[b].thread][x] = b
      BY <1>0, <1>4, <1>12, <2>1, <3>1 DEF NoneLost
    <3>3. x \in DOMAIN open'[calls[b].thread] /\ open'[calls[b].thread][x] = b
      BY <1>5, <1>7, <3>1, <3>2
    <3> QED BY <3>1, <3>3
  <2>2. CASE b = n
    BY <1>3, <1>7, <2>2
  <2> QED BY <1>3, <2>1, <2>2
<1>13. NoneLost'
  BY <1>1, <1>12 DEF NoneLost
<1> QED BY <1>9, <1>11, <1>13

LEMMA EndExit ==
    ASSUME EndInv, NEW t \in Thread, Exit(t)
    PROVE  OpenCounts' /\ EndedCounts' /\ NoneLost'
<1>0. StartInv /\ TraceTyped /\ OpenCounts /\ EndedCounts /\ NoneLost
  BY DEF EndInv, StartInv
<1>1. PICK last \in Log : last = Last(open[t])
  BY <1>0, CurrentCall DEF Exit
<1>2. PICK rec \in Call :
        /\ Writes(t, rec) /\ rec.kind = "EXIT" /\ rec.name = calls[last].name
        /\ exits' = Append([exits EXCEPT ![last] = Len(calls) + 1], 0)
        /\ open' = [open EXCEPT ![t] = Front(@)]
        /\ open[t] # <<>> /\ UNCHANGED <<findings, unwound>>
  BY <1>0, <1>1, ExitWrites
<1>3. PICK n \in Nat : n = Len(calls) + 1
  BY <1>0, <1>2, LogAfter
<1>4. /\ Len(calls) \in Nat /\ Len(calls') = n /\ Log' = Log \cup {n} /\ n \notin Log
      /\ calls'[n] = rec /\ rec.thread = t
      /\ \A i \in Log : calls'[i] = calls[i]
  BY <1>0, <1>2, <1>3, LogAfter DEF Writes
<1>5. /\ exits'[n] = 0 /\ exits'[last] = n
      /\ \A i \in Log : i # last => exits'[i] = exits[i]
  <2>1. exits \in [1 .. Len(calls) -> Nat] /\ Log = 1 .. Len(calls)
    BY <1>0 DEF TraceTyped, Log
  <2>2. /\ [exits EXCEPT ![last] = n] \in [1 .. Len(calls) -> Nat]
        /\ [exits EXCEPT ![last] = n][last] = n
        /\ \A i \in Log : i # last => [exits EXCEPT ![last] = n][i] = exits[i]
    BY <2>1
  <2> DEFINE e == [exits EXCEPT ![last] = n]
  <2>3. e \in Seq(Nat) /\ Len(e) = Len(calls) /\ exits' = Append(e, 0)
    BY <1>2, <1>3, <1>4, <2>2, SequenceOfNumbers
  <2>4. e[last] = n /\ \A i \in Log : i # last => e[i] = exits[i]
    BY <2>2
  <2> HIDE DEF e
  <2>5. exits'[n] = 0 /\ \A i \in Log : exits'[i] = e[i]
    <3>1. /\ Append(e, 0)[Len(e) + 1] = 0
          /\ \A i \in 1 .. Len(e) : Append(e, 0)[i] = e[i]
      BY <2>3
    <3> QED BY <1>3, <2>1, <2>3, <3>1
  <2> QED BY <2>4, <2>5
<1>6. PICK m \in Nat : m = Len(open[t])
  BY <1>0 DEF TraceTyped
<1>7. /\ open[t] \in Seq(Nat) /\ m \in DOMAIN open[t] /\ open[t][m] = last /\ m # 0
      /\ calls[last].thread = t /\ DOMAIN open[t] = 1 .. m
  BY <1>0, <1>1, <1>2, <1>6, CurrentCall
<1>8. /\ open'[t] = Front(open[t]) /\ \A u \in Thread : u # t => open'[u] = open[u]
      /\ Len(open'[t]) = m - 1 /\ DOMAIN open'[t] = 1 .. m - 1
      /\ \A y \in 1 .. m - 1 : open'[t][y] = open[t][y] /\ y \in DOMAIN open[t] /\ y < m
  <2>1. open'[t] = Front(open[t]) /\ \A u \in Thread : u # t => open'[u] = open[u]
    BY <1>0, <1>2 DEF TraceTyped
  <2>2. /\ Front(open[t]) \in Seq(Nat) /\ Len(Front(open[t])) = m - 1
        /\ \A y \in DOMAIN Front(open[t]) : y \in DOMAIN open[t] /\ y < m /\ Front(open[t])[y] = open[t][y]
    BY <1>2, <1>6, <1>7, FrontMeaning
  <2>3. DOMAIN Front(open[t]) = 1 .. m - 1
    BY <2>2
  <2> QED BY <2>1, <2>2, <2>3
<1>9. ASSUME NEW u \in Thread, NEW x \in DOMAIN open'[u], NEW b \in Log', open'[u][x] = b
      PROVE  OpenCount(u, x, b)'
  <2>1. CASE u # t
    <3>1. x \in DOMAIN open[u] /\ open[u][x] = b /\ open'[u] = open[u]
      BY <1>8, <1>9, <2>1
    <3>2. b \in Log /\ OpenCount(u, x, b)
      BY <1>0, <3>1, OpenInLog DEF OpenCounts, OpenCount
    <3>3. /\ Inner(u, x)' = Inner(u, x) /\ Cardinality(Inner(u, x)) \in Nat \ {0}
          /\ Cardinality(Inner(u, x)) = Cardinality(Inner(u, x)) + 0
      BY <1>0, <1>2, <3>1, InnerElsewhere, InnerIsFinite
    <3> QED BY <1>0, <1>2, <2>1, <3>1, <3>2, <3>3, OpenCountAfter
  <2>2. CASE u = t
    <3>1. x \in 1 .. m - 1 /\ x \in DOMAIN open[t] /\ open[t][x] = b /\ m - 1 \in Nat
      BY <1>7, <1>8, <1>9, <2>2
    <3>2. b \in Log /\ OpenCount(t, x, b)
      BY <1>0, <3>1, OpenInLog DEF OpenCounts, OpenCount
    <3> DEFINE S == Inner(t, x)
               k == m - 1
    <3>3. IsFiniteSet(S) /\ Cardinality(S) \in Nat
      BY <1>0, <3>1, InnerIsFinite
    <3>4. m = k + 1 /\ k \in Nat /\ x \in 1 .. k /\ Len(open'[t]) = k
      BY <1>8, <3>1
    <3> HIDE DEF k
    <3>5. /\ x .. m = (x .. k) \cup {m} /\ m \notin x .. k /\ x .. k \subseteq 1 .. k
      BY <3>4, IntervalGrows
    <3>6. \A y \in 1 .. k : calls'[open'[t][y]] = calls[open[t][y]]
      BY <1>0, <1>4, <1>8, OpenInLog DEF k
    <3>7. calls'[open'[t][x]].name = calls[b].name
      BY <3>1, <3>4, <3>6
    <3>8. Inner(t, x)' = {y \in x .. k : calls'[open'[t][y]].name = calls[b].name}
      BY <3>4, <3>7 DEF Inner
    <3>9. S = {y \in x .. m : calls[open[t][y]].name = calls[b].name}
      BY <1>6, <3>1 DEF Inner
    <3>10. x \in Inner(t, x)' /\ m \notin Inner(t, x)'
      BY <3>4, <3>5, <3>7, <3>8
    <3> HIDE DEF S
    <3>11. CASE calls[b].name = rec.name
      <4>1. m \in S /\ Inner(t, x)' = S \ {m}
        BY <1>2, <1>7, <3>5, <3>6, <3>8, <3>9, <3>11
      <4>2. IsFiniteSet(S \ {m}) /\ Cardinality(S \ {m}) = Cardinality(S) - 1
        BY <3>3, <4>1, FS_RemoveElement
      <4>3. Cardinality(S \ {m}) \in Nat /\ Cardinality(S \ {m}) # 0
        BY <3>10, <4>1, <4>2, FS_CardinalityType, FS_EmptySet
      <4>4. Cardinality(Inner(t, x)') = Cardinality(S) + (-1) /\ Cardinality(Inner(t, x)') \in Nat \ {0}
        BY <3>3, <4>1, <4>2, <4>3
      <4> QED BY <1>0, <1>2, <2>2, <3>1, <3>2, <3>11, <4>4, OpenCountAfter DEF S
    <3>12. CASE calls[b].name # rec.name
      <4>1. Inner(t, x)' = S
        BY <1>2, <1>7, <3>5, <3>6, <3>8, <3>9, <3>12
      <4>2. Cardinality(Inner(t, x)') = Cardinality(S) + 0 /\ Cardinality(Inner(t, x)') \in Nat \ {0}
        BY <3>3, <3>10, <4>1, FS_EmptySet
      <4> QED BY <1>0, <1>2, <2>2, <3>1, <3>2, <3>12, <4>2, OpenCountAfter DEF S
    <3> QED BY <2>2, <3>11, <3>12
  <2> QED BY <2>1, <2>2
<1>10. OpenCounts'
  BY <1>9 DEF OpenCounts, OpenCount
<1>11. EndedCount(last)'
  <2>1. OpenCount(t, m, last)
    BY <1>0, <1>7 DEF OpenCounts, OpenCount
  <2>2. Cardinality(Inner(t, m)) = 1
    <3>1. m .. m = {m}
      OBVIOUS
    <3>2. Inner(t, m) = {m}
      BY <1>6, <3>1 DEF Inner
    <3> QED BY <3>2, FS_Singleton
  <2>3. Excess(last, Len(calls)) \in Int /\ Excess(last, n)' = Excess(last, Len(calls)) + (-1)
    BY <1>0, <1>2, <1>3, <1>7, ExcessAt
  <2>4. last \in Nat /\ last \in last .. Len(calls) /\ n \in last .. n
    BY <1>0, <1>3, LogTyped DEF Log
  <2>5. ~unwound => Excess(last, n)' = 0
    BY <2>1, <2>2, <2>3, <2>4 DEF OpenCount
  <2>6. ASSUME NEW k \in last .. n, k < n
        PROVE  Excess(last, k)' > 0
    <3>1. k \in last .. Len(calls)
      BY <1>3, <1>4, <2>4, <2>6
    <3> QED BY <1>0, <1>2, <2>1, <3>1, ExcessBefore DEF OpenCount
  <2> QED BY <1>2, <1>4, <1>5, <2>4, <2>5, <2>6 DEF EndedCount
<1>12. ASSUME NEW b \in Log', exits'[b] # 0
       PROVE  EndedCount(b)'
  <2>1. CASE b = last
    BY <1>11, <2>1
  <2>2. CASE b # last
    <3>1. b \in Log /\ exits'[b] = exits[b]
      BY <1>4, <1>5, <1>12, <2>2
    <3>2. EndedCount(b)
      BY <1>0, <1>12, <3>1 DEF EndedCounts, EndedCount
    <3> QED BY <1>0, <1>2, <3>1, <3>2, EndedCountAfter
  <2> QED BY <2>1, <2>2
<1>13. EndedCounts'
  BY <1>12 DEF EndedCounts, EndedCount
<1>14. ASSUME ~unwound, NEW b \in Log', calls'[b].kind = "ENTER", exits'[b] = 0
       PROVE  \E x \in DOMAIN open'[calls'[b].thread] : open'[calls'[b].thread][x] = b
  <2>1. b \in Log /\ b # last
    <3>1. b # n
      BY <1>2, <1>4, <1>14
    <3>2. n # 0
      BY <1>3, <1>4
    <3> QED BY <1>4, <1>5, <1>14, <3>1, <3>2
  <2>2. calls'[b] = calls[b] /\ calls[b].thread \in Thread /\ exits[b] = 0
    BY <1>0, <1>4, <1>5, <1>14, <2>1, LogTyped
  <2>3. PICK x \in DOMAIN open[calls[b].thread] : open[calls[b].thread][x] = b
    BY <1>0, <1>14, <2>1, <2>2 DEF NoneLost
  <2>4. x \in DOMAIN open'[calls[b].thread] /\ open'[calls[b].thread][x] = b
    <3>1. CASE calls[b].thread # t
      BY <1>8, <2>2, <2>3, <3>1
    <3>2. CASE calls[b].thread = t
      <4>1. x \in 1 .. m /\ x # m
        BY <1>7, <2>1, <2>3, <3>2
      <4>2. x \in 1 .. m - 1
        BY <4>1
      <4> QED BY <1>8, <2>3, <3>2, <4>2
    <3> QED BY <3>1, <3>2
  <2> QED BY <2>2, <2>4
<1>15. NoneLost'
  BY <1>2, <1>14 DEF NoneLost
<1> QED BY <1>10, <1>13, <1>15

LEMMA EndUnwind ==
    ASSUME EndInv, NEW t \in Thread, Unwind(t)
    PROVE  OpenCounts' /\ EndedCounts' /\ NoneLost'
<1>0. StartInv /\ TraceTyped /\ OpenCounts /\ EndedCounts /\ NoneLost
  BY DEF EndInv, StartInv
<1>1. /\ open[t] # <<>> /\ open' = [open EXCEPT ![t] = Front(@)] /\ unwound' = TRUE
      /\ UNCHANGED <<calls, findings, clock, exits>> /\ Log' = Log
  BY DEF Unwind, Log
<1>2. open \in [Thread -> Seq(Nat)]
  BY <1>0 DEF TraceTyped
<1>3. \A b, k : Excess(b, k)' = Excess(b, k)
  BY <1>1 DEF Excess, Counted
<1>4. ASSUME NEW u \in Thread, NEW x \in DOMAIN open'[u]
      PROVE  /\ x \in DOMAIN open[u] /\ open'[u][x] = open[u][x]
             /\ Inner(u, x)' \subseteq Inner(u, x)
  <2>1. CASE u # t
    <3>1. open'[u] = open[u]
      BY <1>1, <1>2, <2>1
    <3> QED BY <1>1, <3>1 DEF Inner
  <2>2. CASE u = t
    <3>1. open'[t] = Front(open[t]) /\ open[t] \in Seq(Nat)
      BY <1>1, <1>2
    <3>2. /\ Len(open'[t]) = Len(open[t]) - 1 /\ Len(open[t]) \in Nat
          /\ \A y \in DOMAIN open'[t] : y \in DOMAIN open[t] /\ open'[t][y] = open[t][y]
          /\ open'[t] \in Seq(Nat)
      BY <1>1, <3>1, FrontMeaning
    <3>3. x \in DOMAIN open'[t] /\ x \in Nat /\ x >= 1
      BY <2>2, <3>2
    <3>4. \A y \in x .. Len(open'[t]) : y \in x .. Len(open[t]) /\ open'[t][y] = open[t][y]
      BY <3>2, <3>3
    <3> QED BY <1>1, <2>2, <3>2, <3>3, <3>4 DEF Inner
  <2> QED BY <2>1, <2>2
<1>5. ASSUME NEW u \in Thread, NEW x \in DOMAIN open'[u], NEW b \in Log, open'[u][x] = b,
             NEW k \in b .. Len(calls)
      PROVE  /\ Excess(b, k) > 0
             /\ k = Len(calls) => Cardinality(Inner(u, x)') <= Excess(b, k)
  <2>1. x \in DOMAIN open[u] /\ open[u][x] = b /\ Inner(u, x)' \subseteq Inner(u, x)
    BY <1>4, <1>5
  <2>2. Excess(b, k) > 0 /\ (k = Len(calls) => Cardinality(Inner(u, x)) <= Excess(b, k))
    BY <1>0, <1>5, <2>1 DEF OpenCounts
  <2>3. IsFiniteSet(Inner(u, x)) /\ Cardinality(Inner(u, x)) \in Nat
    BY <1>0, <2>1, InnerIsFinite
  <2>4. /\ Cardinality(Inner(u, x)') <= Cardinality(Inner(u, x))
        /\ Cardinality(Inner(u, x)') \in Nat
    BY <2>1, <2>3, FS_Subset, FS_CardinalityType
  <2>5. k = Len(calls) => Excess(b, k) \in Int
    <3>1. b \in Nat /\ k \in Nat
      BY <1>0, <1>5, LogTyped DEF TraceTyped
    <3> QED BY <3>1, CountedMeaning, SameIsFinite DEF Excess
  <2> QED BY <2>2, <2>3, <2>4, <2>5
<1>6. OpenCounts'
  BY <1>1, <1>3, <1>5 DEF OpenCounts
<1>7. EndedCounts' /\ NoneLost'
  BY <1>0, <1>1, <1>3 DEF EndedCounts, NoneLost
<1> QED BY <1>6, <1>7

\* What depends on calls.log and the nesting alone.
LEMMA EndSame ==
    ASSUME EndInv, UNCHANGED <<calls, exits, open, unwound>>
    PROVE  OpenCounts' /\ EndedCounts' /\ NoneLost'
<1>1. \A b, k : Excess(b, k)' = Excess(b, k)
  BY DEF Excess, Counted
<1>2. \A u, x : Inner(u, x)' = Inner(u, x)
  BY DEF Inner
<1>3. Log' = Log
  BY DEF Log
<1> QED BY <1>1, <1>2, <1>3 DEF EndInv, OpenCounts, EndedCounts, NoneLost

LEMMA EndStep ==
    ASSUME TraceAssumption, EndInv, [Next]_vars
    PROVE  EndInv'
<1>1. StartInv'
  BY StartStep DEF EndInv
<1>2. OpenCounts' /\ EndedCounts' /\ NoneLost'
  <2>1. CASE UNCHANGED vars
    BY <2>1, EndSame DEF vars
  <2>2. ASSUME NEW t \in Thread, Makes(t)
        PROVE  OpenCounts' /\ EndedCounts' /\ NoneLost'
    BY <2>2, EndSame DEF Makes
  <2> QED BY <2>1, <2>2, EndEnter, EndExit, EndUnwind DEF Next
<1> QED BY <1>1, <1>2 DEF EndInv

LEMMA EndInit ==
    ASSUME Init
    PROVE  EndInv
<1>1. Log = {} /\ \A t \in Thread : DOMAIN open[t] = {}
  BY DEF Init, Log
<1> QED BY <1>1, StartInit DEF EndInv, OpenCounts, EndedCounts, NoneLost

LEMMA EndInvariance == Spec => []EndInv
<1>1. Init => EndInv
  BY EndInit
<1>2. EndInv /\ [Next]_vars => EndInv'
  BY TraceAssumption, EndStep
<1> QED BY <1>1, <1>2, PTL DEF Spec

\* The window closes at the very EXIT of the call it begins with, through recursion and
\* calls of that name in other threads, and never too early where an EXIT is
\* missing (output.c:386-416).
THEOREM WindowsEndWithTheirCalls == Spec => []WindowEndsWithCall
<1>1. EndInv => WindowEndsWithCall
  BY EndsWithCall
<1> QED BY <1>1, EndInvariance, PTL

-----------------------------------------------------------------------------
(* What is printed stays printed.                                          *)

\* Where windows begin and end and what is printed of them, for any finding: stated so
\* that it can be said of the next state, too.
LEMMA BeginFact ==
    \A f : TraceTyped /\ Numbering /\ Candidates(f) # {} =>
             Begin(f) \in Candidates(f) /\ \A j \in Candidates(f) : j <= Begin(f)
BY BeginIsLast

LEMMA EndFact ==
    EndInv => \A f \in findings : \A b :
                b = Begin(f) /\ ~unwound /\ exits[b] # 0 => End(b) = exits[b]
BY EndsWithCall DEF WindowEndsWithCall

LEMMA StartFact == StartInv => \A f \in findings : Begin(f) \in Log
BY StartsInCall

\* The records of a window from b to e that the thread of the finding wrote.
Own(f, b, e) == {i \in b .. e : calls[i].thread = f.thread}

\* The first of these, as many as are shown.
Shown(S) == {i \in S : Cardinality({j \in S : j < i}) < Limit}

LEMMA PrintedFact ==
    \A f, b, e : b = Begin(f) /\ b # 0 /\ e = End(b) => Printed(f) = Shown(Own(f, b, e))
BY DEF Printed, Own, Shown

LEMMA BeginFactNext ==
    \A f : TraceTyped' /\ Numbering' /\ Candidates(f)' # {} =>
             Begin(f)' \in Candidates(f)' /\ \A j \in Candidates(f)' : j <= Begin(f)'
<1>1. (\A f : TraceTyped /\ Numbering /\ Candidates(f) # {} =>
                Begin(f) \in Candidates(f) /\ \A j \in Candidates(f) : j <= Begin(f))'
  BY BeginFact, PTL
<1> QED BY <1>1

LEMMA EndFactNext ==
    EndInv' => \A f \in findings' : \A b :
                 b = Begin(f)' /\ ~unwound' /\ exits'[b] # 0 => End(b)' = exits'[b]
<1>1. (EndInv => \A f \in findings : \A b :
                   b = Begin(f) /\ ~unwound /\ exits[b] # 0 => End(b) = exits[b])'
  BY EndFact, PTL
<1> QED BY <1>1

LEMMA PrintedFactNext ==
    \A f, b, e : b = Begin(f)' /\ b # 0 /\ e = End(b)' => Printed(f)' = Shown(Own(f, b, e)')
<1>1. (\A f, b, e : b = Begin(f) /\ b # 0 /\ e = End(b) => Printed(f) = Shown(Own(f, b, e)))'
  BY PrintedFact, PTL
<1> QED BY <1>1

\* A record written after a finding's own is no candidate for its window.
LEMMA CandidatesAfter ==
    ASSUME StartInv, StartInv', NEW t \in Thread, NEW rec, Writes(t, rec),
           NEW f \in findings, f \in findings'
    PROVE  Candidates(f)' = Candidates(f)
<1>1. /\ Log' = Log \cup {Len(calls) + 1} /\ calls'[Len(calls) + 1] = rec
      /\ \A i \in Log : calls'[i] = calls[i]
      /\ Len(calls) \in Nat
  BY LogAfter DEF StartInv
<1>2. rec.thread = t /\ rec.event = clock[t] + 1
  BY DEF Writes
<1>3. clock[t] \in Nat /\ f.event \in Nat /\ f.event <= clock[f.thread]
  BY DEF StartInv, TraceTyped, Subjects, Finding
<1>4. ~(rec.event <= f.event /\ rec.thread = f.thread)
  BY <1>2, <1>3
<1> QED BY <1>1, <1>4 DEF Candidates, SiteMatches

LEMMA StoryAfter ==
    ASSUME EndInv, EndInv', NEW t \in Thread, NEW rec, Writes(t, rec), UNCHANGED findings,
           ~unwound, ~unwound', NEW f \in findings,
           NEW b, b = Begin(f), exits[b] # 0, exits'[b] = exits[b]
    PROVE  Printed(f)' = Printed(f)
<1>1. StartInv /\ StartInv' /\ TraceTyped /\ Numbering /\ TraceTyped' /\ Numbering' /\ EndedCounts
  BY DEF EndInv, StartInv
<1>2. b \in Log /\ b \in Nat /\ b # 0 /\ Len(calls) \in Nat
  BY <1>1, StartFact, LogTyped DEF Log, TraceTyped
<1>3. Candidates(f)' = Candidates(f)
  BY <1>1, CandidatesAfter
<1>4. Candidates(f) # {} /\ b \in Candidates(f) /\ \A j \in Candidates(f) : j <= b
  <2>1. Candidates(f) # {}
    BY <1>2 DEF Begin
  <2> QED BY <1>1, <2>1, BeginFact
<1>5. Begin(f)' = b
  <2>1. Begin(f)' \in Candidates(f) /\ \A j \in Candidates(f) : j <= Begin(f)'
    BY <1>1, <1>3, <1>4, BeginFactNext
  <2>2. \A j \in Candidates(f) : j \in Nat
    BY <1>1, LogTyped DEF Candidates
  <2> QED BY <1>4, <2>1, <2>2
<1>6. exits[b] \in b .. Len(calls)
  BY <1>1, <1>2 DEF EndedCounts
<1>7. End(b) = exits[b]
  BY EndFact
<1>8. End(b)' = exits[b]
  BY <1>5, EndFactNext
<1>9. \A e : e = exits[b] => Own(f, b, e)' = Own(f, b, e)
  <2>1. \A i \in b .. exits[b] : calls'[i] = calls[i]
    <3>1. \A i \in b .. exits[b] : i \in Log
      BY <1>2, <1>6 DEF Log
    <3> QED BY <1>1, <3>1, LogAfter
  <2> QED BY <2>1 DEF Own
<1>10. PICK e : e = exits[b]
  OBVIOUS
<1>11. Own(f, b, e)' = Own(f, b, e)
  BY <1>9, <1>10
<1>12. Printed(f) = Shown(Own(f, b, e))
  BY <1>2, <1>7, <1>10, PrintedFact
<1>13. Printed(f)' = Shown(Own(f, b, e)')
  BY <1>2, <1>5, <1>8, <1>10, PrintedFactNext
<1> QED BY <1>11, <1>12, <1>13

LEMMA StorySame ==
    ASSUME UNCHANGED calls, NEW f
    PROVE  Printed(f)' = Printed(f)
<1>1. \A b, k : Closes(b, k)' = Closes(b, k)
  BY DEF Closes, Counted
<1>2. \A b : End(b)' = End(b)
  <2> DEFINE S(b) == {k \in b .. Len(calls) : Closes(b, k)}
             Least(T, n) == IF T = {} THEN n ELSE CHOOSE k \in T : \A j \in T : k <= j
  <2>1. \A b : S(b)' = S(b)
    BY <1>1
  <2>2. (\A b : End(b) = Least(S(b), Len(calls))) /\ \A b : End(b)' = Least(S(b)', Len(calls)')
    BY DEF End
  <2> HIDE DEF S, Least
  <2> QED BY <2>1, <2>2
<1>3. Begin(f)' = Begin(f)
  BY DEF Begin, Candidates, SiteMatches, Log
<1> QED BY <1>2, <1>3 DEF Printed

\* What is printed under a finding does not depend on what is logged after its call has
\* returned, as long as no EXIT was missing (output.c:218-245, 361-417).
THEOREM StoriesAreFinal == Spec => StoryIsFinal
<1> DEFINE Final == ~unwound => \A f \in findings : exits[Begin(f)] # 0 => Printed(f)' = Printed(f)
<1>1. EndInv /\ EndInv' /\ [Next]_vars => [Final]_vars
  <2> SUFFICES ASSUME EndInv, EndInv', Next, ~unwound, NEW f \in findings, exits[Begin(f)] # 0
               PROVE  Printed(f)' = Printed(f)
    OBVIOUS
  <2>1. StartInv /\ TraceTyped
    BY DEF EndInv, StartInv
  <2>2. PICK b \in Log : b = Begin(f)
    BY <2>1, StartFact
  <2>3. ASSUME NEW t \in Thread, NEW w \in Wrappers, Enter(t, w[1], w[2])
        PROVE  Printed(f)' = Printed(f)
    <3>1. PICK rec \in Call : Writes(t, rec) /\ exits' = Append(exits, 0) /\ UNCHANGED <<findings, unwound>>
      BY <2>1, <2>3, TraceAssumption, EnterWrites
    <3>2. exits'[b] = exits[b]
      BY <2>1, <2>2, <3>1 DEF TraceTyped, Log
    <3> QED BY <2>2, <3>1, <3>2, StoryAfter
  <2>4. ASSUME NEW t \in Thread, Exit(t)
        PROVE  Printed(f)' = Printed(f)
    <3>1. PICK last \in Log : last = Last(open[t]) /\ exits[last] = 0
      BY <2>1, <2>4, CurrentCall, OpenInLog DEF Exit
    <3>2. PICK rec \in Call :
            /\ Writes(t, rec) /\ UNCHANGED <<findings, unwound>>
            /\ exits' = Append([exits EXCEPT ![last] = Len(calls) + 1], 0)
      BY <2>1, <2>4, <3>1, ExitWrites
    <3>3. exits'[b] = exits[b]
      <4> DEFINE e == [exits EXCEPT ![last] = Len(calls) + 1]
      <4>1. exits \in [1 .. Len(calls) -> Nat] /\ Log = 1 .. Len(calls) /\ Len(calls) \in Nat
        BY <2>1 DEF TraceTyped, Log
      <4>2. e \in [1 .. Len(calls) -> Nat] /\ e[b] = exits[b]
        BY <2>2, <3>1, <4>1
      <4> HIDE DEF e
      <4>3. e \in Seq(Nat) /\ Len(e) = Len(calls)
        BY <4>1, <4>2, SequenceOfNumbers
      <4>4. Append(e, 0)[b] = e[b]
        BY <2>2, <4>1, <4>3
      <4> QED BY <3>2, <4>2, <4>4 DEF e
    <3> QED BY <2>2, <3>2, <3>3, StoryAfter
  <2>5. ASSUME NEW t \in Thread, Unwind(t) \/ Makes(t)
        PROVE  Printed(f)' = Printed(f)
    BY <2>5, StorySame DEF Unwind, Makes
  <2> QED BY <2>3, <2>4, <2>5 DEF Next
<1>2. EndInv /\ [Next]_vars => EndInv'
  BY TraceAssumption, EndStep
<1> QED BY <1>1, <1>2, EndInvariance, PTL DEF Spec, StoryIsFinal
=============================================================================
