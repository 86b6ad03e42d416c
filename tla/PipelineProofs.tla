---------------------------- MODULE PipelineProofs ----------------------------
(***************************************************************************)
(* Theorems about Pipeline, for every command line, logs of any lines and  *)
(* any length, and any calls failing.                                      *)
(*                                                                         *)
(* The counters of struct report_model are what the verdict is given on,   *)
(* so the invariant is what they mean: Accounts says what a counter that   *)
(* is still zero, and a stream health, tell of the lines read; Control     *)
(* says which phases an error keeps the run out of.                        *)
(***************************************************************************)
EXTENDS Pipeline, FiniteSetTheorems, SequenceTheorems, WellFoundedInduction, TLAPS

Phases ==
    {"arguments", "helped", "open_resource", "read_resource", "close_resource",
     "open_call", "read_call", "close_call", "finish", "finalize", "print", "exit"}

LineClass ==
    {"OverLong", "Garbage", "OldVersion", "Foreign", "Resource", "Call", "Receipt",
     "FailedReceipt"}

Counters == [records : Nat, skipped : Nat, malformed : Nat, bad_version : Nat]

PipelineTyped ==
    /\ phase \in Phases /\ err \in BOOLEAN /\ printed \in BOOLEAN
    /\ findings \in Nat
    /\ status \in {CLEAN, FINDINGS, TROUBLE}
    /\ lines \in [Stream -> Seq(LineClass)]
    /\ ended \in [Stream -> BOOLEAN]
    /\ count \in [Stream -> Counters]
    /\ stored \in [Stream -> Seq(Nat)]
    /\ health \in [Stream -> {"open", "complete", "broken"}]

\* The phases that come after the loop over stream s.
Past(s) ==
    {"close_call", "finish", "finalize", "print"}
      \cup IF s = "resource" THEN {"close_resource", "open_call", "read_call"} ELSE {}

Control ==
    /\ phase \in {"arguments", "finalize", "print"} => ~err
    /\ phase \notin {"exit", "helped"} => status = TROUBLE
    /\ \A s \in Stream : ~err /\ phase \in Past(s) => ended[s]

Accounts == \A s \in Stream :
    /\ count[s].malformed = 0 =>
         /\ Lines(s, "OverLong") = 0 /\ Lines(s, "Garbage") = 0
         /\ count[s].records = Lines(s, Own(s))
    /\ count[s].bad_version = 0 => Lines(s, "OldVersion") = 0
    /\ health[s] # "broken" => Lines(s, "FailedReceipt") = 0
    /\ health[s] = "complete" => Lines(s, "Receipt") > 0

-----------------------------------------------------------------------------
(* Lines counted.                                                          *)

Of(log, class) == {i \in DOMAIN log : log[i] = class}

LEMMA LinesMeaning == \A s, class : Lines(s, class) = Cardinality(Of(lines[s], class))
BY DEF Lines, Of

LEMMA OfIsFinite ==
    ASSUME NEW log \in Seq(LineClass), NEW class
    PROVE  IsFiniteSet(Of(log, class)) /\ Cardinality(Of(log, class)) \in Nat
<1>1. DOMAIN log = 1 .. Len(log) /\ Len(log) \in Nat
  OBVIOUS
<1>2. IsFiniteSet(1 .. Len(log))
  BY <1>1, FS_Interval
<1>3. Of(log, class) \subseteq 1 .. Len(log)
  BY <1>1 DEF Of
<1>4. IsFiniteSet(Of(log, class))
  BY <1>2, <1>3, FS_Subset
<1> QED BY <1>4, FS_CardinalityType

\* One more line is one more line of its class.
LEMMA OneMoreLine ==
    ASSUME NEW log \in Seq(LineClass), NEW line \in LineClass, NEW class
    PROVE  Cardinality(Of(Append(log, line), class)) =
             Cardinality(Of(log, class)) + IF line = class THEN 1 ELSE 0
<1> DEFINE n == Len(log) + 1
<1>1. /\ DOMAIN Append(log, line) = DOMAIN log \cup {n}
      /\ n \notin DOMAIN log
      /\ Append(log, line)[n] = line
      /\ \A i \in DOMAIN log : Append(log, line)[i] = log[i]
  OBVIOUS
<1>2. CASE line = class
  <2>1. Of(Append(log, line), class) = Of(log, class) \cup {n}
    BY <1>1, <1>2 DEF Of
  <2>2. n \notin Of(log, class)
    BY <1>1 DEF Of
  <2> QED BY <1>2, <2>1, <2>2, OfIsFinite, FS_AddElement
<1>3. CASE line # class
  <2>1. Of(Append(log, line), class) = Of(log, class)
    BY <1>1, <1>3 DEF Of
  <2>2. Cardinality(Of(log, class)) \in Nat
    BY OfIsFinite
  <2> QED BY <1>3, <2>1, <2>2
<1> QED BY <1>2, <1>3

LEMMA LinesAfter ==
    ASSUME PipelineTyped, NEW s \in Stream, NEW line \in LineClass,
           lines' = [lines EXCEPT ![s] = Append(@, line)],
           NEW class
    PROVE  /\ Lines(s, class) \in Nat
           /\ Lines(s, class)' = Lines(s, class) + IF line = class THEN 1 ELSE 0
           /\ \A t \in Stream : t # s => Lines(t, class)' = Lines(t, class)
<1>1. lines[s] \in Seq(LineClass) /\ lines'[s] = Append(lines[s], line)
      /\ \A t \in Stream : t # s => lines'[t] = lines[t]
  BY DEF PipelineTyped
<1>2. \A t \in Stream : Lines(t, class)' = Cardinality(Of(lines'[t], class))
  BY DEF Lines, Of
<1> QED BY <1>1, <1>2, LinesMeaning, OfIsFinite, OneMoreLine

-----------------------------------------------------------------------------
(* The shape of the state.                                                 *)

Streams == <<lines, count, stored, health>>

Counter == {"records", "skipped", "malformed", "bad_version"}

\* The names each stream gives to its phases.
LEMMA PhaseNames ==
    /\ Stream = {"resource", "call"}
    /\ \A s \in Stream :
         /\ Opening(s) \in {"open_resource", "open_call"}
         /\ Reading(s) \in {"read_resource", "read_call"}
         /\ Closing(s) \in {"close_resource", "close_call"}
         /\ After(s) \in {"open_call", "finish"}
         /\ Own(s) \in LineClass /\ Own(s) \in {"Resource", "Call"}
BY DEF Stream, Opening, Reading, Closing, After, Own, LineClass

LEMMA ObservedIsHealth ==
    ASSUME NEW h \in {"open", "complete", "broken"}, NEW line
    PROVE  Observed(h, line) \subseteq {"open", "complete", "broken"}
BY DEF Observed

LEMMA BumpTyped ==
    ASSUME PipelineTyped, NEW s \in Stream, NEW counter \in Counter, Bump(s, counter)
    PROVE  /\ count' \in [Stream -> Counters]
           /\ count'[s][counter] = count[s][counter] + 1
           /\ \A c \in Counter : c # counter => count'[s][c] = count[s][c]
           /\ \A t \in Stream : t # s => count'[t] = count[t]
<1>1. count[s] \in Counters /\ count' = [count EXCEPT ![s] = [count[s] EXCEPT ![counter] = @ + 1]]
  BY DEF PipelineTyped, Bump
<1>2. [count[s] EXCEPT ![counter] = @ + 1] \in Counters
  BY <1>1 DEF Counters, Counter
<1> QED BY <1>1, <1>2 DEF PipelineTyped, Counters, Counter

LEMMA TakesTyped ==
    ASSUME PipelineTyped, NEW s \in Stream, NEW line \in LineClass, Takes(s, line)
    PROVE  /\ ~err /\ phase = Reading(s)
           /\ lines' = [lines EXCEPT ![s] = Append(@, line)]
           /\ lines' \in [Stream -> Seq(LineClass)]
           /\ health' \in [Stream -> {"open", "complete", "broken"}]
           /\ \A t \in Stream : t # s => health'[t] = health[t]
           /\ line \in Parsed => health'[s] \in Observed(health[s], line)
           /\ line \notin Parsed => health'[s] = health[s]
           /\ UNCHANGED <<phase, ended, printed, status>>
<1>1. lines[s] \in Seq(LineClass) /\ health[s] \in {"open", "complete", "broken"}
  BY DEF PipelineTyped
<1>2. lines' = [lines EXCEPT ![s] = Append(@, line)] /\ lines' \in [Stream -> Seq(LineClass)]
  BY <1>1 DEF Takes, PipelineTyped
<1>3. CASE line \in Parsed
  <2>1. PICK h \in Observed(health[s], line) : health' = [health EXCEPT ![s] = h]
    BY <1>3 DEF Takes
  <2>2. h \in {"open", "complete", "broken"}
    BY <1>1, ObservedIsHealth
  <2> QED BY <1>2, <1>3, <2>1, <2>2 DEF Takes, InLoop, PipelineTyped
<1>4. CASE line \notin Parsed
  BY <1>2, <1>4 DEF Takes, InLoop, PipelineTyped
<1> QED BY <1>3, <1>4

\* The steps that take a line, and the ones that leave the streams alone.
Take(s) == TakeRefused(s) \/ TakeSkipped(s) \/ TakeReceipt(s) \/ TakeSpoilt(s) \/ TakeRecord(s)

LEMMA TakesALine ==
    ASSUME NEW s \in Stream, Take(s)
    PROVE  \E line \in LineClass : Takes(s, line)
<1>1. CASE TakeRefused(s)
  BY <1>1 DEF TakeRefused, LineClass
<1>2. CASE TakeSkipped(s)
  BY <1>2 DEF TakeSkipped, LineClass
<1>3. CASE TakeReceipt(s)
  BY <1>3 DEF TakeReceipt, LineClass
<1>4. CASE TakeSpoilt(s) \/ TakeRecord(s)
  BY <1>4, PhaseNames DEF TakeSpoilt, TakeRecord
<1> QED BY <1>1, <1>2, <1>3, <1>4 DEF Take

LEMMA TakeTyped ==
    ASSUME PipelineTyped, NEW s \in Stream, Take(s)
    PROVE  /\ count' \in [Stream -> Counters]
           /\ stored' \in [Stream -> Seq(Nat)]
           /\ err' \in BOOLEAN /\ findings' \in Nat
           /\ \A t \in Stream : t # s => count'[t] = count[t] /\ stored'[t] = stored[t]
<1>1. count \in [Stream -> Counters] /\ stored \in [Stream -> Seq(Nat)] /\ findings \in Nat
      /\ err \in BOOLEAN
  BY DEF PipelineTyped
<1>2. {"records", "skipped", "malformed", "bad_version"} = Counter
  BY DEF Counter
<1>3. CASE TakeRefused(s)
  <2>1. \E counter \in Counter : Bump(s, counter)
    BY <1>2, <1>3 DEF TakeRefused
  <2> QED BY <1>1, <1>3, <2>1, BumpTyped DEF TakeRefused
<1>4. CASE TakeSkipped(s)
  <2>1. Bump(s, "skipped")
    BY <1>4 DEF TakeSkipped
  <2> QED BY <1>1, <1>2, <1>4, <2>1, BumpTyped DEF TakeSkipped
<1>5. CASE TakeReceipt(s)
  BY <1>1, <1>5 DEF TakeReceipt
<1>6. CASE TakeSpoilt(s)
  <2>1. Bump(s, "malformed") /\ err' \in BOOLEAN /\ UNCHANGED <<stored, findings>>
    BY <1>6 DEF TakeSpoilt
  <2> QED BY <1>1, <1>2, <2>1, BumpTyped
<1>7. CASE TakeRecord(s)
  <2>1. Bump(s, "records")
    BY <1>7 DEF TakeRecord
  <2>2. count[s].records + 1 \in Nat /\ stored[s] \in Seq(Nat)
    BY <1>1 DEF Counters
  <2>3. /\ stored' \in [Stream -> Seq(Nat)]
        /\ \A t \in Stream : t # s => stored'[t] = stored[t]
    <3>1. Append(stored[s], count[s].records + 1) \in Seq(Nat)
      BY <2>2
    <3>2. CASE stored' = [stored EXCEPT ![s] = Append(stored[s], count[s].records + 1)]
      BY <1>1, <3>1, <3>2
    <3>3. CASE UNCHANGED stored
      BY <1>1, <3>3
    <3> QED BY <1>7, <3>2, <3>3 DEF TakeRecord, Store, NextSequence
  <2>4. findings' \in Nat
    BY <1>1, <1>7 DEF TakeRecord
  <2>5. err' \in BOOLEAN
    BY <1>7 DEF TakeRecord
  <2> QED BY <1>1, <1>2, <2>1, <2>3, <2>4, <2>5, BumpTyped
<1> QED BY <1>3, <1>4, <1>5, <1>6, <1>7 DEF Take

\* Every other step leaves the streams alone.
LEMMA TakeOrKeep ==
    ASSUME [Next]_vars
    PROVE  (\E s \in Stream : Take(s)) \/ UNCHANGED Streams
BY DEF Next, Types, Help, Refuse, StartFails, Accept, Comes, Proceed, Read, Open, Close, ReadFails,
       EndOfLog, LeaveLoop, Finish, Finalize, PrintReport, Keep, KeepStreams, Take, Streams, vars

LEMMA PipelineTypedStep ==
    ASSUME PipelineAssumption, PipelineTyped, [Next]_vars
    PROVE  PipelineTyped'
<1>1. ASSUME NEW s \in Stream, Take(s) PROVE PipelineTyped'
  <2>1. PICK line \in LineClass : Takes(s, line)
    BY <1>1, TakesALine
  <2>2. /\ lines' \in [Stream -> Seq(LineClass)]
        /\ health' \in [Stream -> {"open", "complete", "broken"}]
        /\ UNCHANGED <<phase, ended, printed, status>>
    BY <2>1, TakesTyped
  <2> QED BY <1>1, <2>2, TakeTyped DEF PipelineTyped
<1>2. ASSUME UNCHANGED Streams,
             phase' \in Phases, err' \in BOOLEAN, printed' \in BOOLEAN, findings' \in Nat,
             status' \in {CLEAN, FINDINGS, TROUBLE}, ended' \in [Stream -> BOOLEAN]
      PROVE  PipelineTyped'
  BY <1>2 DEF PipelineTyped, Streams
<1>3. CASE Types \/ Help \/ Refuse \/ StartFails \/ Accept
  <2>1. UNCHANGED Streams /\ UNCHANGED <<ended, findings, printed>>
    BY <1>3 DEF Types, Help, Refuse, StartFails, Accept, Comes, KeepStreams, Streams
  <2>2. phase' \in Phases /\ err' \in BOOLEAN /\ status' \in {CLEAN, FINDINGS, TROUBLE}
    BY <1>3 DEF Types, Help, Refuse, StartFails, Accept, Goto, Phases, Opening, PipelineTyped
  <2> QED BY <1>2, <2>1, <2>2 DEF PipelineTyped
<1>4. ASSUME NEW s \in Stream, Open(s) \/ Close(s) \/ ReadFails(s) \/ LeaveLoop(s)
      PROVE  PipelineTyped'
  <2>1. UNCHANGED Streams /\ UNCHANGED <<ended, findings, printed, status>>
    BY <1>4 DEF Open, Close, ReadFails, LeaveLoop, Keep, KeepStreams, Streams
  <2>2. phase' \in Phases
    BY <1>4, PhaseNames DEF Open, Close, ReadFails, LeaveLoop, Goto, Phases
  <2>3. err' \in BOOLEAN
    BY <1>4 DEF Open, Close, ReadFails, LeaveLoop, PipelineTyped
  <2> QED BY <1>2, <2>1, <2>2, <2>3 DEF PipelineTyped
<1>5. ASSUME NEW s \in Stream, EndOfLog(s)
      PROVE  PipelineTyped'
  <2>1. UNCHANGED Streams /\ UNCHANGED <<err, findings, printed, status>>
    BY <1>5 DEF EndOfLog, Streams
  <2>2. phase' \in Phases /\ ended' \in [Stream -> BOOLEAN]
    BY <1>5, PhaseNames DEF EndOfLog, Goto, Phases, PipelineTyped
  <2> QED BY <1>2, <2>1, <2>2 DEF PipelineTyped
<1>6. CASE Finish \/ Finalize \/ PrintReport
  <2>1. UNCHANGED Streams /\ UNCHANGED ended
    BY <1>6 DEF Finish, Finalize, PrintReport, Keep, KeepStreams, Streams
  <2>2. phase' \in Phases
    BY <1>6 DEF Finish, Finalize, PrintReport, Goto, Phases
  <2>5. findings' \in Nat
    <3>1. findings \in Nat /\ MaxFindings \in Nat
      BY DEF PipelineTyped, PipelineAssumption
    <3>2. findings' = findings \/ findings' \in findings .. MaxFindings
      BY <1>6 DEF Finish, Finalize, PrintReport
    <3> QED BY <3>1, <3>2
  <2>3. err' \in BOOLEAN
    BY <1>6 DEF Finish, Finalize, PrintReport, PipelineTyped
  <2>4. printed' \in BOOLEAN /\ status' \in {CLEAN, FINDINGS, TROUBLE}
    BY <1>6 DEF Finish, Finalize, PrintReport, PipelineTyped
  <2> QED BY <1>2, <2>1, <2>2, <2>3, <2>4, <2>5 DEF PipelineTyped
<1>7. CASE UNCHANGED vars
  BY <1>7 DEF PipelineTyped, vars
<1> QED BY <1>1, <1>3, <1>4, <1>5, <1>6, <1>7 DEF Next, Proceed, Read, Take

-----------------------------------------------------------------------------
(* Errors and phases.                                                      *)

LEMMA ControlStep ==
    ASSUME PipelineTyped, Control, [Next]_vars
    PROVE  Control'
<1>1. ASSUME UNCHANGED <<phase, ended, status>>, phase \notin {"arguments", "finalize", "print"},
             err => err'
      PROVE  Control'
  BY <1>1 DEF Control
<1>2. ASSUME NEW s \in Stream, Take(s) PROVE Control'
  <2>1. /\ UNCHANGED <<phase, ended, status>> /\ ~err
        /\ phase \notin {"arguments", "finalize", "print"}
    BY <1>2, TakesALine, TakesTyped, PhaseNames
  <2> QED BY <1>1, <2>1
<1>3. CASE Types
  BY <1>3 DEF Types, KeepStreams, Control
<1>4. CASE Help \/ Refuse \/ StartFails
  BY <1>4 DEF Help, Refuse, StartFails, Comes, Goto, Control, Past
<1>5. CASE Accept
  BY <1>5 DEF Accept, Comes, Goto, Opening, Control, Past
<1>6. ASSUME NEW s \in Stream, Open(s) \/ Close(s)
      PROVE  Control'
  <2>1. (err => err') /\ UNCHANGED <<ended, status>>
    BY <1>6 DEF Open, Close, Keep, KeepStreams
  <2>2. CASE s = "resource"
    BY <1>6, <2>1, <2>2 DEF Open, Close, Goto, Control, Past, Opening, Reading, Closing, After
  <2>3. CASE s = "call"
    BY <1>6, <2>1, <2>3 DEF Open, Close, Goto, Control, Past, Opening, Reading, Closing, After
  <2> QED BY <2>2, <2>3 DEF Stream
<1>7. ASSUME NEW s \in Stream, ReadFails(s) \/ LeaveLoop(s)
      PROVE  Control'
  <2>1. status' = status /\ phase' = Closing(s) /\ phase = Reading(s)
    BY <1>7 DEF ReadFails, LeaveLoop, Keep, KeepStreams, Goto, InLoop
  <2>2. err'
    <3>1. CASE ReadFails(s)
      BY <3>1 DEF ReadFails
    <3>2. CASE LeaveLoop(s)
      BY <3>2 DEF LeaveLoop, Stops
    <3> QED BY <1>7, <3>1, <3>2
  <2> QED BY <2>1, <2>2, PhaseNames DEF Control
<1>8. ASSUME NEW s \in Stream, EndOfLog(s)
      PROVE  Control'
  <2>1. /\ ended' = [ended EXCEPT ![s] = TRUE] /\ UNCHANGED <<err, status>>
        /\ phase = Reading(s) /\ phase' = Closing(s)
    BY <1>8 DEF EndOfLog, InLoop, Goto
  <2>2. ended'[s] /\ \A t \in Stream : ended[t] => ended'[t]
    BY <2>1 DEF PipelineTyped
  <2>3. CASE s = "resource"
    BY <2>1, <2>2, <2>3 DEF Control, Past, Reading, Closing, Stream
  <2>4. CASE s = "call"
    BY <2>1, <2>2, <2>4 DEF Control, Past, Reading, Closing, Stream
  <2> QED BY <2>3, <2>4 DEF Stream
<1>9. CASE Finish
  BY <1>9 DEF Finish, Keep, KeepStreams, Goto, Control, Past
<1>10. CASE Finalize
  BY <1>10 DEF Finalize, Keep, KeepStreams, Goto, Control, Past
<1>11. CASE PrintReport
  BY <1>11 DEF PrintReport, Keep, KeepStreams, Goto, Control, Past
<1>12. CASE UNCHANGED vars
  BY <1>12 DEF Control, vars
<1> QED BY <1>2, <1>3, <1>4, <1>5, <1>6, <1>7, <1>8, <1>9, <1>10, <1>11, <1>12
        DEF Next, Proceed, Read, Take

\* Once set, the error stays until the run is over.
LEMMA ErrStays ==
    ASSUME PipelineTyped, Control, [Next]_vars, err
    PROVE  err'
<1>1. ASSUME NEW s \in Stream, Take(s) PROVE FALSE
  BY <1>1, TakesALine, TakesTyped
<1>2. phase \notin {"arguments", "finalize", "print"}
  BY DEF Control
<1> QED BY <1>1, <1>2 DEF Next, Types, Help, Refuse, StartFails, Accept, Comes, Proceed, Read,
      Open, Close, ReadFails, EndOfLog, LeaveLoop, Finish, Finalize, PrintReport, Take, vars

-----------------------------------------------------------------------------
(* Ranks.                                                                  *)

RankInv == PipelineTyped /\ Control /\ SequenceIsRank

LEMMA RankStep ==
    ASSUME RankInv, [Next]_vars
    PROVE  SequenceIsRank'
<1>0. PipelineTyped /\ Control /\ SequenceIsRank /\ (err => err')
  BY ErrStays DEF RankInv
<1>1. CASE UNCHANGED Streams
  BY <1>0, <1>1 DEF SequenceIsRank, Streams
<1>2. ASSUME NEW s \in Stream, Take(s)
      PROVE  SequenceIsRank'
  <2> DEFINE log == stored[s]
             n == count[s].records
  <2>1. ~err
    BY <1>0, <1>2, TakesALine, TakesTyped
  <2>2. /\ log \in Seq(Nat) /\ n \in Nat /\ Len(log) = n
        /\ \A i \in DOMAIN log : log[i] = i
    BY <1>0, <2>1 DEF PipelineTyped, Counters, SequenceIsRank
  <2>3. /\ \A i \in DOMAIN stored'[s] : stored'[s][i] = i
        /\ ~err' => Len(stored'[s]) = count'[s].records
    <3>1. CASE TakeRefused(s) \/ TakeSkipped(s) \/ TakeSpoilt(s)
      <4>1. \E counter \in {"malformed", "bad_version", "skipped"} : Bump(s, counter)
        BY <3>1 DEF TakeRefused, TakeSkipped, TakeSpoilt
      <4>2. count'[s].records = n
        BY <1>0, <4>1, BumpTyped DEF Counter
      <4>3. stored' = stored
        BY <3>1 DEF TakeRefused, TakeSkipped, TakeSpoilt
      <4> QED BY <2>2, <4>2, <4>3
    <3>2. CASE TakeReceipt(s)
      BY <2>2, <3>2 DEF TakeReceipt
    <3>3. CASE TakeRecord(s)
      <4>1. count'[s].records = n + 1
        BY <1>0, <3>3, BumpTyped DEF TakeRecord, Counter
      <4>2. CASE stored' = [stored EXCEPT ![s] = Append(@, n + 1)]
        <5>1. stored'[s] = Append(log, n + 1)
          BY <1>0, <4>2 DEF PipelineTyped
        <5> QED BY <2>2, <4>1, <5>1
      <4>3. CASE err' /\ stored' = stored
        BY <2>2, <4>3
      <4> QED BY <3>3, <4>2, <4>3 DEF TakeRecord, Store, NextSequence
    <3> QED BY <1>2, <3>1, <3>2, <3>3 DEF Take
  <2>4. \A t \in Stream : t # s => count'[t] = count[t] /\ stored'[t] = stored[t]
    BY <1>0, <1>2, TakeTyped
  <2> QED BY <1>0, <2>3, <2>4 DEF SequenceIsRank
<1> QED BY <1>1, <1>2, TakeOrKeep

-----------------------------------------------------------------------------
(* Accounts.                                                               *)

\* What Accounts says of one stream.
AccountsOf(s) ==
    /\ count[s].malformed = 0 =>
         /\ Lines(s, "OverLong") = 0 /\ Lines(s, "Garbage") = 0
         /\ count[s].records = Lines(s, Own(s))
    /\ count[s].bad_version = 0 => Lines(s, "OldVersion") = 0
    /\ health[s] # "broken" => Lines(s, "FailedReceipt") = 0
    /\ health[s] = "complete" => Lines(s, "Receipt") > 0

\* What the observation of a line tells.
LEMMA ObservedTells ==
    ASSUME NEW h \in {"open", "complete", "broken"}, NEW line, NEW g \in Observed(h, line)
    PROVE  /\ g # "broken" => h # "broken" /\ line # "FailedReceipt"
           /\ g = "complete" => h = "complete" \/ line = "Receipt"
<1>1. CASE line = "FailedReceipt"
  BY <1>1 DEF Observed
<1>2. CASE line = "Receipt" /\ h = "open"
  BY <1>2 DEF Observed
<1>3. CASE line # "FailedReceipt" /\ h = "complete"
  BY <1>3 DEF Observed
<1>4. CASE line # "FailedReceipt" /\ h # "complete" /\ ~(line = "Receipt" /\ h = "open")
  <2>1. Observed(h, line) = {h}
    BY <1>4 DEF Observed
  <2> QED BY <1>4, <2>1
<1> QED BY <1>1, <1>2, <1>3, <1>4

LEMMA HealthAfter ==
    ASSUME PipelineTyped, NEW s \in Stream, NEW line \in LineClass, Takes(s, line)
    PROVE  /\ health'[s] # "broken" => health[s] # "broken" /\ line # "FailedReceipt"
           /\ health'[s] = "complete" => health[s] = "complete" \/ line = "Receipt"
<1>1. health[s] \in {"open", "complete", "broken"}
  BY DEF PipelineTyped
<1>2. CASE line \in Parsed
  <2>1. health'[s] \in Observed(health[s], line)
    BY <1>2, TakesTyped
  <2> QED BY <1>1, <2>1, ObservedTells
<1>3. CASE line \notin Parsed
  <2>1. health'[s] = health[s] /\ line # "FailedReceipt"
    BY <1>3, TakesTyped DEF Parsed
  <2> QED BY <2>1
<1> QED BY <1>2, <1>3

\* A line of any class counts itself, or spoils the counter that vouches for it.
LEMMA AccountsOfStep ==
    ASSUME PipelineTyped, NEW s \in Stream, AccountsOf(s), NEW line \in LineClass,
           Takes(s, line),
           count' \in [Stream -> Counters],
           line \in {"OverLong", "Garbage"} => count'[s].malformed > 0,
           count'[s].malformed = 0 =>
             /\ count[s].malformed = 0
             /\ count'[s].records = count[s].records + IF line = Own(s) THEN 1 ELSE 0,
           line = "OldVersion" => count'[s].bad_version > 0,
           count'[s].bad_version = 0 => count[s].bad_version = 0
    PROVE  AccountsOf(s)'
<1>1. \A class : /\ Lines(s, class) \in Nat
                 /\ Lines(s, class)' = Lines(s, class) + IF line = class THEN 1 ELSE 0
  BY TakesTyped, LinesAfter
<1>2. count'[s].malformed \in Nat /\ count'[s].bad_version \in Nat
      /\ count[s].records \in Nat
  BY DEF PipelineTyped, Counters
<1>3. count'[s].malformed = 0 =>
        /\ Lines(s, "OverLong")' = 0 /\ Lines(s, "Garbage")' = 0
        /\ count'[s].records = Lines(s, Own(s))'
  BY <1>1, <1>2 DEF AccountsOf
<1>4. count'[s].bad_version = 0 => Lines(s, "OldVersion")' = 0
  BY <1>1, <1>2 DEF AccountsOf
<1>5. health'[s] # "broken" => Lines(s, "FailedReceipt")' = 0
  BY <1>1, HealthAfter DEF AccountsOf
<1>6. health'[s] = "complete" => Lines(s, "Receipt")' > 0
  BY <1>1, HealthAfter DEF AccountsOf
<1>7. Own(s)' = Own(s)
  BY DEF Own
<1> QED BY <1>3, <1>4, <1>5, <1>6, <1>7 DEF AccountsOf

LEMMA AccountsStep ==
    ASSUME PipelineTyped, Accounts, [Next]_vars
    PROVE  Accounts'
<1>1. CASE UNCHANGED Streams
  <2>1. \A s \in Stream : \A class : Lines(s, class)' = Lines(s, class)
    BY <1>1 DEF Streams, Lines
  <2>2. count' = count /\ health' = health /\ \A s \in Stream : Own(s)' = Own(s)
    BY <1>1 DEF Streams, Own
  <2> QED BY <2>1, <2>2 DEF Accounts
<1>2. ASSUME NEW s \in Stream, Take(s)
      PROVE  Accounts'
  <2>1. AccountsOf(s) /\ \A t \in Stream : AccountsOf(t)
    BY DEF Accounts, AccountsOf
  <2>2. count' \in [Stream -> Counters]
    BY <1>2, TakeTyped
  <2>3. \A c \in Counter : count[s][c] \in Nat
    BY DEF PipelineTyped, Counters, Counter
  <2>4. AccountsOf(s)'
    <3>1. ASSUME NEW line \in {"OverLong", "Garbage"}, Takes(s, line), Bump(s, "malformed")
          PROVE  AccountsOf(s)'
      <4>1. count'[s].malformed > 0 /\ count'[s].bad_version = count[s].bad_version
        BY <2>3, <3>1, BumpTyped DEF Counter
      <4> QED BY <2>1, <2>2, <3>1, <4>1, AccountsOfStep DEF LineClass
    <3>2. ASSUME Takes(s, "OldVersion"), Bump(s, "bad_version")
          PROVE  AccountsOf(s)'
      <4>1. /\ count'[s].bad_version > 0 /\ count'[s].malformed = count[s].malformed
            /\ count'[s].records = count[s].records
        BY <2>3, <3>2, BumpTyped DEF Counter
      <4>2. "OldVersion" # Own(s) /\ "OldVersion" \in LineClass
        BY DEF Own, LineClass
      <4>3. count'[s].records = count[s].records + 0
        BY <2>3, <4>1 DEF Counter
      <4> QED BY <2>1, <2>2, <3>2, <4>1, <4>2, <4>3, AccountsOfStep
    <3>3. CASE TakeSkipped(s)
      <4>1. PICK line \in {"Foreign", "Resource", "Call"} \ {Own(s)} :
              Takes(s, line) /\ Bump(s, "skipped")
        BY <3>3 DEF TakeSkipped
      <4>2. /\ count'[s].bad_version = count[s].bad_version
            /\ count'[s].malformed = count[s].malformed
            /\ count'[s].records = count[s].records + 0
        BY <2>3, <4>1, BumpTyped DEF Counter
      <4> QED BY <2>1, <2>2, <4>1, <4>2, AccountsOfStep DEF LineClass
    <3>4. CASE TakeReceipt(s)
      <4>1. PICK line \in {"Receipt", "FailedReceipt"} : Takes(s, line) /\ count' = count
        BY <3>4 DEF TakeReceipt
      <4>2. count'[s].records = count[s].records + 0 /\ line # Own(s)
        BY <2>3, <4>1 DEF Counter, Own
      <4> QED BY <2>1, <2>2, <4>1, <4>2, AccountsOfStep DEF LineClass
    <3>5. CASE TakeSpoilt(s)
      <4>1. Takes(s, Own(s)) /\ Bump(s, "malformed")
        BY <3>5 DEF TakeSpoilt
      <4>2. count'[s].malformed > 0 /\ count'[s].bad_version = count[s].bad_version
        BY <2>3, <4>1, BumpTyped DEF Counter
      <4> QED BY <2>1, <2>2, <4>1, <4>2, PhaseNames, AccountsOfStep
    <3>6. CASE TakeRecord(s)
      <4>1. Takes(s, Own(s)) /\ Bump(s, "records")
        BY <3>6 DEF TakeRecord
      <4>2. /\ count'[s].records = count[s].records + 1
            /\ count'[s].malformed = count[s].malformed
            /\ count'[s].bad_version = count[s].bad_version
        BY <4>1, BumpTyped DEF Counter
      <4> QED BY <2>1, <2>2, <4>1, <4>2, PhaseNames, AccountsOfStep
    <3> QED BY <1>2, <3>1, <3>2, <3>3, <3>4, <3>5, <3>6 DEF Take, TakeRefused
  <2>5. ASSUME NEW t \in Stream, t # s
        PROVE  AccountsOf(t)'
    <3>1. PICK line \in LineClass : Takes(s, line)
      BY <1>2, TakesALine
    <3>2. \A class : Lines(t, class)' = Lines(t, class)
      BY <2>5, <3>1, TakesTyped, LinesAfter
    <3>3. count'[t] = count[t] /\ health'[t] = health[t]
      BY <1>2, <2>5, <3>1, TakesTyped, TakeTyped
    <3>4. Own(t)' = Own(t)
      BY DEF Own
    <3> QED BY <2>1, <3>2, <3>3, <3>4 DEF AccountsOf
  <2> QED BY <2>4, <2>5 DEF Accounts, AccountsOf
<1> QED BY <1>1, <1>2, TakeOrKeep

-----------------------------------------------------------------------------
(* The theorems.                                                           *)

PipelineInv == PipelineTyped /\ Control /\ SequenceIsRank /\ Accounts

LEMMA PipelineInit ==
    ASSUME Init
    PROVE  PipelineInv
<1>1. PipelineTyped
  <2>1. Zero \in Counters
    BY DEF Zero, Counters
  <2>2. phase \in Phases /\ findings \in Nat /\ status \in {CLEAN, FINDINGS, TROUBLE}
    BY DEF Init, Phases
  <2>3. lines \in [Stream -> Seq(LineClass)] /\ stored \in [Stream -> Seq(Nat)]
    BY DEF Init
  <2>4. /\ count \in [Stream -> Counters]
        /\ health \in [Stream -> {"open", "complete", "broken"}]
    BY <2>1 DEF Init
  <2>5. err \in BOOLEAN /\ printed \in BOOLEAN /\ ended \in [Stream -> BOOLEAN]
    BY DEF Init
  <2> QED BY <2>2, <2>3, <2>4, <2>5 DEF PipelineTyped
<1>2. Control
  BY DEF Init, Control, Past
<1>3. SequenceIsRank
  BY DEF Init, SequenceIsRank, Zero
<1>4. \A s \in Stream : \A class : Lines(s, class) = 0
  <2> SUFFICES ASSUME NEW s \in Stream, NEW class PROVE Lines(s, class) = 0
    OBVIOUS
  <2>1. Of(lines[s], class) = {}
    BY DEF Init, Of
  <2> QED BY <2>1, LinesMeaning, FS_EmptySet
<1>5. Accounts
  BY <1>4, PhaseNames DEF Init, Accounts, Zero
<1> QED BY <1>1, <1>2, <1>3, <1>5 DEF PipelineInv

LEMMA PipelineInvStep ==
    ASSUME PipelineInv, [Next]_vars
    PROVE  PipelineInv'
<1>1. PipelineTyped' /\ Control' /\ Accounts'
  BY PipelineAssumption, PipelineTypedStep, ControlStep, AccountsStep DEF PipelineInv
<1>2. SequenceIsRank'
  BY RankStep DEF PipelineInv, RankInv
<1> QED BY <1>1, <1>2 DEF PipelineInv

\* The number of a stored record is its rank among the parsed records of its
\* stream, and no rank is missing while the run is free of errors
\* (reader.c:47, 132).
THEOREM SequencesAreRanks == Spec => []SequenceIsRank
<1>1. Init => PipelineInv
  BY PipelineInit
<1>2. PipelineInv /\ [Next]_vars => PipelineInv'
  BY PipelineInvStep
<1>3. PipelineInv => SequenceIsRank
  BY DEF PipelineInv
<1> QED BY <1>1, <1>2, <1>3, PTL DEF Spec

\* The report's step is the only one that gives a verdict.
LEMMA VerdictStep ==
    ASSUME PipelineInv, VerdictOnWholeEvidence, [Next]_vars
    PROVE  VerdictOnWholeEvidence'
<1>0. PipelineTyped /\ Control /\ SequenceIsRank /\ Accounts
  BY DEF PipelineInv
<1>1. CASE PrintReport
  <2> SUFFICES ASSUME status' # TROUBLE PROVE VerdictOnWholeEvidence'
    BY DEF VerdictOnWholeEvidence
  <2>1. UNCHANGED <<lines, ended, count, stored, health, findings>> /\ phase = "print"
    BY <1>1 DEF PrintReport, Keep, KeepStreams
  <2>2. /\ ~err' /\ printed' /\ EvidenceIsWhole
        /\ status' = IF findings = 0 THEN CLEAN ELSE FINDINGS
    BY <1>1 DEF PrintReport
  <2>3. ~err /\ \A s \in Stream : ended[s]
    BY <1>0, <2>1 DEF Control, Past, Stream
  <2>4. \A s \in Stream :
          /\ \A c \in {"OverLong", "Garbage", "OldVersion", "FailedReceipt"} : Lines(s, c) = 0
          /\ Lines(s, "Receipt") > 0
          /\ count[s].records = Lines(s, Own(s))
    BY <1>0, <2>2 DEF EvidenceIsWhole, HealthIsComplete, Accounts
  <2>5. \A s \in Stream : Len(stored[s]) = Lines(s, Own(s))
    BY <1>0, <2>3, <2>4 DEF SequenceIsRank
  <2>6. (status' = CLEAN) <=> (findings' = 0)
    BY <2>1, <2>2 DEF CLEAN, FINDINGS
  <2>7. \A s \in Stream : \A class : Lines(s, class)' = Lines(s, class) /\ Own(s)' = Own(s)
    BY <2>1 DEF Lines, Own
  <2> QED BY <2>1, <2>2, <2>3, <2>4, <2>5, <2>6, <2>7 DEF VerdictOnWholeEvidence
<1>2. CASE phase' = "exit" /\ status' = TROUBLE
  BY <1>2 DEF VerdictOnWholeEvidence
<1>3. CASE phase' # "exit"
  BY <1>3 DEF VerdictOnWholeEvidence
<1>4. CASE UNCHANGED vars
  BY <1>4, ZenonT(30) DEF VerdictOnWholeEvidence, vars, Lines, Own
<1>5. ASSUME ~PrintReport, ~UNCHANGED vars, phase' = "exit"
      PROVE  status' = TROUBLE
  <2>1. \A s \in Stream : ~Take(s)
    <3> SUFFICES ASSUME NEW s \in Stream, Take(s) PROVE FALSE
      OBVIOUS
    <3> QED BY <1>0, <1>5, TakesALine, TakesTyped, PhaseNames
  <2>2. \A s \in Stream : ~Read(s)
    BY <1>5, <2>1, PhaseNames
       DEF Read, Take, Open, Close, ReadFails, EndOfLog, LeaveLoop, Goto
  <2>3. CASE Types
    BY <1>5, <2>3 DEF Types
  <2>4. CASE Help \/ Accept
    BY <1>5, <2>4 DEF Help, Accept, Goto, Opening
  <2>5. CASE Refuse \/ StartFails
    BY <1>0, <2>5 DEF Refuse, StartFails, Comes, Control
  <2>6. CASE Finish \/ Finalize
    BY <1>0, <2>6 DEF Finish, Finalize, Control
  <2> QED BY <1>5, <2>2, <2>3, <2>4, <2>5, <2>6 DEF Next, Proceed
<1> QED BY <1>1, <1>2, <1>3, <1>4, <1>5

\* An exit status of 0 or 1 is given on whole evidence alone: both logs read to
\* their ends, no line refused, a good receipt in each and no failed one, every
\* record of the stream stored, and the report printed (main.c:44-54,
\* runner.c:44-88).
THEOREM VerdictsRestOnWholeEvidence == Spec => []VerdictOnWholeEvidence
<1>1. Init => PipelineInv /\ VerdictOnWholeEvidence
  <2>1. Init => VerdictOnWholeEvidence
    BY DEF Init, VerdictOnWholeEvidence
  <2> QED BY <2>1, PipelineInit
<1>2. PipelineInv /\ VerdictOnWholeEvidence /\ [Next]_vars
        => PipelineInv' /\ VerdictOnWholeEvidence'
  BY PipelineInvStep, VerdictStep
<1> QED BY <1>1, <1>2, PTL DEF Spec

-----------------------------------------------------------------------------
(* The command line.                                                       *)

Args ==
    [report_dir : STRING \cup {Null}, resource_log : STRING \cup {Null},
     call_log : STRING \cup {Null}, bundle_output_dir : STRING \cup {Null},
     format : {"TEXT", "JSON", "MERMAID"}, verbose : BOOLEAN, awaits : Fields \cup {Null},
     over : BOOLEAN, operands : Seq(STRING), outcome : {"run", "help", "usage"}]

LEMMA StartTyped == Start \in Args
BY DEF Start, Args

\* The five things a word can do, beside ending the program.
LEMMA StepTyped ==
    ASSUME NEW a \in Args, NEW word \in STRING, NEW permutes \in BOOLEAN
    PROVE  Step(a, word, permutes) \in Args
<1>1. CASE a.outcome # "run"
  BY <1>1 DEF Step
<1>2. CASE a.outcome = "run" /\ a.awaits # Null
  <2>1. Step(a, word, permutes) = [a EXCEPT ![a.awaits] = word, !.awaits = Null]
    BY <1>2 DEF Step
  <2>2. a.awaits \in Fields
    BY <1>2 DEF Args
  <2>3. CASE a.awaits = "report_dir"
    BY <2>1, <2>3 DEF Args
  <2>4. CASE a.awaits = "resource_log"
    BY <2>1, <2>4 DEF Args
  <2>5. CASE a.awaits = "call_log"
    BY <2>1, <2>5 DEF Args
  <2>6. CASE a.awaits = "bundle_output_dir"
    BY <2>1, <2>6 DEF Args
  <2> QED BY <2>2, <2>3, <2>4, <2>5, <2>6 DEF Fields
<1>3. CASE a.outcome = "run" /\ a.awaits = Null /\ (a.over \/ word \notin Options \cup {"--"})
  <2>1. Step(a, word, permutes) = [a EXCEPT !.operands = Append(@, word), !.over = @ \/ ~permutes]
    BY <1>3 DEF Step
  <2>2. Append(a.operands, word) \in Seq(STRING) /\ (a.over \/ ~permutes) \in BOOLEAN
    BY DEF Args
  <2> QED BY <2>1, <2>2 DEF Args
<1>4. CASE a.outcome = "run" /\ a.awaits = Null /\ ~a.over /\ word \in Options \cup {"--"}
  <2>1. Step(a, word, permutes) =
          CASE word = "--"             -> [a EXCEPT !.over = TRUE]
            [] word \in WithArgument   -> [a EXCEPT !.awaits = FieldOf(word)]
            [] word = "-h"             -> [a EXCEPT !.outcome = "help"]
            [] word = "-v"             -> [a EXCEPT !.verbose = TRUE]
            [] word = "-j"             -> [a EXCEPT !.format = "JSON"]
            [] word = "-m"             -> [a EXCEPT !.format = "MERMAID"]
            [] word \in {"-x", "--help"} -> [a EXCEPT !.outcome = "usage"]
    BY <1>4 DEF Step
  <2>2. word \in WithArgument => FieldOf(word) \in Fields
    BY DEF WithArgument, FieldOf, Fields
  <2>3. word \in {"--", "-h", "-v", "-j", "-m", "-x", "--help"} \cup WithArgument
    BY <1>4 DEF Options
  <2>4. CASE word \in WithArgument
    <3>1. Step(a, word, permutes) = [a EXCEPT !.awaits = FieldOf(word)]
      BY <2>1, <2>4 DEF WithArgument
    <3> QED BY <2>2, <2>4, <3>1 DEF Args
  <2>5. CASE word \in {"--", "-h", "-v", "-j", "-m", "-x", "--help"}
    BY <2>1, <2>5, ZenonT(30) DEF Args, WithArgument
  <2> QED BY <2>3, <2>4, <2>5
<1> QED BY <1>1, <1>2, <1>3, <1>4 DEF Args

LEMMA LeastExists ==
    ASSUME NEW S, S \subseteq Nat, S # {}
    PROVE  \E i \in S : \A j \in S : i <= j
<1> DEFINE R == {ss \in Nat \X Nat : ss[1] < ss[2]}
<1>1. \E i \in S : \A j \in S : ~(<<j, i>> \in R)
  <2>1. IsWellFoundedOn(R, Nat)
    BY NatLessThanWellFounded DEF OpToRel
  <2> HIDE DEF R
  <2> QED BY <2>1, WFMin
<1>2. PICK i \in S : \A j \in S : ~(<<j, i>> \in R)
  BY <1>1
<1>3. ASSUME NEW j \in S PROVE i <= j
  <2>1. i \in Nat /\ j \in Nat /\ ~(<<j, i>> \in R)
    BY <1>2
  <2> QED BY <2>1
<1> QED BY <1>3

\* The first n rounds of the loop over these words.
Rounds(words, permutes, n, g) ==
    /\ g = [k \in 0 .. n |-> g[k]]
    /\ g[0] = Start
    /\ \A k \in 1 .. n : g[k] = Step(g[k - 1], words[k], permutes)

LEMMA RoundsAgree ==
    ASSUME NEW words, NEW permutes, NEW n \in Nat, NEW g, NEW h,
           Rounds(words, permutes, n, g), Rounds(words, permutes, n, h)
    PROVE  g = h
<1> DEFINE S == {k \in Nat : k <= n /\ g[k] # h[k]}
<1>1. S = {}
  <2>1. SUFFICES ASSUME S # {} PROVE FALSE
    OBVIOUS
  <2>2. PICK k \in S : \A j \in S : k <= j
    BY <2>1, LeastExists
  <2>3. k \in Nat /\ k <= n /\ k # 0
    BY <2>2 DEF Rounds
  <2>4. k \in 1 .. n /\ k - 1 \in Nat /\ k - 1 \notin S
    BY <2>2, <2>3
  <2>5. g[k - 1] = h[k - 1]
    BY <2>3, <2>4
  <2>6. g[k] = Step(g[k - 1], words[k], permutes) /\ h[k] = Step(h[k - 1], words[k], permutes)
    BY <2>4 DEF Rounds
  <2> QED BY <2>2, <2>5, <2>6
<1>2. \A k \in 0 .. n : g[k] = h[k]
  BY <1>1
<1> QED BY <1>2 DEF Rounds

\* A function that goes through the rounds is the loop.
LEMMA LoopIs ==
    ASSUME NEW words, NEW permutes, Len(words) \in Nat, NEW g,
           Rounds(words, permutes, Len(words), g)
    PROVE  Loop(words, permutes) = g
<1> DEFINE goal(f) ==
      [n \in 0 .. Len(words) |->
         IF n = 0 THEN Start ELSE Step(f[n - 1], words[n], permutes)]
<1>1. ASSUME NEW f, f = goal(f) PROVE Rounds(words, permutes, Len(words), f)
  <2>1. \A n \in 0 .. Len(words) :
          f[n] = IF n = 0 THEN Start ELSE Step(f[n - 1], words[n], permutes)
    BY <1>1
  <2>2. f = [n \in 0 .. Len(words) |-> f[n]]
    BY <1>1
  <2>3. 0 \in 0 .. Len(words)
    OBVIOUS
  <2>4. \A n \in 1 .. Len(words) : n \in 0 .. Len(words) /\ n # 0
    OBVIOUS
  <2> HIDE DEF goal
  <2> QED BY <2>1, <2>2, <2>3, <2>4 DEF Rounds
<1>2. g = goal(g)
  <2>1. \A n \in 0 .. Len(words) :
          g[n] = IF n = 0 THEN Start ELSE Step(g[n - 1], words[n], permutes)
    BY DEF Rounds
  <2> QED BY <2>1 DEF Rounds
<1>3. Loop(words, permutes) = CHOOSE f : f = goal(f)
  BY DEF Loop
<1> HIDE DEF goal
<1>4. Loop(words, permutes) = goal(Loop(words, permutes))
  BY <1>2, <1>3
<1> QED BY <1>1, <1>4, RoundsAgree

\* There are such rounds, whatever the words are.
LEMMA RoundsExist ==
    ASSUME NEW words \in Seq(STRING), NEW permutes \in BOOLEAN, NEW n \in Nat, n <= Len(words)
    PROVE  \E g \in [0 .. n -> Args] : Rounds(words, permutes, n, g)
<1> DEFINE have(m) == \E g \in [0 .. m -> Args] : Rounds(words, permutes, m, g)
           S == {m \in Nat : m <= n /\ ~have(m)}
<1>1. SUFFICES ASSUME S # {} PROVE FALSE
  OBVIOUS
<1>2. PICK m \in S : \A l \in S : m <= l
  BY <1>1, LeastExists
<1>3. m # 0
  <2> DEFINE g == [k \in 0 .. 0 |-> Start]
  <2>1. g \in [0 .. 0 -> Args]
    BY StartTyped
  <2>2. Rounds(words, permutes, 0, g)
    BY DEF Rounds
  <2> QED BY <1>2, <2>1, <2>2
<1>4. m \in Nat /\ m <= n /\ m - 1 \in Nat /\ m - 1 \notin S /\ ~have(m)
  BY <1>2, <1>3
<1>5. PICK h \in [0 .. m - 1 -> Args] : Rounds(words, permutes, m - 1, h)
  BY <1>4
<1> DEFINE last == Step(h[m - 1], words[m], permutes)
           g == [k \in 0 .. m |-> IF k = m THEN last ELSE h[k]]
<1>6. last \in Args
  <2>1. h[m - 1] \in Args /\ words[m] \in STRING
    BY <1>3, <1>4
  <2> QED BY <2>1, StepTyped
<1> HIDE DEF last
<1>7. g \in [0 .. m -> Args]
  BY <1>4, <1>6
<1>8. g[0] = Start
  BY <1>3, <1>4, <1>5 DEF Rounds
<1>9. ASSUME NEW k \in 1 .. m PROVE g[k] = Step(g[k - 1], words[k], permutes)
  <2>1. k \in Nat /\ k - 1 \in 0 .. m - 1 /\ g[k - 1] = h[k - 1]
    BY <1>4
  <2>2. CASE k = m
    <3>1. g[k] = last /\ last = Step(h[m - 1], words[m], permutes)
      BY <1>4, <2>2 DEF last
    <3> QED BY <2>1, <2>2, <3>1
  <2>3. CASE k # m
    <3>1. k \in 1 .. m - 1 /\ g[k] = h[k]
      BY <1>4, <2>3
    <3> QED BY <1>5, <2>1, <3>1 DEF Rounds
  <2> QED BY <2>2, <2>3
<1> HIDE DEF g
<1>10. Rounds(words, permutes, m, g)
  BY <1>7, <1>8, <1>9 DEF Rounds
<1> QED BY <1>4, <1>7, <1>10

\* What the loop is, round by round.
LEMMA LoopMeaning ==
    ASSUME NEW words \in Seq(STRING), NEW permutes \in BOOLEAN
    PROVE  /\ Len(words) \in Nat
           /\ Loop(words, permutes) \in [0 .. Len(words) -> Args]
           /\ Rounds(words, permutes, Len(words), Loop(words, permutes))
           /\ WordsRead(words, permutes) \in Args
<1>1. Len(words) \in Nat
  OBVIOUS
<1>2. PICK g \in [0 .. Len(words) -> Args] : Rounds(words, permutes, Len(words), g)
  BY <1>1, RoundsExist
<1>3. Loop(words, permutes) = g
  BY <1>1, <1>2, LoopIs
<1>4. g[Len(words)] \in Args
  BY <1>1, <1>2
<1> QED BY <1>1, <1>2, <1>3, <1>4 DEF WordsRead

-----------------------------------------------------------------------------
(* With and without permutation.                                           *)

\* Read so far without permutation (s) and with it (g): the same, but that behind an
\* operand only the first has stopped looking for options; unless what stops has
\* ended, or has more operands than it can use.
Alike(s, g) ==
    /\ s.over => s.awaits = Null
    /\ \/ s.outcome # "run" \/ Len(s.operands) >= 2
       \/ /\ g = [s EXCEPT !.over = g.over]
          /\ s.operands = <<>> => g = s
          /\ Len(s.operands) >= 1 => s.over

\* Words that are not operands leave the operands, and what is over stays over.
LEMMA OptionStep ==
    ASSUME NEW a \in Args, NEW word, NEW permutes \in BOOLEAN,
           a.outcome = "run", a.awaits = Null, ~a.over, word \in Options \cup {"--"}
    PROVE  /\ \A other \in BOOLEAN : Step(a, word, other) = Step(a, word, permutes)
           /\ Step(a, word, permutes).operands = a.operands
           /\ Step(a, word, permutes).over => Step(a, word, permutes).awaits = Null
<1> DEFINE next ==
      CASE word = "--"             -> [a EXCEPT !.over = TRUE]
        [] word \in WithArgument   -> [a EXCEPT !.awaits = FieldOf(word)]
        [] word = "-h"             -> [a EXCEPT !.outcome = "help"]
        [] word = "-v"             -> [a EXCEPT !.verbose = TRUE]
        [] word = "-j"             -> [a EXCEPT !.format = "JSON"]
        [] word = "-m"             -> [a EXCEPT !.format = "MERMAID"]
        [] word \in {"-x", "--help"} -> [a EXCEPT !.outcome = "usage"]
<1>1. \A p : Step(a, word, p) = next
  BY DEF Step
<1>2. word \in {"--", "-h", "-v", "-j", "-m", "-x", "--help"} \cup WithArgument
  BY DEF Options
<1>3. next.operands = a.operands /\ (next.over => next.awaits = Null)
  BY <1>2 DEF Args, WithArgument
<1> HIDE DEF next
<1> QED BY <1>1, <1>3

LEMMA OperandsGrow ==
    ASSUME NEW a \in Args, NEW word \in STRING, NEW permutes \in BOOLEAN
    PROVE  Len(Step(a, word, permutes).operands) >= Len(a.operands)
<1>0. Len(a.operands) \in Nat /\ Len(Append(a.operands, word)) = Len(a.operands) + 1
  <2>1. a.operands \in Seq(STRING)
    BY DEF Args
  <2> QED BY <2>1
<1>1. CASE a.outcome # "run"
  BY <1>0, <1>1 DEF Step
<1>2. CASE a.outcome = "run" /\ a.awaits # Null
  <2>1. Step(a, word, permutes) = [a EXCEPT ![a.awaits] = word, !.awaits = Null]
    BY <1>2 DEF Step
  <2>2. a.awaits \in Fields
    BY <1>2 DEF Args
  <2>3. Step(a, word, permutes).operands = a.operands
    BY <2>1, <2>2 DEF Args, Fields
  <2> QED BY <1>0, <2>3
<1>3. CASE a.outcome = "run" /\ a.awaits = Null /\ (a.over \/ word \notin Options \cup {"--"})
  <2>1. Step(a, word, permutes).operands = Append(a.operands, word)
    BY <1>3 DEF Step, Args
  <2> QED BY <1>0, <2>1
<1>4. CASE a.outcome = "run" /\ a.awaits = Null /\ ~a.over /\ word \in Options \cup {"--"}
  BY <1>0, <1>4, OptionStep
<1> QED BY <1>1, <1>2, <1>3, <1>4

LEMMA AlikeStep ==
    ASSUME NEW s \in Args, NEW g \in Args, Alike(s, g), NEW word \in STRING,
           NEW no \in BOOLEAN, ~no, NEW yes \in BOOLEAN, yes
    PROVE  Alike(Step(s, word, no), Step(g, word, yes))
<1> DEFINE s2 == Step(s, word, no)
           g2 == Step(g, word, yes)
<1> SUFFICES Alike(s2, g2)
  OBVIOUS
<1>0. s2 \in Args /\ g2 \in Args /\ Len(s.operands) \in Nat
      /\ Len(s2.operands) \in Nat /\ Len(s2.operands) >= Len(s.operands)
  <2>1. s2 \in Args /\ g2 \in Args
    BY StepTyped
  <2>2. s2.operands \in Seq(STRING) /\ s.operands \in Seq(STRING)
    BY <2>1 DEF Args
  <2>3. Len(s2.operands) >= Len(s.operands)
    BY OperandsGrow
  <2> HIDE DEF s2, g2
  <2> QED BY <2>1, <2>2, <2>3
<1>1. s2.over => s2.awaits = Null
  <2>1. CASE s.outcome # "run"
    BY <2>1 DEF Step, Alike
  <2>2. CASE s.outcome = "run" /\ s.awaits # Null
    <3>1. s2 = [s EXCEPT ![s.awaits] = word, !.awaits = Null]
      BY <2>2 DEF Step
    <3>2. s2.awaits = Null
      BY <3>1 DEF Args
    <3> QED BY <3>2
  <2>3. CASE s.outcome = "run" /\ s.awaits = Null /\ (s.over \/ word \notin Options \cup {"--"})
    BY <2>3 DEF Step, Args
  <2>4. CASE s.outcome = "run" /\ s.awaits = Null /\ ~s.over /\ word \in Options \cup {"--"}
    BY <2>4, OptionStep
  <2> QED BY <2>1, <2>2, <2>3, <2>4
<1>2. CASE s.outcome # "run" \/ Len(s.operands) >= 2
  <2>1. s.outcome # "run" => s2 = s
    BY DEF Step
  <2> HIDE DEF s2, g2
  <2>2. s2.outcome # "run" \/ Len(s2.operands) >= 2
    BY <1>0, <1>2, <2>1
  <2> QED BY <1>1, <2>2 DEF Alike
<1>3. CASE s.outcome = "run" /\ Len(s.operands) < 2
  <2>0. g = [s EXCEPT !.over = g.over] /\ (s.operands = <<>> => g = s)
        /\ (Len(s.operands) >= 1 => s.over)
    BY <1>0, <1>3 DEF Alike
  <2>1. CASE s.operands # <<>>
    <3>0. s.operands \in Seq(STRING)
      BY DEF Args
    <3>1. Len(s.operands) = 1 /\ s.over /\ s.awaits = Null
      <4>1. Len(s.operands) # 0
        BY <2>1, <3>0
      <4>2. s.over => s.awaits = Null
        BY DEF Alike
      <4>3. Len(s.operands) \in Nat /\ Len(s.operands) < 2
        BY <1>0, <1>3
      <4>4. Len(s.operands) = 1
        <5>1. \A n \in Nat : n # 0 /\ n < 2 => n = 1
          OBVIOUS
        <5> QED BY <4>1, <4>3, <5>1, Zenon
      <4>5. s.over \in BOOLEAN
        BY DEF Args
      <4>6. s.over
        BY <2>0, <4>4, <4>5
      <4> QED BY <4>2, <4>4, <4>6
    <3>2. s2.operands = Append(s.operands, word)
      BY <1>3, <3>1 DEF Step, Args
    <3>3. Len(s2.operands) = 2
      BY <3>0, <3>1, <3>2
    <3> HIDE DEF s2, g2
    <3> QED BY <1>1, <3>3 DEF Alike
  <2>2. CASE s.operands = <<>> /\ s.awaits # Null
    <3>1. s2 = [s EXCEPT ![s.awaits] = word, !.awaits = Null] /\ g2 = s2
      BY <1>3, <2>0, <2>2 DEF Step
    <3>2. s.awaits \in Fields
      BY <2>2 DEF Args
    <3>3. s2.operands = <<>>
      BY <2>2, <3>1, <3>2 DEF Args, Fields
    <3>4. g2 = [s2 EXCEPT !.over = g2.over]
      BY <1>0, <3>1 DEF Args
    <3>5. Len(s2.operands) = 0
      BY <3>3
    <3>6. g2 = s2
      BY <3>1
    <3> HIDE DEF s2, g2
    <3> QED BY <1>1, <3>4, <3>5, <3>6 DEF Alike
  <2>3. CASE s.operands = <<>> /\ s.awaits = Null /\ (s.over \/ word \notin Options \cup {"--"})
    <3>1. s2 = [s EXCEPT !.operands = Append(@, word), !.over = TRUE]
          /\ g2 = [s EXCEPT !.operands = Append(@, word), !.over = s.over]
      BY <1>3, <2>0, <2>3 DEF Step, Args
    <3>2. g2 = [s2 EXCEPT !.over = g2.over]
      BY <3>1 DEF Args
    <3>3. s2.over /\ s2.operands = Append(<<>>, word)
      BY <2>3, <3>1 DEF Args
    <3>4. s2.operands # <<>>
      BY <3>3
    <3> HIDE DEF s2, g2
    <3> QED BY <1>1, <3>2, <3>3, <3>4 DEF Alike
  <2>4. CASE s.operands = <<>> /\ s.awaits = Null /\ ~s.over /\ word \in Options \cup {"--"}
    <3>1. g2 = s2 /\ s2.operands = <<>>
      BY <1>3, <2>0, <2>4, OptionStep
    <3>2. g2 = [s2 EXCEPT !.over = g2.over]
      BY <1>0, <3>1 DEF Args
    <3>3. Len(s2.operands) = 0
      BY <3>1
    <3> HIDE DEF s2, g2
    <3> QED BY <1>1, <3>1, <3>2, <3>3 DEF Alike
  <2> QED BY <2>1, <2>2, <2>3, <2>4
<1>4. Len(s.operands) >= 2 \/ Len(s.operands) < 2
  BY <1>0
<1> HIDE DEF s2, g2
<1> QED BY <1>2, <1>3, <1>4

LEMMA AlikeAtTheEnd ==
    ASSUME NEW words \in Seq(STRING), NEW no \in BOOLEAN, ~no, NEW yes \in BOOLEAN, yes
    PROVE  Alike(WordsRead(words, no), WordsRead(words, yes))
<1> DEFINE s == Loop(words, no)
           g == Loop(words, yes)
           S == {n \in Nat : n <= Len(words) /\ ~Alike(s[n], g[n])}
<1>0. Len(words) \in Nat /\ s \in [0 .. Len(words) -> Args] /\ g \in [0 .. Len(words) -> Args]
      /\ Rounds(words, no, Len(words), s) /\ Rounds(words, yes, Len(words), g)
  BY LoopMeaning
<1> HIDE DEF s, g
<1>1. S = {}
  <2>1. SUFFICES ASSUME S # {} PROVE FALSE
    OBVIOUS
  <2>2. PICK n \in S : \A m \in S : n <= m
    BY <2>1, LeastExists
  <2>3. Alike(Start, Start)
    <3>1. Start = [Start EXCEPT !.over = Start.over] /\ Start.operands = <<>> /\ ~Start.over
      BY DEF Start
    <3>2. Len(Start.operands) = 0
      BY <3>1
    <3> QED BY <3>1, <3>2 DEF Alike
  <2>4. n # 0
    BY <1>0, <2>2, <2>3 DEF Rounds
  <2>5. n \in 1 .. Len(words) /\ n - 1 \in 0 .. Len(words) /\ n - 1 \notin S
    BY <1>0, <2>2, <2>4
  <2>6. Alike(s[n - 1], g[n - 1]) /\ s[n - 1] \in Args /\ g[n - 1] \in Args
        /\ words[n] \in STRING
    BY <1>0, <2>5
  <2>7. s[n] = Step(s[n - 1], words[n], no) /\ g[n] = Step(g[n - 1], words[n], yes)
    BY <1>0, <2>5 DEF Rounds
  <2>8. Alike(Step(s[n - 1], words[n], no), Step(g[n - 1], words[n], yes))
    BY <2>6, AlikeStep
  <2> QED BY <2>2, <2>7, <2>8
<1>2. Alike(s[Len(words)], g[Len(words)])
  BY <1>0, <1>1
<1> QED BY <1>2 DEF s, g, WordsRead

\* Nothing after the loop looks at whether the options are over.
LEMMA AlikeRuns ==
    ASSUME NEW s \in Args, NEW g \in Args, Alike(s, g),
           Checked(TakeOperands(s)).outcome = "run"
    PROVE  LET stops == Checked(TakeOperands(s))
               goes  == Checked(TakeOperands(g))
           IN  /\ goes.outcome = "run"
               /\ goes.resource_log = stops.resource_log /\ goes.call_log = stops.call_log
               /\ goes.bundle_output_dir = stops.bundle_output_dir
               /\ goes.format = stops.format
<1> DEFINE t == TakeOperands(s)
           u == TakeOperands(g)
<1> SUFFICES
      /\ Checked(u).outcome = "run"
      /\ Checked(u).resource_log = Checked(t).resource_log
      /\ Checked(u).call_log = Checked(t).call_log
      /\ Checked(u).bundle_output_dir = Checked(t).bundle_output_dir
      /\ Checked(u).format = Checked(t).format
  OBVIOUS
<1>1. t.outcome = "run" /\ ~IsRefused(t)
  BY DEF Checked, TakeOperands, Args
<1>2. s.outcome = "run" /\ Len(s.operands) <= 1
  BY <1>1 DEF TakeOperands, Args
<1>3. g = [s EXCEPT !.over = g.over]
  <2>1. Len(s.operands) \in Nat
    BY DEF Args
  <2> QED BY <1>2, <2>1 DEF Alike
<1>4. /\ g.outcome = s.outcome /\ g.awaits = s.awaits /\ g.operands = s.operands
      /\ g.report_dir = s.report_dir /\ g.resource_log = s.resource_log
      /\ g.call_log = s.call_log /\ g.bundle_output_dir = s.bundle_output_dir
      /\ g.format = s.format
  BY <1>3 DEF Args
<1>5. /\ u.outcome = t.outcome /\ u.report_dir = t.report_dir
      /\ u.resource_log = t.resource_log /\ u.call_log = t.call_log
      /\ u.bundle_output_dir = t.bundle_output_dir /\ u.format = t.format
  BY <1>4 DEF TakeOperands, Args
<1>7. ~IsRefused(u)
  BY <1>1, <1>5 DEF IsRefused, LogsAreNamed
<1>8. Checked(t) = Located(t) /\ Checked(u) = Located(u)
  BY <1>1, <1>5, <1>7 DEF Checked
<1>9. /\ Located(t).outcome = t.outcome /\ Located(u).outcome = u.outcome
      /\ Located(t).format = t.format /\ Located(u).format = u.format
      /\ Located(t).bundle_output_dir = t.bundle_output_dir
      /\ Located(u).bundle_output_dir = u.bundle_output_dir
      /\ Located(t).resource_log = Located(u).resource_log
      /\ Located(t).call_log = Located(u).call_log
  BY <1>5 DEF Located, TakeOperands, Args
<1> HIDE DEF t, u
<1> QED BY <1>1, <1>5, <1>8, <1>9

\* A command line that runs is more than --help.
LEMMA RunMeaning ==
    ASSUME NEW words, NEW permutes, Arguments(words, permutes).outcome = "run"
    PROVE  /\ words # <<"--help">>
           /\ Arguments(words, permutes) = Checked(TakeOperands(WordsRead(words, permutes)))
<1>1. [Start EXCEPT !.outcome = "help"].outcome = "help"
  BY DEF Start
<1> QED BY <1>1 DEF Arguments

LEMMA PermutingOfWords ==
    ASSUME NEW words \in Seq(STRING), NEW no \in BOOLEAN, ~no, NEW yes \in BOOLEAN, yes,
           Arguments(words, no).outcome = "run"
    PROVE  /\ Arguments(words, yes).outcome = "run"
           /\ Arguments(words, yes).resource_log = Arguments(words, no).resource_log
           /\ Arguments(words, yes).call_log = Arguments(words, no).call_log
           /\ Arguments(words, yes).bundle_output_dir = Arguments(words, no).bundle_output_dir
           /\ Arguments(words, yes).format = Arguments(words, no).format
<1> DEFINE s == WordsRead(words, no)
           g == WordsRead(words, yes)
<1>1. words # <<"--help">> /\ Arguments(words, no) = Checked(TakeOperands(s))
  BY RunMeaning
<1>2. Arguments(words, yes) = Checked(TakeOperands(g))
  BY <1>1 DEF Arguments
<1>3. s \in Args /\ g \in Args
  BY LoopMeaning
<1>4. Alike(s, g)
  BY AlikeAtTheEnd
<1> HIDE DEF s, g
<1>5. Checked(TakeOperands(s)).outcome = "run"
  BY <1>1
<1> DEFINE stops == Checked(TakeOperands(s))
           goes == Checked(TakeOperands(g))
<1>6. /\ goes.outcome = "run"
      /\ goes.resource_log = stops.resource_log /\ goes.call_log = stops.call_log
      /\ goes.bundle_output_dir = stops.bundle_output_dir
      /\ goes.format = stops.format
  BY <1>3, <1>4, <1>5, AlikeRuns
<1> QED BY <1>1, <1>2, <1>6

-----------------------------------------------------------------------------
(* A log that is named.                                                    *)

\* What naming a resource log before all else adds to what is read later.
Named(a, word) == [a EXCEPT !.resource_log = IF @ = Null THEN word ELSE @]

LEMMA NamedTyped ==
    ASSUME NEW a \in Args, NEW word \in STRING
    PROVE  Named(a, word) \in Args
BY DEF Named, Args

\* Every round treats the two alike, and a later -r puts both at the same word.
LEMMA NamedStep ==
    ASSUME NEW a \in Args, NEW name \in STRING, NEW word \in STRING, NEW permutes \in BOOLEAN
    PROVE  Step(Named(a, name), word, permutes) = Named(Step(a, word, permutes), name)
<1> DEFINE b == Named(a, name)
<1>0. /\ b.outcome = a.outcome /\ b.awaits = a.awaits /\ b.over = a.over
      /\ b = [a EXCEPT !.resource_log = IF @ = Null THEN name ELSE @]
  BY DEF Named, Args
<1>6. word # Null
  BY CommandLineAssumption DEF CommandLineAssumption
<1>1. CASE a.outcome # "run"
  <2>1. Step(a, word, permutes) = a /\ Step(b, word, permutes) = b
    BY <1>0, <1>1 DEF Step
  <2> QED BY <2>1
<1>2. CASE a.outcome = "run" /\ a.awaits # Null
  <2>1. Step(a, word, permutes) = [a EXCEPT ![a.awaits] = word, !.awaits = Null]
    BY <1>2 DEF Step
  <2>2. Step(b, word, permutes) = [b EXCEPT ![a.awaits] = word, !.awaits = Null]
    BY <1>0, <1>2 DEF Step
  <2>3. a.awaits \in Fields
    BY <1>2 DEF Args
  <2>4. CASE a.awaits = "resource_log"
    <3> DEFINE c == [a EXCEPT !.resource_log = word, !.awaits = Null]
    <3>1. Step(a, word, permutes) = c
      BY <2>1, <2>4 DEF Args
    <3>2. Step(b, word, permutes) = c
      BY <1>0, <2>2, <2>4 DEF Args
    <3>3. c.resource_log = word /\ c = [c EXCEPT !.resource_log = word]
      BY DEF Args
    <3> HIDE DEF c
    <3>4. Named(c, name) = c
      BY <1>6, <3>3 DEF Named
    <3> QED BY <3>1, <3>2, <3>4
  <2>5. CASE a.awaits = "report_dir"
    BY <1>0, <2>1, <2>2, <2>5 DEF Args, Named
  <2>6. CASE a.awaits = "call_log"
    BY <1>0, <2>1, <2>2, <2>6 DEF Args, Named
  <2>7. CASE a.awaits = "bundle_output_dir"
    BY <1>0, <2>1, <2>2, <2>7 DEF Args, Named
  <2> QED BY <2>3, <2>4, <2>5, <2>6, <2>7 DEF Fields
<1>3. CASE a.outcome = "run" /\ a.awaits = Null /\ (a.over \/ word \notin Options \cup {"--"})
  <2>1. Step(a, word, permutes) = [a EXCEPT !.operands = Append(@, word), !.over = @ \/ ~permutes]
    BY <1>3 DEF Step
  <2>2. Step(b, word, permutes) = [b EXCEPT !.operands = Append(@, word), !.over = @ \/ ~permutes]
    BY <1>0, <1>3 DEF Step
  <2> QED BY <1>0, <2>1, <2>2 DEF Args, Named
<1>4. CASE a.outcome = "run" /\ a.awaits = Null /\ ~a.over /\ word \in Options \cup {"--"}
  <2> DEFINE next(c) ==
        CASE word = "--"             -> [c EXCEPT !.over = TRUE]
          [] word \in WithArgument   -> [c EXCEPT !.awaits = FieldOf(word)]
          [] word = "-h"             -> [c EXCEPT !.outcome = "help"]
          [] word = "-v"             -> [c EXCEPT !.verbose = TRUE]
          [] word = "-j"             -> [c EXCEPT !.format = "JSON"]
          [] word = "-m"             -> [c EXCEPT !.format = "MERMAID"]
          [] word \in {"-x", "--help"} -> [c EXCEPT !.outcome = "usage"]
  <2>1. Step(a, word, permutes) = next(a)
    BY <1>4 DEF Step
  <2>2. Step(b, word, permutes) = next(b)
    BY <1>0, <1>4 DEF Step
  <2>3. word \in {"--", "-h", "-v", "-j", "-m", "-x", "--help"} \cup WithArgument
    BY <1>4 DEF Options
  <2>4. CASE word \in WithArgument
    <3>1. next(a) = [a EXCEPT !.awaits = FieldOf(word)] /\ next(b) = [b EXCEPT !.awaits = FieldOf(word)]
      BY <2>4 DEF WithArgument
    <3>2. [b EXCEPT !.awaits = FieldOf(word)] = Named([a EXCEPT !.awaits = FieldOf(word)], name)
      BY <1>0 DEF Args, Named
    <3> QED BY <2>1, <2>2, <3>1, <3>2
  <2>5. CASE word \in {"--", "-h", "-v", "-j", "-m", "-x", "--help"}
    <3>1. next(b) = Named(next(a), name)
      BY <1>0, <2>5, ZenonT(30) DEF Args, Named, WithArgument
    <3> HIDE DEF next, b
    <3>2. Step(b, word, permutes) = Named(Step(a, word, permutes), name)
      BY <2>1, <2>2, <3>1
    <3> QED BY <3>2 DEF b
  <2> QED BY <2>3, <2>4, <2>5
<1>5. a.over \in BOOLEAN
  BY DEF Args
<1> QED BY <1>1, <1>2, <1>3, <1>4, <1>5

\* Two words more, in front: the rounds go on from the named log.
LEMMA NamedAtTheEnd ==
    ASSUME NEW words \in Seq(STRING), NEW name \in STRING, NEW permutes \in BOOLEAN
    PROVE  WordsRead(<<"-r", name>> \o words, permutes) = Named(WordsRead(words, permutes), name)
<1> DEFINE n == Len(words)
           h == Loop(words, permutes)
           more == <<"-r", name>> \o words
           awaiting == [Start EXCEPT !.awaits = "resource_log"]
           g == [k \in 0 .. n + 2 |->
                   IF k = 0 THEN Start
                   ELSE IF k = 1 THEN awaiting
                   ELSE Named(h[k - 2], name)]
<1>1. /\ n \in Nat /\ Rounds(words, permutes, n, h) /\ h \in [0 .. n -> Args]
  BY LoopMeaning
<1>2. /\ Len(more) = n + 2 /\ more[1] = "-r" /\ more[2] = name
      /\ \A k \in 1 .. n : more[k + 2] = words[k]
  OBVIOUS
<1> HIDE DEF more, h, n
<1>3. awaiting = Step(Start, "-r", permutes)
  BY DEF Start, Step, Options, WithArgument, FieldOf
<1>4. Named(Start, name) = Step(awaiting, name, permutes)
  <2>1. "resource_log" # Null
    BY CommandLineAssumption DEF CommandLineAssumption, Fields
  <2>2. awaiting.outcome = "run" /\ awaiting.awaits = "resource_log"
    BY DEF Start
  <2>3. Step(awaiting, name, permutes) = [awaiting EXCEPT !.resource_log = name, !.awaits = Null]
    BY <2>1, <2>2 DEF Step
  <2>4. Named(Start, name) = [Start EXCEPT !.resource_log = name]
    BY DEF Start, Named
  <2>5. [awaiting EXCEPT !.resource_log = name, !.awaits = Null] = [Start EXCEPT !.resource_log = name]
    <3>1. Start \in Args /\ Start.awaits = Null
      BY StartTyped DEF Start
    <3>2. \A a \in Args : a.awaits = Null =>
            [[a EXCEPT !.awaits = "resource_log"] EXCEPT !.resource_log = name, !.awaits = Null]
              = [a EXCEPT !.resource_log = name]
      BY DEF Args
    <3> QED BY <3>1, <3>2
  <2> QED BY <2>3, <2>4, <2>5
<1> HIDE DEF awaiting
<1>5. /\ g[0] = Start /\ g[1] = awaiting /\ g[2] = Named(Start, name)
      /\ \A k \in 0 .. n : g[k + 2] = Named(h[k], name)
  <2>1. 0 \in 0 .. n + 2 /\ 1 \in 0 .. n + 2 /\ 2 \in 0 .. n + 2
    BY <1>1
  <2>2. h[0] = Start
    BY <1>1 DEF Rounds
  <2>3. \A k \in 0 .. n : k + 2 \in 0 .. n + 2 /\ (k + 2) - 2 = k /\ k + 2 # 0 /\ k + 2 # 1
    BY <1>1
  <2>4. \A k \in 0 .. n : g[k + 2] = Named(h[k], name)
    BY <2>3
  <2>5. g[2] = Named(h[0], name)
    <3>1. 0 \in 0 .. n /\ 0 + 2 = 2
      BY <1>1
    <3> HIDE DEF g
    <3> QED BY <2>4, <3>1
  <2>6. g[0] = Start /\ g[1] = awaiting
    BY <2>1
  <2> HIDE DEF g
  <2> QED BY <2>2, <2>4, <2>5, <2>6
<1>6. g = [k \in 0 .. n + 2 |-> g[k]]
  OBVIOUS
<1> HIDE DEF g
<1>7. ASSUME NEW k \in 1 .. n + 2 PROVE g[k] = Step(g[k - 1], more[k], permutes)
  <2>1. CASE k = 1
    BY <1>2, <1>3, <1>5, <2>1
  <2>2. CASE k = 2
    BY <1>2, <1>4, <1>5, <2>2
  <2>3. CASE k # 1 /\ k # 2
    <3>1. PICK i \in 1 .. n : k = i + 2
      <4>1. k - 2 \in 1 .. n /\ k = (k - 2) + 2
        BY <1>1, <2>3
      <4> QED BY <4>1
    <3>2. i - 1 \in 0 .. n /\ i \in 0 .. n /\ k - 1 = (i - 1) + 2
      BY <1>1, <3>1
    <3>3. g[k] = Named(h[i], name) /\ g[k - 1] = Named(h[i - 1], name) /\ more[k] = words[i]
      BY <1>2, <1>5, <3>1, <3>2
    <3>4. h[i] = Step(h[i - 1], words[i], permutes)
      BY <1>1 DEF Rounds
    <3>5. h[i - 1] \in Args /\ words[i] \in STRING
      BY <1>1, <3>2 DEF n
    <3>6. Step(Named(h[i - 1], name), words[i], permutes) =
            Named(Step(h[i - 1], words[i], permutes), name)
      BY <3>5, NamedStep
    <3> QED BY <3>3, <3>4, <3>6
  <2> QED BY <2>1, <2>2, <2>3
<1>8. Rounds(more, permutes, n + 2, g)
  BY <1>5, <1>6, <1>7 DEF Rounds
<1>9. Loop(more, permutes) = g
  <2>1. Len(more) \in Nat /\ Rounds(more, permutes, Len(more), g)
    BY <1>1, <1>2, <1>8
  <2> QED BY <2>1, LoopIs
<1>10. g[n + 2] = Named(h[n], name)
  BY <1>1, <1>5
<1> QED BY <1>2, <1>9, <1>10 DEF WordsRead, more, h, n

LEMMA FirstWord ==
    ASSUME NEW words \in Seq(STRING), words # <<>>
    PROVE  words[1] \in STRING
<1>1. Len(words) \in Nat \ {0}
  BY EmptySeq
<1>2. 1 \in 1 .. Len(words)
  BY <1>1
<1> QED BY <1>2, ElementOfSeq

\* The operands are taken, and the arguments checked, all the same.
LEMMA NamedRuns ==
    ASSUME NEW a \in Args, NEW name \in STRING, name # "",
           Checked(TakeOperands(a)).outcome = "run"
    PROVE  Checked(TakeOperands(Named(a, name))) =
             [Checked(TakeOperands(a)) EXCEPT
                !.resource_log = IF a.resource_log = Null THEN name ELSE a.resource_log]
<1> DEFINE t == TakeOperands(a)
           u == TakeOperands(Named(a, name))
<1>0. name # Null
  BY CommandLineAssumption DEF CommandLineAssumption
<1>1. t.outcome = "run" /\ ~IsRefused(t)
  BY DEF Checked, TakeOperands, Args
<1>2. t.resource_log = a.resource_log
  BY DEF TakeOperands, Args
<1>3. u = Named(t, name)
  BY <1>1 DEF TakeOperands, Args, Named
<1>4. ~IsRefused(u)
  BY <1>0, <1>1, <1>3 DEF IsRefused, LogsAreNamed, Named, TakeOperands, Args
<1>5. Checked(t) = Located(t) /\ Checked(u) = Located(u)
  <2>1. u.outcome = t.outcome
    BY <1>3 DEF Named, TakeOperands, Args
  <2> QED BY <1>1, <1>4, <2>1 DEF Checked
<1>6. Located(u) = [Located(t) EXCEPT !.resource_log = u.resource_log]
  <2>1. t \in Args
    <3>1. t = a \/ (a.operands # <<>> /\ t = [a EXCEPT !.report_dir = a.operands[1]])
      BY <1>1 DEF TakeOperands, Args
    <3>2. a.operands # <<>> => a.operands[1] \in STRING
      <4>1. a.operands \in Seq(STRING)
        BY DEF Args
      <4> QED BY <4>1, FirstWord
    <3> HIDE DEF t
    <3> QED BY <3>1, <3>2 DEF Args
  <2>2. ASSUME NEW c \in Args
        PROVE  Located(Named(c, name)) =
                 [Located(c) EXCEPT !.resource_log = Named(c, name).resource_log]
    <3> DEFINE d == Named(c, name)
    <3>0. d \in Args
      BY NamedTyped
    <3>1. d.resource_log # Null /\ d = [c EXCEPT !.resource_log = d.resource_log]
      BY <1>0 DEF Named, Args
    <3> SUFFICES Located(d) = [Located(c) EXCEPT !.resource_log = d.resource_log]
      OBVIOUS
    <3> HIDE DEF d
    <3>2. d.call_log = c.call_log /\ d.report_dir = c.report_dir
      BY <3>1 DEF Args
    <3> DEFINE calls == IF c.call_log = Null THEN JoinPath(c.report_dir, "calls.log") ELSE c.call_log
               resources == IF c.resource_log = Null
                            THEN JoinPath(c.report_dir, "resources.log") ELSE c.resource_log
    <3>3. Located(d) = [d EXCEPT !.resource_log = d.resource_log, !.call_log = calls]
      BY <3>1, <3>2 DEF Located
    <3>4. Located(c) = [c EXCEPT !.resource_log = resources, !.call_log = calls]
      BY DEF Located
    <3>5. \A e \in Args : \A l, m, n :
            [[e EXCEPT !.resource_log = l] EXCEPT !.resource_log = l, !.call_log = n]
              = [[e EXCEPT !.resource_log = m, !.call_log = n] EXCEPT !.resource_log = l]
      BY ZenonT(30) DEF Args
    <3>6. [[c EXCEPT !.resource_log = d.resource_log] EXCEPT
              !.resource_log = d.resource_log, !.call_log = calls]
            = [[c EXCEPT !.resource_log = resources, !.call_log = calls] EXCEPT
                 !.resource_log = d.resource_log]
      BY <3>5
    <3> HIDE DEF calls, resources
    <3> QED BY <3>1, <3>3, <3>4, <3>6, Zenon
  <2> HIDE DEF t, u
  <2> QED BY <1>3, <2>1, <2>2
<1>7. u.resource_log = IF a.resource_log = Null THEN name ELSE a.resource_log
  BY <1>2, <1>3 DEF Named, TakeOperands, Args
<1> SUFFICES Checked(u) = [Checked(t) EXCEPT
                !.resource_log = IF a.resource_log = Null THEN name ELSE a.resource_log]
  OBVIOUS
<1> HIDE DEF t, u
<1> QED BY <1>5, <1>6, <1>7

\* The command line of a state is one of strings.
LEMMA WordsStep ==
    ASSUME argv \in Seq(Words), [Next]_vars
    PROVE  argv' \in Seq(Words)
<1>1. CASE Types
  BY <1>1 DEF Types, Type
<1>2. CASE Help \/ Refuse \/ StartFails \/ Accept
  <2>1. \A outcome : Comes(outcome) => argv' = <<>>
    BY DEF Comes
  <2>2. argv' = <<>>
    BY <1>2, <2>1 DEF Help, Refuse, StartFails, Accept
  <2> QED BY <2>2
<1>3. CASE Proceed
  BY <1>3 DEF Proceed, Read, Open, Close, TakeRefused, TakeSkipped, TakeReceipt, TakeSpoilt,
     TakeRecord, Takes, ReadFails, EndOfLog, LeaveLoop, Finish, Finalize, PrintReport, Keep
<1>4. CASE UNCHANGED vars
  BY <1>4 DEF vars
<1> QED BY <1>1, <1>2, <1>3, <1>4 DEF Next

LEMMA WordsAlways == Spec => [](argv \in Seq(Words))
<1>1. Init => argv \in Seq(Words)
  BY DEF Init
<1>2. argv \in Seq(Words) /\ [Next]_vars => (argv \in Seq(Words))'
  BY WordsStep
<1> QED BY <1>1, <1>2, PTL DEF Spec

LEMMA WordsAreStrings ==
    ASSUME NEW words \in Seq(Words)
    PROVE  words \in Seq(STRING)
<1>1. Words \subseteq STRING
  BY CommandLineAssumption DEF CommandLineAssumption
<1> QED BY <1>1, SeqMonotonic

LEMMA TwoMore ==
    ASSUME NEW words \in Seq(STRING), NEW w1, NEW w2, NEW w3
    PROVE  <<w1, w2>> \o words # <<w3>>
<1> DEFINE more == <<w1, w2>> \o words
<1>1. Len(more) = 2 + Len(words) /\ Len(words) \in Nat
  OBVIOUS
<1>2. Len(<<w3>>) = 1
  OBVIOUS
<1> SUFFICES more # <<w3>>
  OBVIOUS
<1> HIDE DEF more
<1> QED BY <1>1, <1>2

\* A command line that runs where options end at the first operand runs where they do
\* not, on the same logs, bundle and format (cli.c:37-145).
THEOREM PermutingIsHarmless == Spec => []PermutingOnlyAdmitsMore
<1>1. ASSUME argv \in Seq(Words) PROVE PermutingOnlyAdmitsMore
  <2>1. argv \in Seq(STRING)
    BY <1>1, WordsAreStrings
  <2>2. \A no \in BOOLEAN, yes \in BOOLEAN :
          (~no /\ yes /\ Arguments(argv, no).outcome = "run") =>
            /\ Arguments(argv, yes).outcome = "run"
            /\ Arguments(argv, yes).resource_log = Arguments(argv, no).resource_log
            /\ Arguments(argv, yes).call_log = Arguments(argv, no).call_log
            /\ Arguments(argv, yes).bundle_output_dir = Arguments(argv, no).bundle_output_dir
            /\ Arguments(argv, yes).format = Arguments(argv, no).format
    BY <2>1, PermutingOfWords
  <2> QED BY <2>2, Zenon DEF PermutingOnlyAdmitsMore, Runs
<1> QED BY <1>1, WordsAlways, PTL

\* A resource log named with -r in front of a command line that runs is what is read,
\* unless a later -r names another; nothing else of the run changes (cli.c:74-88,
\* 177-187).
THEOREM NamedLogsAreRead == Spec => []NamedLogIsRead
<1>1. ASSUME argv \in Seq(Words) PROVE NamedLogIsRead
  <2>1. SUFFICES ASSUME NEW permutes \in BOOLEAN, NEW word \in Words \ {""}, Runs(argv, permutes)
        PROVE  Arguments(<<"-r", word>> \o argv, permutes) =
                 [Arguments(argv, permutes) EXCEPT !.resource_log =
                    IF WordsRead(argv, permutes).resource_log = Null
                    THEN word ELSE WordsRead(argv, permutes).resource_log]
    BY DEF NamedLogIsRead
  <2> DEFINE a == WordsRead(argv, permutes)
             more == <<"-r", word>> \o argv
  <2>2. argv \in Seq(STRING) /\ word \in STRING /\ word # ""
    BY <1>1, WordsAreStrings, CommandLineAssumption DEF CommandLineAssumption
  <2>3. a \in Args /\ WordsRead(more, permutes) = Named(a, word)
    BY <2>2, LoopMeaning, NamedAtTheEnd
  <2>4. Arguments(argv, permutes) = Checked(TakeOperands(a))
        /\ Checked(TakeOperands(a)).outcome = "run"
    BY <2>1, RunMeaning DEF Runs
  <2>5. more # <<"--help">>
    BY <2>2, TwoMore
  <2>6. Arguments(more, permutes) = Checked(TakeOperands(WordsRead(more, permutes)))
    BY <2>5 DEF Arguments
  <2> HIDE DEF a, more
  <2>7. Checked(TakeOperands(Named(a, word))) =
          [Checked(TakeOperands(a)) EXCEPT
             !.resource_log = IF a.resource_log = Null THEN word ELSE a.resource_log]
    BY <2>2, <2>3, <2>4, NamedRuns
  <2>8. Arguments(more, permutes) =
          [Arguments(argv, permutes) EXCEPT
             !.resource_log = IF a.resource_log = Null THEN word ELSE a.resource_log]
    BY <2>3, <2>4, <2>6, <2>7
  <2> QED BY <2>8 DEF a, more
<1> QED BY <1>1, WordsAlways, PTL
=============================================================================
