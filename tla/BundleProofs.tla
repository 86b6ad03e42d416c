----------------------------- MODULE BundleProofs -----------------------------
(***************************************************************************)
(* Theorems about Bundle, for every directory, every length of the names   *)
(* and any calls failing, and about the strings of its JSON report, for    *)
(* texts of any length and any bytes.                                      *)
(*                                                                         *)
(* The four properties hold for one reason each, and each reason is a      *)
(* statement about every step of an artefact: which of its steps are only  *)
(* reached without an error (Staged), which paths are known to fit         *)
(* (PathsFit), which descriptors are open (FdsAccounted), whose text the   *)
(* buffer of stdout may hold (BufferIsOwn), what the run model's stream may *)
(* hold (StreamIsOwn), and what the files hold while no error is set       *)
(* (WholeSoFar).                                                           *)
(*                                                                         *)
(* That a string is read back follows its writing round by round: if the   *)
(* reader is inside of the string with the first n bytes read, what the    *)
(* next round writes leaves it there with n + 1.                           *)
(***************************************************************************)
EXTENDS Bundle, JsonStrings, SequenceTheorems, WellFoundedInduction, TLAPS

Steps ==
    {"enter", "join", "flush", "open", "save", "redirect", "release", "print", "drain",
     "restore", "discard", "leave", "fopen", "write", "fclose", "exit", "gone"}

Piece == (0 .. 4) \X (1 .. 2)

Typed ==
    /\ artefact \in Artefact /\ step \in Steps /\ prefix \in Nat
    /\ err \in BOOLEAN /\ output_fd \in BOOLEAN /\ saved_stdout \in BOOLEAN
    /\ strayed \in BOOLEAN /\ unheard \in BOOLEAN
    /\ stdout \in 0 .. 4
    /\ buffer \subseteq Piece /\ pending \subseteq Piece
    /\ content \in [0 .. 4 -> SUBSET Piece]

\* The steps of write_one after the path has been joined.
Redirecting ==
    {"flush", "open", "save", "redirect", "release", "print", "drain", "restore", "discard",
     "leave"}

Staged ==
    /\ step \in Redirecting => artefact # RunModel
    /\ step \in {"fopen", "write", "fclose", "exit", "gone"} => artefact = RunModel
    /\ step \in {"join", "flush", "save", "redirect", "print"} => ~err

PathsFit ==
    /\ ~err => \A a \in 1 .. artefact - 1 : Fits(a)
    /\ ~err /\ step \notin {"enter", "join"} => Fits(artefact)
    /\ step \in {"flush", "open", "fopen", "write", "fclose"} => Fits(artefact)

FdsAccounted ==
    /\ step \notin {"save", "redirect", "release", "restore", "discard", "leave"} => ~output_fd
    /\ step \notin {"redirect", "release", "print", "drain", "restore", "discard"}
         => ~saved_stdout
    /\ step \in {"redirect", "release", "print", "drain"} => saved_stdout
    /\ step = "print" => stdout = artefact
    /\ step \in {"release", "drain"} /\ ~err => stdout = artefact
    /\ step \notin {"release", "print", "drain", "restore"} => (stdout # Console => err)
    /\ step = "restore" /\ ~saved_stdout => (stdout # Console => err)

BufferIsOwn ==
    /\ stdout # Console => buffer \subseteq Text(stdout)
    /\ ~err /\ step # "drain" => buffer = {}

StreamIsOwn ==
    /\ pending \subseteq Text(RunModel)
    /\ unheard => step \in {"fclose", "exit", "gone"}

WholeSoFar == ~err =>
    /\ content[Console] = {}
    /\ \A a \in 1 .. artefact - 1 : content[a] = Text(a)
    /\ step \in {"save", "redirect", "release", "print", "write"} => content[artefact] = {}
    /\ step = "drain" => content[artefact] \cup buffer = Text(artefact)
    /\ step = "fclose" /\ ~unheard => content[artefact] \cup pending = Text(artefact)
    /\ step \in {"restore", "discard", "leave", "exit", "gone"} /\ ~unheard
         => content[artefact] = Text(artefact)

BundleInv == Typed /\ Staged /\ PathsFit /\ FdsAccounted /\ BufferIsOwn /\ StreamIsOwn

-----------------------------------------------------------------------------
(* The invariant, step by step.                                            *)

LEMMA OutcomesAreBooleans == \A ok \in Outcomes : ok \in BOOLEAN
BY BundleAssumption DEF BundleAssumption

LEMMA TextsArePieces ==
    \A a \in Artefact : Text(a) \in SUBSET Piece /\ a \in 0 .. 4 /\ File(a) = a
BY DEF Artefact, Text, Piece, File

\* What a flush makes of the buffer and of the file it goes to.
LEMMA FlushesWell ==
    ASSUME NEW ok \in BOOLEAN, Typed, Flushes(ok)
    PROVE  /\ content' \in [0 .. 4 -> SUBSET Piece]
           /\ buffer' \subseteq buffer
           /\ \A f \in 0 .. 4 : f # stdout => content'[f] = content[f]
           /\ content'[stdout] \subseteq content[stdout] \cup buffer
           /\ ok => buffer' = {} /\ content'[stdout] = content[stdout] \cup buffer
<1>1. PICK written \in SUBSET buffer :
        /\ content' = [content EXCEPT ![stdout] = @ \cup written]
        /\ ok => written = buffer
  BY DEF Flushes
<1>2. buffer' \subseteq buffer /\ (ok => buffer' = {})
  BY DEF Flushes
<1> QED BY <1>1, <1>2 DEF Typed

\* What is written to the run model's file.
LEMMA ReachesWell ==
    ASSUME Typed, NEW written, written \subseteq Piece, Reaches(written)
    PROVE  /\ content' \in [0 .. 4 -> SUBSET Piece]
           /\ \A f \in 0 .. 4 : f # artefact => content'[f] = content[f]
           /\ content'[artefact] \subseteq content[artefact] \cup written
           /\ Fits(artefact) => content'[artefact] = content[artefact] \cup written
BY TextsArePieces DEF Reaches, Typed

LEMMA CallIsTyped ==
    ASSUME Typed, NEW name, NEW ok, Call(name, ok)
    PROVE  err' \in BOOLEAN /\ prefix' \in Nat /\ step = name
BY DEF Call, Typed

LEMMA NextArtefactIsTyped ==
    ASSUME Typed, NextArtefact
    PROVE  artefact' \in Artefact /\ step' \in {"enter", "exit"}
BY DEF NextArtefact, Typed, Artefact, RunModel

LEMMA TypedStep ==
    ASSUME Typed, [Next]_vars
    PROVE  Typed'
<1> USE OutcomesAreBooleans
<1>1. ASSUME Flush \/ Drain PROVE Typed'
  <2>1. PICK ok \in Outcomes : Flushes(ok)
    BY <1>1 DEF Flush, Drain, Drains
  <2>2. content' \in [0 .. 4 -> SUBSET Piece] /\ buffer' \subseteq Piece
    BY <2>1, FlushesWell DEF Typed
  <2> QED BY <1>1, <2>2 DEF Flush, Drain, Call, Then, Typed, Steps, fds, stream
<1>2. CASE Exit
  <2>1. content' \in [0 .. 4 -> SUBSET Piece] /\ buffer' \subseteq Piece
    BY <1>2, FlushesWell DEF Typed, Exit
  <2> QED BY <1>2, <2>1 DEF Exit, Call, Then, Typed, Steps, fds, stream
<1>3. CASE Enter \/ Join
  <2>1. err' \in BOOLEAN /\ prefix' \in Nat
    BY <1>3, CallIsTyped DEF Enter, Join
  <2>2. artefact' \in Artefact /\ step' \in Steps
    BY <1>3, NextArtefactIsTyped DEF Enter, Join, Then, ThenUnlessErr, Typed, Steps
  <2> QED BY <1>3, <2>1, <2>2 DEF Enter, Join, Typed, fds, data, stream
<1>4. CASE Open \/ Fopen
  BY <1>4, TextsArePieces DEF Open, Fopen, Call, Then, ThenUnlessErr, Truncates, Typed, Steps, fds,
                               stream
<1>5. CASE Save \/ Release \/ Restore \/ Discard
  <2>1. err' \in BOOLEAN /\ prefix' \in Nat
    BY <1>5, CallIsTyped DEF Save, Release, Restore, Discard
  <2>2. artefact' \in Artefact /\ step' \in Steps
    BY <1>5 DEF Save, Release, Restore, Discard, Then, ThenUnlessErr, Typed, Steps
  <2>3. stdout' \in 0 .. 4 /\ output_fd' \in BOOLEAN /\ saved_stdout' \in BOOLEAN
    <3>1. CASE Save \/ Release
      BY <1>5, <3>1 DEF Save, Release, Typed
    <3>2. CASE Restore \/ Discard
      <4>1. stdout' \in {Console, stdout}
        BY <3>2 DEF Restore, Discard
      <4>2. saved_stdout' \in BOOLEAN /\ output_fd' \in BOOLEAN
        BY <3>2, Zenon DEF Restore, Discard, Typed
      <4> QED BY <4>1, <4>2 DEF Typed, Console
    <3> QED BY <1>5, <3>1, <3>2
  <2> QED BY <1>5, <2>1, <2>2, <2>3 DEF Save, Release, Restore, Discard, Typed, data, stream
<1>6. CASE Redirect
  BY <1>6, TextsArePieces DEF Redirect, Call, Then, Typed, Steps, data, stream
<1>7. CASE PrintReport
  <2>1. PICK produced \in SUBSET Text(artefact) : \E written \in SUBSET produced :
          /\ content' = [content EXCEPT ![stdout] = @ \cup written]
          /\ buffer' = buffer \cup (produced \ written)
    BY <1>7 DEF PrintReport
  <2>3. PICK written \in SUBSET produced :
          /\ content' = [content EXCEPT ![stdout] = @ \cup written]
          /\ buffer' = buffer \cup (produced \ written)
    BY <2>1
  <2>2. produced \subseteq Piece
    BY TextsArePieces DEF Typed
  <2> QED BY <1>7, <2>2, <2>3 DEF PrintReport, Call, Then, Typed, Steps, fds, stream
<1>8. CASE Leave
  <2>1. err' \in BOOLEAN /\ prefix' \in Nat /\ artefact' \in Artefact /\ step' \in Steps
    BY <1>8, CallIsTyped, NextArtefactIsTyped DEF Leave, Steps
  <2> QED BY <1>8, <2>1 DEF Leave, ClosesOutput, Typed, data, stream
<1>9. CASE WriteModel
  <2>1. PICK produced \in SUBSET Text(artefact) : \E written \in SUBSET produced :
          Reaches(written) /\ pending' = produced \ written
    BY <1>9 DEF WriteModel
  <2>2. PICK written \in SUBSET produced : Reaches(written) /\ pending' = produced \ written
    BY <2>1
  <2>3. written \subseteq Piece /\ pending' \subseteq Piece
    BY <2>2, TextsArePieces DEF Typed
  <2>4. content' \in [0 .. 4 -> SUBSET Piece]
    BY <2>2, <2>3, ReachesWell
  <2>5. unheard' \in BOOLEAN
    BY <1>9 DEF WriteModel
  <2> QED BY <1>9, <2>3, <2>4, <2>5 DEF WriteModel, Call, Then, Typed, Steps, fds
<1>11. CASE Fclose
  <2>1. PICK written \in SUBSET pending : Reaches(written)
    BY <1>11 DEF Fclose
  <2>2. written \subseteq Piece
    BY <2>1 DEF Typed
  <2>3. content' \in [0 .. 4 -> SUBSET Piece]
    BY <2>1, <2>2, ReachesWell
  <2> QED BY <1>11, <2>3 DEF Fclose, Call, Then, Typed, Steps, fds
<1>10. CASE UNCHANGED vars
  BY <1>10 DEF Typed, vars, fds, data, stream
<1> QED BY <1>1, <1>2, <1>3, <1>4, <1>5, <1>6, <1>7, <1>8, <1>9, <1>10, <1>11 DEF Next

LEMMA StagedStep ==
    ASSUME Typed, Staged, [Next]_vars
    PROVE  Staged'
<1> USE OutcomesAreBooleans DEF Typed, Staged, Call, Then, ThenUnlessErr, NextArtefact, RunModel,
                                Redirecting, Artefact, Skips
<1>1. CASE Enter \/ Join
  BY <1>1 DEF Enter, Join
<1>2. CASE Flush \/ Open \/ Save \/ Redirect \/ Release
  BY <1>2 DEF Flush, Open, Save, Redirect, Release
<1>3. CASE PrintReport \/ Drain \/ Restore \/ Discard \/ Leave
  BY <1>3 DEF PrintReport, Drain, Restore, Discard, Leave
<1>4. CASE Fopen \/ WriteModel \/ Fclose \/ Exit
  BY <1>4 DEF Fopen, WriteModel, Fclose, Exit
<1>5. CASE UNCHANGED vars
  BY <1>5 DEF vars
<1> QED BY <1>1, <1>2, <1>3, <1>4, <1>5 DEF Next

LEMMA PathsStep ==
    ASSUME BundleAssumption, Typed, Staged, PathsFit, [Next]_vars
    PROVE  PathsFit'
<1> USE OutcomesAreBooleans DEF Typed, PathsFit, Call, Then, ThenUnlessErr, RunModel, Artefact
<1>0. UNCHANGED prefix => \A a : Fits(a)' <=> Fits(a)
  BY DEF Fits
<1>1. CASE Enter
  BY <1>0, <1>1 DEF Enter, NextArtefact, Skips, Staged, Redirecting
<1>2. CASE Join
  <2>1. artefact = RunModel => Fits(artefact)
    <3>1. ~err /\ \A a \in 1 .. artefact - 1 : Fits(a)
      BY <1>2 DEF Join, Staged
    <3>2. PICK a \in 1 .. 3 : Leaf[RunModel] <= Leaf[a]
      BY DEF BundleAssumption
    <3>3. Leaf[RunModel] \in Nat /\ Leaf[a] \in Nat /\ PathMax \in Nat /\ prefix \in Nat
      BY DEF BundleAssumption
    <3> QED BY <3>1, <3>2, <3>3 DEF Fits
  <2> QED BY <1>0, <1>2, <2>1 DEF Join
<1>3. CASE Flush \/ Open \/ Save \/ Redirect \/ Release
  BY <1>0, <1>3 DEF Flush, Open, Save, Redirect, Release
<1>4. CASE PrintReport \/ Drain \/ Restore \/ Discard
  BY <1>0, <1>4 DEF PrintReport, Drain, Restore, Discard
<1>5. CASE Leave
  BY <1>0, <1>5 DEF Leave, NextArtefact, Staged, Redirecting
<1>6. CASE Fopen \/ WriteModel \/ Fclose \/ Exit
  BY <1>0, <1>6 DEF Fopen, WriteModel, Fclose, Exit
<1>7. CASE UNCHANGED vars
  BY <1>0, <1>7 DEF vars
<1> QED BY <1>1, <1>2, <1>3, <1>4, <1>5, <1>6, <1>7 DEF Next

LEMMA FdsStep ==
    ASSUME Typed, Staged, FdsAccounted, [Next]_vars
    PROVE  FdsAccounted'
<1> USE OutcomesAreBooleans DEF Typed, FdsAccounted, Call, Then, ThenUnlessErr, Console, File
<1>1. CASE Enter \/ Join
  BY <1>1 DEF Enter, Join, NextArtefact, fds
<1>2. CASE Flush \/ Open
  BY <1>2 DEF Flush, Open, Staged, fds
<1>3. CASE Save
  <2>1. PICK ok \in BOOLEAN : saved_stdout' = ok /\ err' = (err \/ ~ok)
    BY <1>3 DEF Save
  <2>2. ~err /\ step = "save" /\ step' = IF err' THEN "restore" ELSE "redirect"
    BY <1>3 DEF Save, Staged
  <2>3. UNCHANGED <<stdout, output_fd, artefact>>
    BY <1>3 DEF Save
  <2>4. stdout = Console
    BY <2>2
  <2>5. CASE ok
    BY <2>1, <2>2, <2>3, <2>4, <2>5
  <2>6. CASE ~ok
    BY <2>1, <2>2, <2>3, <2>4, <2>6
  <2> QED BY <2>5, <2>6
<1>9. CASE Redirect
  <2>1. PICK ok \in BOOLEAN :
          stdout' = (IF ok THEN artefact ELSE stdout) /\ err' = (err \/ ~ok)
    BY <1>9 DEF Redirect
  <2>2. ~err /\ step = "redirect" /\ step' = "release"
    BY <1>9 DEF Redirect, Staged
  <2>3. UNCHANGED <<saved_stdout, output_fd, artefact>>
    BY <1>9 DEF Redirect
  <2>5. CASE ok
    BY <2>1, <2>2, <2>3, <2>5
  <2>6. CASE ~ok
    BY <2>1, <2>2, <2>3, <2>6
  <2> QED BY <2>5, <2>6
<1>10. CASE Release
  BY <1>10 DEF Release, Staged
<1>4. CASE PrintReport \/ Drain
  BY <1>4 DEF PrintReport, Drain, fds
<1>5. CASE Restore \/ Discard
  BY <1>5 DEF Restore, Discard
<1>6. CASE Leave
  BY <1>6 DEF Leave, NextArtefact, ClosesOutput
<1>7. CASE Fopen
  BY <1>7 DEF Fopen, fds
<1>11. CASE WriteModel \/ Fclose \/ Exit
  <2>1. /\ step \in {"write", "fclose", "exit"} /\ step' \in {"fclose", "exit", "gone"}
        /\ (err => err') /\ UNCHANGED <<output_fd, saved_stdout, stdout, artefact>>
    BY <1>11 DEF WriteModel, Fclose, Exit, fds
  <2> QED BY <2>1
<1>8. CASE UNCHANGED vars
  BY <1>8 DEF vars, fds
<1> QED BY <1>1, <1>2, <1>3, <1>4, <1>5, <1>6, <1>7, <1>8, <1>9, <1>10, <1>11 DEF Next

LEMMA BufferStep ==
    ASSUME Typed, Staged, FdsAccounted, BufferIsOwn, [Next]_vars
    PROVE  BufferIsOwn'
<1> USE OutcomesAreBooleans DEF BufferIsOwn, Call, Then, ThenUnlessErr
<1>1. CASE Flush \/ Drain \/ Exit
  <2>1. PICK ok \in BOOLEAN : Flushes(ok) /\ err' = (err \/ ~ok)
    BY <1>1 DEF Flush, Drain, Drains, Exit
  <2>2. buffer' \subseteq buffer /\ (ok => buffer' = {})
    BY <2>1, FlushesWell
  <2> QED BY <1>1, <2>1, <2>2 DEF Flush, Drain, Exit, fds, Typed
<1>2. CASE Enter \/ Join \/ Leave
  BY <1>2 DEF Enter, Join, Leave, NextArtefact, fds, data, Typed
<1>3. CASE Open \/ Save \/ Release \/ Discard \/ Fopen \/ WriteModel \/ Fclose
  BY <1>3 DEF Open, Save, Release, Discard, Fopen, WriteModel, Fclose, fds, data, Typed
<1>4. CASE Redirect
  BY <1>4 DEF Redirect, Staged, data, Typed
<1>5. CASE Restore
  BY <1>5 DEF Restore, data, Typed, Console
<1>6. CASE PrintReport
  <2>1. ~err /\ step = "print" /\ stdout = artefact
    BY <1>6 DEF PrintReport, Staged, FdsAccounted
  <2>2. buffer' \subseteq Text(artefact)
    <3>1. PICK produced \in SUBSET Text(artefact) : \E written \in SUBSET produced :
            buffer' = buffer \cup (produced \ written)
      BY <1>6 DEF PrintReport
    <3> QED BY <2>1, <3>1
  <2> QED BY <1>6, <2>1, <2>2 DEF PrintReport, fds
<1>7. CASE UNCHANGED vars
  BY <1>7 DEF vars, fds, data
<1> QED BY <1>1, <1>2, <1>3, <1>4, <1>5, <1>6, <1>7 DEF Next

LEMMA StreamStep ==
    ASSUME Typed, Staged, StreamIsOwn, [Next]_vars
    PROVE  StreamIsOwn'
<1> USE DEF StreamIsOwn, Call, Then
<1>1. CASE Enter \/ Join \/ Flush \/ Open \/ Save \/ Redirect \/ Release \/ PrintReport
           \/ Drain \/ Restore \/ Discard \/ Leave \/ Fopen
  <2>1. step \notin {"fclose", "exit", "gone"} /\ UNCHANGED stream
    BY <1>1 DEF Enter, Join, Flush, Open, Save, Redirect, Release, PrintReport, Drain, Restore,
                Discard, Leave, Fopen, data
  <2> QED BY <2>1 DEF stream, Text
<1>2. CASE WriteModel
  <2>1. step' = "fclose" /\ artefact = RunModel
    BY <1>2 DEF WriteModel, Staged
  <2>2. pending' \subseteq Text(RunModel)
    <3>1. PICK produced \in SUBSET Text(artefact) : \E written \in SUBSET produced :
            pending' = produced \ written
      BY <1>2 DEF WriteModel
    <3> QED BY <2>1, <3>1
  <2> QED BY <2>1, <2>2 DEF Text
<1>3. CASE Fclose
  <2>1. step' = "exit" /\ pending' = {}
    BY <1>3 DEF Fclose
  <2> QED BY <2>1
<1>4. CASE Exit
  <2>1. step' = "gone" /\ UNCHANGED stream
    BY <1>4 DEF Exit
  <2> QED BY <2>1 DEF stream, Text
<1>5. CASE UNCHANGED vars
  BY <1>5 DEF vars, data, stream, Text
<1> QED BY <1>1, <1>2, <1>3, <1>4, <1>5 DEF Next

LEMMA WholeStep ==
    ASSUME BundleInv, WholeSoFar, [Next]_vars
    PROVE  WholeSoFar'
<1>0. SUFFICES ASSUME ~err' PROVE WholeSoFar'
  BY DEF WholeSoFar
<1> USE OutcomesAreBooleans
    DEF BundleInv, WholeSoFar, Typed, Console, Call, Then, ThenUnlessErr, Artefact
<1>1. ASSUME UNCHANGED <<content, buffer, stream>>, ~err,
             \/ UNCHANGED artefact /\ step' \in {"join", "flush", "open", "fopen"}
             \/ UNCHANGED artefact /\ step' = step
             \/ UNCHANGED artefact /\ step \in {"save", "redirect", "release"}
                                   /\ step' \in {"redirect", "release", "print"}
             \/ UNCHANGED artefact /\ step \in {"restore", "discard", "exit"}
                                   /\ step' \in {"discard", "leave", "gone"}
             \/ step = "leave" /\ step' = "enter" /\ artefact' = artefact + 1
      PROVE  WholeSoFar'
  BY <1>1 DEF stream, StreamIsOwn
<1>2. CASE Enter \/ Join
  <2>1. ~err
    BY <1>0, <1>2 DEF Enter, Join
  <2> QED BY <1>0, <1>1, <1>2, <2>1 DEF Enter, Join, Skips, data
<1>3. CASE Flush
  <2>1. PICK ok \in BOOLEAN : Flushes(ok) /\ err' = (err \/ ~ok)
    BY <1>3 DEF Flush
  <2>2. ~err /\ ok /\ stdout = Console /\ buffer = {} /\ step = "flush"
    BY <1>0, <1>3, <2>1 DEF Flush, FdsAccounted, BufferIsOwn
  <2>3. content' = content /\ buffer' = buffer /\ UNCHANGED stream
    BY <1>3, <2>1, <2>2 DEF Flush, Flushes
  <2> QED BY <1>1, <1>3, <2>2, <2>3 DEF Flush
<1>4. CASE Save \/ Redirect \/ Release \/ Restore \/ Discard
  <2>1. ~err /\ UNCHANGED <<content, buffer, stream, artefact>>
    BY <1>0, <1>4 DEF Save, Redirect, Release, Restore, Discard, data
  <2>2. \/ step \in {"save", "redirect", "release"} /\ step' \in {"redirect", "release", "print"}
        \/ step \in {"restore", "discard"} /\ step' \in {"discard", "leave"}
    BY <1>0, <1>4 DEF Save, Redirect, Release, Restore, Discard
  <2> QED BY <1>1, <2>1, <2>2
<1>5. CASE Leave
  <2>1. ~err /\ UNCHANGED <<content, buffer, stream>> /\ step = "leave"
    BY <1>0, <1>5 DEF Leave, data
  <2>2. step' = "enter" /\ artefact' = artefact + 1
    BY <1>5, <2>1 DEF Leave, NextArtefact, Staged, Redirecting
  <2> QED BY <1>1, <2>1, <2>2
<1>6. CASE Open \/ Fopen
  <2>1. ~err /\ step' \in {"save", "write"} /\ UNCHANGED <<artefact, buffer>>
    BY <1>0, <1>6 DEF Open, Fopen
  <2>2. content' = [content EXCEPT ![artefact] = {}]
    BY <1>0, <1>6 DEF Open, Fopen, Truncates, File, PathsFit
  <2>3. /\ content'[0] = content[0] /\ content'[artefact] = {}
        /\ \A a \in 1 .. artefact - 1 : content'[a] = content[a]
    BY <2>2
  <2> QED BY <2>1, <2>3
<1>7. CASE PrintReport
  <2>1. /\ ~err /\ step = "print" /\ step' = "drain" /\ UNCHANGED artefact
        /\ stdout = artefact /\ buffer = {} /\ content[artefact] = {}
    BY <1>0, <1>7 DEF PrintReport, FdsAccounted, BufferIsOwn
  <2>2. PICK written \in SUBSET Text(artefact) :
          /\ content' = [content EXCEPT ![stdout] = @ \cup written]
          /\ buffer' = buffer \cup (Text(artefact) \ written)
    BY <1>0, <1>7 DEF PrintReport
  <2>3. /\ content'[0] = content[0] /\ content'[artefact] = written
        /\ \A a \in 1 .. artefact - 1 : content'[a] = content[a]
    BY <2>1, <2>2
  <2> QED BY <2>1, <2>2, <2>3
<1>8. CASE Drain
  <2>1. PICK ok \in BOOLEAN : Flushes(ok) /\ err' = (err \/ ~ok)
    BY <1>8 DEF Drain, Drains
  <2>2. ~err /\ ok /\ step = "drain" /\ step' = "restore" /\ UNCHANGED artefact /\ stdout = artefact
    BY <1>0, <1>8, <2>1 DEF Drain, FdsAccounted
  <2>3. /\ content'[artefact] = content[artefact] \cup buffer
        /\ \A f \in 0 .. 4 : f # artefact => content'[f] = content[f]
    BY <2>1, <2>2, FlushesWell
  <2> QED BY <2>2, <2>3
<1>9. CASE WriteModel \/ Fclose
  <2>1. /\ ~err /\ step \in {"write", "fclose"} /\ UNCHANGED artefact
        /\ Fits(artefact)
        /\ step' = IF step = "write" THEN "fclose" ELSE "exit"
    BY <1>0, <1>9, TextsArePieces DEF WriteModel, Fclose, PathsFit
  <2>2. ASSUME NEW written, written \subseteq Piece, Reaches(written)
        PROVE  /\ content'[0] = content[0]
               /\ content'[artefact] = content[artefact] \cup written
               /\ \A a \in 1 .. artefact - 1 : content'[a] = content[a]
    <3>1. artefact # 0
      OBVIOUS
    <3> QED BY <2>1, <2>2, <3>1, ReachesWell
  <2>3. CASE WriteModel
    <3>1. PICK ok \in BOOLEAN, told \in BOOLEAN :
            /\ unheard' = (~ok /\ ~told)
            /\ err' = (err \/ ~(ok \/ ~told))
            /\ \E produced \in IF ok THEN {Text(artefact)} ELSE SUBSET Text(artefact) :
               \E written \in SUBSET produced :
                 Reaches(written) /\ pending' = produced \ written
      BY <2>3 DEF WriteModel
    <3>2. PICK produced \in IF ok THEN {Text(artefact)} ELSE SUBSET Text(artefact) :
            \E written \in SUBSET produced : Reaches(written) /\ pending' = produced \ written
      BY <3>1
    <3>3. PICK written \in SUBSET produced : Reaches(written) /\ pending' = produced \ written
      BY <3>2
    <3>4. produced \subseteq Text(artefact) /\ written \subseteq Piece
      BY <3>2, <3>3, TextsArePieces
    <3>5. ~unheard' => produced = Text(artefact)
      BY <1>0, <3>1, <3>2
    <3>6. step = "write" /\ step' = "fclose" /\ content[artefact] = {}
      BY <2>1, <2>3 DEF WriteModel
    <3> QED BY <2>1, <2>2, <3>3, <3>4, <3>5, <3>6
  <2>4. CASE Fclose
    <3>1. Reaches(pending) /\ UNCHANGED unheard /\ step = "fclose" /\ step' = "exit"
      BY <1>0, <2>1, <2>4 DEF Fclose
    <3>2. /\ content'[0] = content[0]
          /\ content'[artefact] = content[artefact] \cup pending
          /\ \A a \in 1 .. artefact - 1 : content'[a] = content[a]
      BY <2>2, <3>1
    <3> QED BY <2>1, <3>1, <3>2
  <2> QED BY <1>9, <2>3, <2>4
<1>10. CASE Exit
  <2>1. ~err /\ step = "exit" /\ step' = "gone" /\ UNCHANGED artefact /\ stdout = 0 /\ buffer = {}
    BY <1>0, <1>10 DEF Exit, FdsAccounted, BufferIsOwn
  <2>2. content' = content /\ buffer' = buffer /\ UNCHANGED stream
    BY <1>10, <2>1 DEF Exit, Flushes
  <2> QED BY <1>1, <2>1, <2>2
<1>11. CASE UNCHANGED vars
  BY <1>0, <1>1, <1>11 DEF vars, data
<1> QED BY <1>2, <1>3, <1>4, <1>5, <1>6, <1>7, <1>8, <1>9, <1>10, <1>11 DEF Next

LEMMA BundleInvInit == BundleAssumption /\ Init => BundleInv /\ WholeSoFar
<1>1. BundleAssumption /\ Init => Typed
  <2>1. SUFFICES ASSUME BundleAssumption, Init PROVE Typed
    OBVIOUS
  <2>2. content \in [0 .. 4 -> SUBSET Piece]
    <3>1. PICK reused \in SUBSET Artefact :
            content = [f \in 0 .. 4 |-> IF f \in reused THEN Old ELSE {}]
      BY <2>1 DEF Init
    <3>2. Old \in SUBSET Piece
      BY DEF Old, Piece
    <3> QED BY <3>1, <3>2
  <2>3. artefact \in Artefact /\ step \in Steps /\ stdout \in 0 .. 4 /\ buffer \subseteq Piece
    BY <2>1 DEF Init, Artefact, Steps, Console
  <2>4. prefix \in Nat
    BY <2>1 DEF Init, BundleAssumption
  <2>5. /\ err \in BOOLEAN /\ output_fd \in BOOLEAN /\ saved_stdout \in BOOLEAN /\ strayed \in BOOLEAN
        /\ unheard \in BOOLEAN /\ pending \subseteq Piece
    BY <2>1 DEF Init
  <2> QED BY <2>2, <2>3, <2>4, <2>5 DEF Typed
<1>2. Init => Staged /\ PathsFit /\ FdsAccounted /\ BufferIsOwn /\ StreamIsOwn
  BY DEF Init, Staged, PathsFit, FdsAccounted, BufferIsOwn, StreamIsOwn, Redirecting, Console
<1>3. Init => WholeSoFar
  BY DEF Init, WholeSoFar, Console, Artefact
<1> QED BY <1>1, <1>2, <1>3 DEF BundleInv

LEMMA BundleInvStep ==
    ASSUME BundleAssumption, BundleInv, [Next]_vars
    PROVE  BundleInv'
BY TypedStep, StagedStep, PathsStep, FdsStep, BufferStep, StreamStep DEF BundleInv

LEMMA BundleInvHolds == Spec => []BundleInv
<1>1. Init => BundleInv
  BY BundleAssumption, BundleInvInit
<1>2. BundleInv /\ [Next]_vars => BundleInv'
  BY BundleAssumption, BundleInvStep
<1> QED BY <1>1, <1>2, PTL DEF Spec

-----------------------------------------------------------------------------
(* The properties.                                                         *)

\* A bundle that leaves no error is whole: every file holds its own report from
\* the first piece to the last and nothing older, and the console got nothing; a run
\* model the library could not write in silence is the one exception.
THEOREM BundlesAreWhole == Spec => []BundleIsWhole
<1>1. Init => BundleInv /\ WholeSoFar
  BY BundleAssumption, BundleInvInit
<1>2. BundleInv /\ WholeSoFar /\ [Next]_vars => (BundleInv /\ WholeSoFar)'
  BY BundleAssumption, BundleInvStep, WholeStep
<1>3. BundleInv /\ WholeSoFar => BundleIsWhole
  <2>1. SUFFICES ASSUME BundleInv, WholeSoFar, step = "gone", ~err
                 PROVE  /\ \A a \in Artefact : content[a] = Text(a) \/ (a = RunModel /\ unheard)
                        /\ content[Console] = {}
    BY DEF BundleIsWhole
  <2>2. artefact = 4
    BY <2>1 DEF BundleInv, Staged, RunModel
  <2> QED BY <2>1, <2>2 DEF WholeSoFar, Artefact, RunModel
<1> QED BY <1>1, <1>2, <1>3, PTL DEF Spec

\* The descriptors an artefact takes are given back on every path through it,
\* and only an error leaves stdout on a file.
THEOREM DescriptorsComeBack == Spec => []DescriptorsAreReturned
<1>1. BundleInv => DescriptorsAreReturned
  BY DEF BundleInv, FdsAccounted, DescriptorsAreReturned
<1> QED BY <1>1, BundleInvHolds, PTL

\* What a flush adds to the file behind stdout is that file's own report.
LEMMA OwnFlush ==
    ASSUME BundleInv, EachReportToItsFile, NEW ok \in BOOLEAN, Flushes(ok)
    PROVE  EachReportToItsFile'
<1>1. Typed /\ BufferIsOwn
  BY DEF BundleInv
<1>2. /\ \A f \in 0 .. 4 : f # stdout => content'[f] = content[f]
      /\ content'[stdout] \subseteq content[stdout] \cup buffer
  BY <1>1, FlushesWell
<1>3. ASSUME NEW a \in Artefact PROVE content'[a] \subseteq Text(a) \cup Old
  <2>1. a \in 0 .. 4 /\ a # Console
    BY DEF Artefact, Console
  <2>2. CASE a = stdout
    BY <1>1, <1>2, <2>1, <2>2 DEF EachReportToItsFile, BufferIsOwn
  <2>3. CASE a # stdout
    BY <1>2, <2>1, <2>3 DEF EachReportToItsFile
  <2> QED BY <2>2, <2>3
<1> QED BY <1>3 DEF EachReportToItsFile, Text, Old

LEMMA OwnWrite ==
    ASSUME Typed, EachReportToItsFile, NEW a \in Artefact, NEW new, new \subseteq Text(a),
           NEW kept, kept \subseteq content[a],
           content' = [content EXCEPT ![a] = kept \cup new]
    PROVE  EachReportToItsFile'
<1>1. \A f \in Artefact : content'[f] = IF f = a THEN kept \cup new ELSE content[f]
  BY DEF Typed, Artefact
<1> QED BY <1>1 DEF EachReportToItsFile, Text, Old

\* No file ever receives a piece of another file's report, whatever fails and
\* whatever is left in the buffer.
THEOREM ReportsKeepApart == Spec => []EachReportToItsFile
<1>1. Init => EachReportToItsFile
  BY DEF Init, EachReportToItsFile, Artefact
<1>2. BundleInv /\ EachReportToItsFile /\ [Next]_vars => EachReportToItsFile'
  <2> SUFFICES ASSUME BundleInv, EachReportToItsFile, [Next]_vars PROVE EachReportToItsFile'
    OBVIOUS
  <2>0. Typed /\ BufferIsOwn /\ artefact \in Artefact
    BY DEF BundleInv, Typed
  <2>1. CASE Flush \/ Drain \/ Exit
    <3>1. PICK ok \in BOOLEAN : Flushes(ok)
      BY <2>1, OutcomesAreBooleans DEF Flush, Drain, Drains, Exit
    <3> QED BY <3>1, OwnFlush
  <2>2. CASE Open \/ Fopen
    <3>1. CASE content' = content
      BY <3>1 DEF EachReportToItsFile
    <3>2. CASE content' = [content EXCEPT ![artefact] = {}]
      <4>1. content' = [content EXCEPT ![artefact] = {} \cup {}]
        BY <3>2
      <4> QED BY <2>0, <4>1, OwnWrite
    <3>3. content' = content \/ content' = [content EXCEPT ![artefact] = {}]
      BY <2>2 DEF Open, Fopen, Truncates, File
    <3> QED BY <3>1, <3>2, <3>3
  <2>3. CASE PrintReport
    <3>1. stdout = artefact
      BY <2>3 DEF PrintReport, Call, BundleInv, FdsAccounted
    <3>2. PICK written \in SUBSET Text(artefact) :
            content' = [content EXCEPT ![artefact] = content[artefact] \cup written]
      BY <2>3, <3>1 DEF PrintReport
    <3> QED BY <2>0, <3>2, OwnWrite
  <2>4. CASE WriteModel \/ Fclose
    <3>1. artefact = RunModel /\ pending \subseteq Text(RunModel)
      BY <2>4 DEF WriteModel, Fclose, Call, BundleInv, Staged, StreamIsOwn
    <3>2. PICK written : written \subseteq Text(artefact) /\ Reaches(written)
      BY <2>4, <3>1 DEF WriteModel, Fclose
    <3>3. content' = IF Fits(artefact)
                       THEN [content EXCEPT ![artefact] = content[artefact] \cup written]
                       ELSE content
      BY <3>2 DEF Reaches, File
    <3>4. CASE Fits(artefact)
      BY <2>0, <3>2, <3>3, <3>4, OwnWrite
    <3>5. CASE ~Fits(artefact)
      BY <3>3, <3>5 DEF EachReportToItsFile
    <3> QED BY <3>4, <3>5
  <2>5. CASE Enter \/ Join \/ Save \/ Redirect \/ Release \/ Restore \/ Discard \/ Leave
    <3>1. content' = content
      BY <2>5 DEF Enter, Join, Save, Redirect, Release, Restore, Discard, Leave, data
    <3> QED BY <3>1 DEF EachReportToItsFile
  <2>6. CASE UNCHANGED vars
    BY <2>6 DEF vars, data, EachReportToItsFile
  <2> QED BY <2>1, <2>2, <2>3, <2>4, <2>5, <2>6 DEF Next
<1> QED BY <1>1, <1>2, BundleInvHolds, PTL DEF Spec

\* The run model's path is opened unconditionally, yet never when it did not
\* fit: by then a longer one would have, and its failure has ended the bundle.
THEOREM NoPathStrays == Spec => []NoStrayPath
<1>1. Init => NoStrayPath
  BY DEF Init, NoStrayPath
<1>2. BundleInv /\ NoStrayPath /\ [Next]_vars => NoStrayPath'
  <2> SUFFICES ASSUME BundleInv, NoStrayPath, [Next]_vars PROVE NoStrayPath'
    OBVIOUS
  <2>1. CASE Open \/ Fopen
    <3>1. Fits(artefact)
      BY <2>1 DEF Open, Fopen, Call, BundleInv, PathsFit
    <3> QED BY <2>1, <3>1 DEF Open, Fopen, NoStrayPath
  <2>2. CASE ~(Open \/ Fopen)
    <3>1. strayed' = strayed
      BY <2>2 DEF Next, Enter, Join, Flush, Save, Redirect, Release, PrintReport, Drain, Restore,
                  Discard, Leave, WriteModel, Fclose, Exit, data, vars
    <3> QED BY <3>1 DEF NoStrayPath
  <2> QED BY <2>1, <2>2
<1> QED BY <1>1, <1>2, BundleInvHolds, PTL DEF Spec
-----------------------------------------------------------------------------
(* The strings of the JSON report.  Writing and reading are recursive      *)
(* functions; that there are such functions is shown from their finite     *)
(* beginnings.                                                             *)

LEMMA LeastExists ==
    ASSUME NEW S, S \subseteq Nat, S # {}
    PROVE  \E i \in S : \A j \in S : i <= j
<1> DEFINE R == {ss \in Nat \X Nat : ss[1] < ss[2]}
<1>1. \E i \in S : \A j \in S : ~(<<j, i>> \in R)
  <2>1. IsWellFoundedOn(R, Nat)
    BY NatLessThanWellFounded DEF OpToRel
  <2> HIDE DEF R
  <2> QED BY <2>1, WFMin
<1>2. PICK i \in S : \A j \in S : ~(<<j, i>> \in R)
  BY <1>1
<1>3. ASSUME NEW j \in S PROVE i <= j
  <2>1. i \in Nat /\ j \in Nat /\ ~(<<j, i>> \in R)
    BY <1>2
  <2> QED BY <2>1
<1> QED BY <1>3

LEMMA Beginning ==
    ASSUME NEW S, NEW array \in Seq(S), NEW n \in 0 .. Len(array)
    PROVE  /\ SubSeq(array, 1, n) \in Seq(S)
           /\ Len(SubSeq(array, 1, n)) = n
           /\ \A j \in 1 .. n : SubSeq(array, 1, n)[j] = array[j]
<1>1. n \in Int /\ 1 \in Int /\ 0 <= n /\ n - 1 + 1 = n /\ \A j \in 1 .. n : 1 + j - 1 = j
  OBVIOUS
<1>2. \A j \in 1 .. n : array[j] \in S
  OBVIOUS
<1>3. /\ SubSeq(array, 1, n) \in Seq(S)
      /\ Len(SubSeq(array, 1, n)) = IF 1 <= n THEN n - 1 + 1 ELSE 0
      /\ \A j \in 1 .. n - 1 + 1 : SubSeq(array, 1, n)[j] = array[1 + j - 1]
  BY <1>1, <1>2, SubSeqProperties
<1> DEFINE b == SubSeq(array, 1, n)
<1> HIDE DEF b
<1>4. b \in Seq(S) /\ Len(b) = n /\ \A j \in 1 .. n : b[j] = array[j]
  BY <1>1, <1>3 DEF b
<1> QED BY <1>4 DEF b

LEMMA AppendMeaning ==
    ASSUME NEW S, NEW array \in Seq(S), NEW e \in S
    PROVE  /\ Append(array, e) \in Seq(S)
           /\ Len(Append(array, e)) = Len(array) + 1
           /\ Append(array, e)[Len(array) + 1] = e
           /\ \A i \in 1 .. Len(array) : Append(array, e)[i] = array[i]
OBVIOUS

\* The same for the numbers, and for the bytes of a text.
LEMMA NumbersAppended ==
    ASSUME NEW array \in Seq(Nat), NEW e \in Nat
    PROVE  /\ Append(array, e) \in Seq(Nat)
           /\ Len(Append(array, e)) = Len(array) + 1
           /\ Append(array, e)[Len(array) + 1] = e
           /\ \A i \in 1 .. Len(array) : Append(array, e)[i] = array[i]
<1> DEFINE S == Nat
<1>1. array \in Seq(S) /\ e \in S
  OBVIOUS
<1> HIDE DEF S
<1>2. /\ Append(array, e) \in Seq(S)
      /\ Len(Append(array, e)) = Len(array) + 1
      /\ Append(array, e)[Len(array) + 1] = e
      /\ \A i \in 1 .. Len(array) : Append(array, e)[i] = array[i]
  BY <1>1, AppendMeaning
<1>3. Append(array, e) \in Seq(Nat)
  BY <1>2 DEF S
<1> QED BY ONLY <1>2, <1>3, Zenon

LEMMA BytesOf ==
    ASSUME NEW t \in Seq(1 .. 255)
    PROVE  /\ Len(t) \in Nat /\ t \in Seq(Nat)
           /\ \A n \in 1 .. Len(t) : t[n] \in 1 .. 255
<1> DEFINE S == 1 .. 255
<1>1. t \in Seq(S)
  OBVIOUS
<1>2. S \subseteq Nat
  OBVIOUS
<1> HIDE DEF S
<1>3. Len(t) \in Nat /\ \A n \in 1 .. Len(t) : t[n] \in S
  BY <1>1
<1>4. t \in Seq(Nat)
  <2> DEFINE U == Nat
  <2>1. \A n \in 1 .. Len(t) : t[n] \in U
    BY <1>2, <1>3
  <2> HIDE DEF U
  <2>2. t \in Seq(U)
    BY <1>1, <1>3, <2>1
  <2> QED BY <2>2 DEF U
<1> QED BY <1>3, <1>4 DEF S

\* The first n rounds of a loop.
Rounds(T, first, onward, n) ==
    {h \in [0 .. n -> T] : h[0] = first /\ \A i \in 1 .. n : h[i] = onward[<<i, h[i - 1]>>]}

LEMMA RoundsExist ==
    ASSUME NEW T, NEW first \in T, NEW N \in Nat, NEW onward \in [(1 .. N) \X T -> T]
    PROVE  Rounds(T, first, onward, N) # {}
<1> DEFINE S == {m \in Nat : m <= N /\ Rounds(T, first, onward, m) = {}}
<1>1. SUFFICES ASSUME S # {} PROVE FALSE
  OBVIOUS
<1>2. PICK m \in S : \A l \in S : m <= l
  BY <1>1, LeastExists
<1>3. m # 0
  <2>1. [i \in 0 .. 0 |-> first] \in Rounds(T, first, onward, 0)
    BY DEF Rounds
  <2> QED BY <1>2, <2>1
<1>4. m \in Nat /\ m \in 1 .. N /\ m - 1 \in Nat /\ m - 1 \notin S
  BY <1>2, <1>3
<1>5. PICK h : h \in Rounds(T, first, onward, m - 1)
  BY <1>4
<1>6. h \in [0 .. m - 1 -> T] /\ h[0] = first /\ \A i \in 1 .. m - 1 : h[i] = onward[<<i, h[i - 1]>>]
  BY <1>5 DEF Rounds
<1> DEFINE g == [i \in 0 .. m |-> IF i = m THEN onward[<<m, h[m - 1]>>] ELSE h[i]]
<1>7. onward[<<m, h[m - 1]>>] \in T
  <2>1. h[m - 1] \in T
    BY <1>4, <1>6
  <2> QED BY <1>4, <2>1
<1>8. g \in [0 .. m -> T]
  BY <1>4, <1>6, <1>7
<1>9. g[0] = first
  BY <1>3, <1>4, <1>6
<1>10. ASSUME NEW i \in 1 .. m PROVE g[i] = onward[<<i, g[i - 1]>>]
  <2>1. i - 1 \in 0 .. m /\ i - 1 # m /\ g[i - 1] = h[i - 1]
    BY <1>4
  <2>2. CASE i = m
    BY <1>4, <2>1, <2>2
  <2>3. CASE i # m
    <3>1. i \in 1 .. m - 1 /\ g[i] = h[i]
      BY <1>4, <2>3
    <3> QED BY <1>6, <2>1, <3>1
  <2> QED BY <2>2, <2>3
<1> HIDE DEF g
<1>11. g \in Rounds(T, first, onward, m)
  BY <1>8, <1>9, <1>10 DEF Rounds
<1> QED BY <1>2, <1>11

-----------------------------------------------------------------------------
(* The reader, by the byte.                                                *)

Readers ==
    [at : {"outside", "inside", "escape", "hex", "spoilt"},
     strings : Seq(Seq(Nat)), digits : Seq(Nat)]

\* The reader after the strings in `done`, in a string of which t has been read.
In(at, done, t, digits) == [at |-> at, strings |-> Append(done, t), digits |-> digits]

After(done) == [at |-> "outside", strings |-> done, digits |-> <<>>]

LEMMA CollectedMeaning ==
    ASSUME NEW r \in Readers, NEW code \in Nat
    PROVE  Collected(r, code) \in Readers
<1>1. r.strings \in Seq(Seq(Nat)) /\ r = [at |-> r.at, strings |-> r.strings, digits |-> r.digits]
  BY DEF Readers
<1> DEFINE n == Len(r.strings)
           more == [r.strings EXCEPT ![n] = Append(r.strings[n], code)]
<1>2. more \in Seq(Seq(Nat))
  <2>1. DOMAIN r.strings = 1 .. n /\ n \in Nat /\ \A i \in 1 .. n : r.strings[i] \in Seq(Nat)
    BY <1>1
  <2>2. n \in 1 .. n => Append(r.strings[n], code) \in Seq(Nat)
    BY <2>1
  <2>3. more = [i \in 1 .. n |-> IF i = n THEN Append(r.strings[n], code) ELSE r.strings[i]]
    BY <2>1
  <2>4. more \in [1 .. n -> Seq(Nat)]
    <3> HIDE DEF n, more
    <3> QED BY <2>1, <2>2, <2>3
  <2> QED BY <2>1, <2>4
<1>3. Collected(r, code) = [at |-> "inside", strings |-> more, digits |-> <<>>]
  <2>1. Collected(r, code) = [r EXCEPT !.at = "inside", !.digits = <<>>, !.strings = more]
    BY DEF Collected
  <2> HIDE DEF more
  <2> QED BY <1>1, <2>1
<1> QED BY <1>2, <1>3 DEF Readers

LEMMA CollectedInside ==
    ASSUME NEW at, NEW done \in Seq(Seq(Nat)), NEW t \in Seq(Nat), NEW digits, NEW code \in Nat
    PROVE  Collected(In(at, done, t, digits), code) = In("inside", done, Append(t, code), <<>>)
<1> DEFINE s == Append(done, t)
           n == Len(s)
           more == [s EXCEPT ![n] = Append(s[n], code)]
<1>1. /\ s \in Seq(Seq(Nat)) /\ n = Len(done) + 1 /\ Len(done) \in Nat /\ s[n] = t
      /\ \A i \in 1 .. Len(done) : s[i] = done[i]
  OBVIOUS
<1>2. Append(t, code) \in Seq(Nat)
  OBVIOUS
<1>3. Collected(In(at, done, t, digits), code) = [at |-> "inside", strings |-> more, digits |-> <<>>]
  <2> DEFINE r == In(at, done, t, digits)
  <2>1. r = [at |-> at, strings |-> s, digits |-> digits] /\ r.strings = s
    BY DEF In
  <2> HIDE DEF r, s
  <2>2. Collected(r, code) = [r EXCEPT !.at = "inside", !.digits = <<>>,
                                       !.strings = [s EXCEPT ![n] = Append(s[n], code)]]
    BY <2>1 DEF Collected
  <2> HIDE DEF more
  <2>3. Collected(r, code) = [r EXCEPT !.at = "inside", !.digits = <<>>, !.strings = more]
    BY <2>2 DEF more
  <2> QED BY <2>1, <2>3 DEF r
<1>4. more = Append(done, Append(t, code))
  <2> DEFINE other == Append(done, Append(t, code))
  <2>1. /\ other \in Seq(Seq(Nat)) /\ Len(other) = n /\ other[n] = Append(t, code)
        /\ \A i \in 1 .. Len(done) : other[i] = done[i]
    BY <1>1, <1>2
  <2>2. more \in Seq(Seq(Nat)) /\ Len(more) = n
        /\ \A i \in 1 .. n : more[i] = IF i = n THEN Append(t, code) ELSE s[i]
    <3> HIDE DEF s
    <3> QED BY <1>1, <1>2
  <2> HIDE DEF s, more, other
  <2>3. \A i \in 1 .. n : i = n \/ i \in 1 .. Len(done)
    BY <1>1
  <2>4. \A i \in 1 .. n : more[i] = other[i]
    BY <1>1, <2>1, <2>2, <2>3
  <2>5. more = other
    BY <2>1, <2>2, <2>4, SeqEqual
  <2> QED BY <2>5 DEF other
<1> QED BY <1>3, <1>4 DEF In

LEMMA ReadMeaning ==
    ASSUME NEW r \in Readers, NEW byte \in Nat
    PROVE  Read(r, byte) \in Readers
<1>1. /\ r = [at |-> r.at, strings |-> r.strings, digits |-> r.digits]
      /\ r.at \in {"outside", "inside", "escape", "hex", "spoilt"}
      /\ r.strings \in Seq(Seq(Nat)) /\ r.digits \in Seq(Nat)
  BY DEF Readers
<1>2. \A code \in Nat : Collected(r, code) \in Readers
  BY CollectedMeaning
<1>3. \A at \in {"outside", "inside", "escape", "hex", "spoilt"} : [r EXCEPT !.at = at] \in Readers
  BY <1>1 DEF Readers
<1>4. CASE r.at = "outside"
  <2>1. [r EXCEPT !.at = "inside", !.strings = Append(r.strings, <<>>)] \in Readers
    <3>1. Append(r.strings, <<>>) \in Seq(Seq(Nat))
      BY <1>1
    <3> QED BY <1>1, <3>1 DEF Readers
  <2> QED BY <1>3, <1>4, <2>1 DEF Read
<1>5. CASE r.at = "inside"
  BY <1>2, <1>3, <1>5 DEF Read
<1>6. CASE r.at = "escape"
  <2>1. (\E c \in DOMAIN Short : Short[c] = byte) =>
          (CHOOSE c \in DOMAIN Short : Short[c] = byte) \in Nat
    BY DEF Short
  <2> QED BY <1>2, <1>3, <1>6, <2>1 DEF Read
<1>7. CASE r.at = "hex"
  <2> DEFINE all == Append(r.digits, ValueOf(byte))
  <2>1. CASE ValueOf(byte) >= 0
    <3>1. ValueOf(byte) \in Nat
      BY <2>1 DEF ValueOf
    <3>2. all \in Seq(Nat)
      BY <1>1, <3>1
    <3>3. [r EXCEPT !.digits = all] \in Readers
      BY <1>1, <3>2 DEF Readers
    <3>4. ~(Len(all) < 4) => 16 * (16 * (16 * all[1] + all[2]) + all[3]) + all[4] \in Nat
      <4> HIDE DEF all
      <4>1. Len(all) \in Nat
        BY <3>2
      <4> SUFFICES ASSUME ~(Len(all) < 4)
                   PROVE  16 * (16 * (16 * all[1] + all[2]) + all[3]) + all[4] \in Nat
        OBVIOUS
      <4>2. all[1] \in Nat /\ all[2] \in Nat /\ all[3] \in Nat /\ all[4] \in Nat
        <5>1. \A i \in 1 .. Len(all) : all[i] \in Nat
          BY <3>2
        <5>2. 1 \in 1 .. Len(all) /\ 2 \in 1 .. Len(all) /\ 3 \in 1 .. Len(all) /\ 4 \in 1 .. Len(all)
          BY <4>1
        <5> QED BY <5>1, <5>2
      <4>3. \A w, x, y, z \in Nat : 16 * (16 * (16 * w + x) + y) + z \in Nat
        OBVIOUS
      <4> QED BY <4>2, <4>3
    <3> HIDE DEF all
    <3>5. Read(r, byte) = IF Len(all) < 4 THEN [r EXCEPT !.digits = all]
                          ELSE Collected(r, 16 * (16 * (16 * all[1] + all[2]) + all[3]) + all[4])
      BY <1>7, <2>1 DEF Read, all
    <3> QED BY <1>2, <3>3, <3>4, <3>5
  <2>2. CASE ~(ValueOf(byte) >= 0)
    BY <1>3, <1>7, <2>2 DEF Read
  <2> QED BY <2>1, <2>2
<1>8. CASE r.at = "spoilt"
  BY <1>3, <1>8 DEF Read
<1> QED BY <1>1, <1>4, <1>5, <1>6, <1>7, <1>8

LEMMA InMeaning ==
    ASSUME NEW at, NEW done, NEW t, NEW digits
    PROVE  /\ In(at, done, t, digits).at = at /\ In(at, done, t, digits).digits = digits
           /\ \A b : [In(at, done, t, digits) EXCEPT !.at = b] = In(b, done, t, digits)
           /\ \A d : [In(at, done, t, digits) EXCEPT !.digits = d] = In(at, done, t, d)
           /\ digits = <<>> =>
                [In(at, done, t, digits) EXCEPT !.at = "outside"] = After(Append(done, t))
<1> DEFINE strings == Append(done, t)
<1> HIDE DEF strings
<1>1. /\ In(at, done, t, digits) = [at |-> at, strings |-> strings, digits |-> digits]
      /\ \A b : In(b, done, t, digits) = [at |-> b, strings |-> strings, digits |-> digits]
      /\ \A d : In(at, done, t, d) = [at |-> at, strings |-> strings, digits |-> d]
      /\ After(Append(done, t)) = [at |-> "outside", strings |-> strings, digits |-> <<>>]
  BY DEF In, After, strings
<1> QED BY <1>1

\* One byte inside of a string.
LEMMA ReadInside ==
    ASSUME NEW done \in Seq(Seq(Nat)), NEW t \in Seq(Nat)
    PROVE  /\ Read(In("inside", done, t, <<>>), Backslash) = In("escape", done, t, <<>>)
           /\ Read(In("inside", done, t, <<>>), Quote) = After(Append(done, t))
           /\ \A code \in Nat :
                code >= 32 /\ code \notin {Quote, Backslash} =>
                  Read(In("inside", done, t, <<>>), code) = In("inside", done, Append(t, code), <<>>)
<1> DEFINE r == In("inside", done, t, <<>>)
<1>1. r.at = "inside"
  BY InMeaning
<1>2. [r EXCEPT !.at = "escape"] = In("escape", done, t, <<>>)
      /\ [r EXCEPT !.at = "outside"] = After(Append(done, t))
  BY InMeaning
<1>3. \A code \in Nat : Collected(r, code) = In("inside", done, Append(t, code), <<>>)
  BY CollectedInside
<1> HIDE DEF r
<1>4. Read(r, Backslash) = [r EXCEPT !.at = "escape"] /\ Read(r, Quote) = [r EXCEPT !.at = "outside"]
  BY <1>1 DEF Read, Quote, Backslash
<1>5. ASSUME NEW code \in Nat, code >= 32, code \notin {Quote, Backslash}
      PROVE  Read(r, code) = Collected(r, code)
  BY <1>1, <1>5 DEF Read
<1> QED BY <1>2, <1>3, <1>4, <1>5 DEF r

\* One byte behind a backslash.
LEMMA ReadEscape ==
    ASSUME NEW done \in Seq(Seq(Nat)), NEW t \in Seq(Nat)
    PROVE  /\ Read(In("escape", done, t, <<>>), 117) = In("hex", done, t, <<>>)
           /\ \A code \in {Quote, Backslash} :
                Read(In("escape", done, t, <<>>), code) = In("inside", done, Append(t, code), <<>>)
           /\ \A code \in DOMAIN Short :
                Read(In("escape", done, t, <<>>), Short[code]) =
                  In("inside", done, Append(t, code), <<>>)
<1> DEFINE r == In("escape", done, t, <<>>)
<1>1. r.at = "escape"
  BY InMeaning
<1>2. [r EXCEPT !.at = "hex"] = In("hex", done, t, <<>>)
  BY InMeaning
<1>3. \A code \in Nat : Collected(r, code) = In("inside", done, Append(t, code), <<>>)
  BY CollectedInside
<1> HIDE DEF r
<1>4. DOMAIN Short = {10, 13, 9} /\ Short[10] = 110 /\ Short[13] = 114 /\ Short[9] = 116
  BY DEF Short
<1>5. Read(r, 117) = [r EXCEPT !.at = "hex"]
  <2>1. ~(\E c \in DOMAIN Short : Short[c] = 117)
    BY <1>4
  <2> QED BY <1>1, <2>1 DEF Read, Quote, Backslash
<1>6. ASSUME NEW code \in {Quote, Backslash} PROVE Read(r, code) = Collected(r, code)
  <2>1. code # 117 /\ ~(\E c \in DOMAIN Short : Short[c] = code)
    BY <1>4 DEF Quote, Backslash
  <2> QED BY <1>1, <2>1 DEF Read
<1>7. ASSUME NEW code \in DOMAIN Short PROVE Read(r, Short[code]) = Collected(r, code)
  <2>1. (CHOOSE c \in DOMAIN Short : Short[c] = Short[code]) = code
    BY <1>4
  <2>2. /\ Short[code] # 117 /\ Short[code] \notin {Quote, Backslash}
        /\ \E c \in DOMAIN Short : Short[c] = Short[code]
    BY <1>4 DEF Quote, Backslash
  <2> DEFINE byte == Short[code]
  <2> HIDE DEF byte
  <2>3. (CHOOSE c \in DOMAIN Short : Short[c] = byte) = code
    BY <2>1 DEF byte
  <2>4. /\ byte # 117 /\ byte \notin {Quote, Backslash}
        /\ \E c \in DOMAIN Short : Short[c] = byte
    BY <2>2 DEF byte
  <2>5. Read(r, byte) = Collected(r, CHOOSE c \in DOMAIN Short : Short[c] = byte)
    BY <1>1, <2>4 DEF Read
  <2> QED BY <2>3, <2>5 DEF byte
<1>8. \A code \in {Quote, Backslash} : code \in Nat
  BY DEF Quote, Backslash
<1>9. \A code \in DOMAIN Short : code \in Nat
  BY <1>4
<1> QED BY <1>2, <1>3, <1>5, <1>6, <1>7, <1>8, <1>9 DEF r

LEMMA DigitMeaning ==
    ASSUME NEW n \in 0 .. 15
    PROVE  Digit(n) \in Nat /\ ValueOf(Digit(n)) = n
BY DEF Digit, ValueOf

\* One digit.
LEMMA ReadHex ==
    ASSUME NEW done \in Seq(Seq(Nat)), NEW t \in Seq(Nat), NEW digits \in Seq(Nat), NEW n \in 0 .. 15
    PROVE  /\ Len(digits) < 3 =>
                Read(In("hex", done, t, digits), Digit(n)) = In("hex", done, t, Append(digits, n))
           /\ Len(digits) = 3 =>
                Read(In("hex", done, t, digits), Digit(n)) =
                  In("inside", done,
                     Append(t, 16 * (16 * (16 * digits[1] + digits[2]) + digits[3]) + n), <<>>)
<1> DEFINE r == In("hex", done, t, digits)
           all == Append(digits, n)
<1>1. r.at = "hex" /\ r.digits = digits
  BY InMeaning
<1>2. [r EXCEPT !.digits = all] = In("hex", done, t, all)
  <2> HIDE DEF all
  <2>1. \A d : [In("hex", done, t, digits) EXCEPT !.digits = d] = In("hex", done, t, d)
    BY InMeaning
  <2> QED BY <2>1
<1>3. \A code \in Nat : Collected(r, code) = In("inside", done, Append(t, code), <<>>)
  BY CollectedInside
<1>4. /\ Len(all) = Len(digits) + 1 /\ Len(digits) \in Nat /\ all[Len(digits) + 1] = n
      /\ \A i \in 1 .. Len(digits) : all[i] = digits[i]
  OBVIOUS
<1>5. ValueOf(Digit(n)) = n /\ n >= 0
  <2>1. ValueOf(Digit(n)) = n
    BY DigitMeaning
  <2>2. n >= 0
    OBVIOUS
  <2> QED BY <2>1, <2>2
<1> HIDE DEF r
<1>6. Read(r, Digit(n)) = IF Len(all) < 4 THEN [r EXCEPT !.digits = all]
                          ELSE Collected(r, 16 * (16 * (16 * all[1] + all[2]) + all[3]) + all[4])
  BY <1>1, <1>5 DEF Read
<1> HIDE DEF all
<1>7. CASE Len(digits) < 3
  <2>1. Len(all) < 4
    BY <1>4, <1>7
  <2>2. Read(r, Digit(n)) = In("hex", done, t, all)
    BY <1>2, <1>6, <2>1
  <2> QED BY <1>7, <2>2 DEF r, all
<1>8. CASE Len(digits) = 3
  <2>1. all[1] = digits[1] /\ all[2] = digits[2] /\ all[3] = digits[3] /\ all[4] = n
    BY <1>4, <1>8
  <2>2. digits[1] \in Nat /\ digits[2] \in Nat /\ digits[3] \in Nat
    <3>1. \A i \in 1 .. Len(digits) : digits[i] \in Nat
      OBVIOUS
    <3> QED BY <1>8, <3>1
  <2> DEFINE code == 16 * (16 * (16 * digits[1] + digits[2]) + digits[3]) + n
  <2>3. code \in Nat
    <3>1. \A w, x, y \in Nat : 16 * (16 * (16 * w + x) + y) + n \in Nat
      OBVIOUS
    <3> QED BY <2>2, <3>1
  <2>4. Read(r, Digit(n)) = Collected(r, code)
    BY <1>4, <1>6, <1>8, <2>1
  <2> HIDE DEF code
  <2>5. Read(r, Digit(n)) = In("inside", done, Append(t, code), <<>>)
    BY <1>3, <2>3, <2>4
  <2> QED BY <1>8, <2>5 DEF r, code
<1> QED BY <1>4, <1>7, <1>8

-----------------------------------------------------------------------------
(* The two loops.                                                          *)

Reading(document) ==
    CHOOSE f : f = [n \in 0 .. Len(document) |->
                      IF n = 0 THEN Closed ELSE Read(f[n - 1], document[n])]

LEMMA ReadingMeaning ==
    ASSUME NEW document \in Seq(Nat)
    PROVE  /\ ReadAll(document) = Reading(document)[Len(document)]
           /\ Reading(document)[0] = Closed
           /\ \A n \in 1 .. Len(document) :
                Reading(document)[n] = Read(Reading(document)[n - 1], document[n])
<1> DEFINE N == Len(document)
           onward == [x \in (1 .. N) \X Readers |-> Read(x[2], document[x[1]])]
           goal(f) == [n \in 0 .. N |-> IF n = 0 THEN Closed ELSE Read(f[n - 1], document[n])]
           loop == Reading(document)
<1>1. N \in Nat /\ \A i \in 1 .. N : document[i] \in Nat
  OBVIOUS
<1>2. \A i \in 1 .. N, x \in Readers : Read(x, document[i]) \in Readers
  BY <1>1, ReadMeaning
<1>3. Closed \in Readers
  BY DEF Closed, Readers
<1> HIDE DEF N
<1>4. onward \in [(1 .. N) \X Readers -> Readers]
  BY <1>2
<1>5. \A i \in 1 .. N, x \in Readers : onward[<<i, x>>] = Read(x, document[i])
  OBVIOUS
<1> HIDE DEF onward
<1>6. PICK h : h \in Rounds(Readers, Closed, onward, N)
  BY <1>1, <1>3, <1>4, RoundsExist
<1>7. /\ h \in [0 .. N -> Readers] /\ h[0] = Closed
      /\ \A i \in 1 .. N : h[i] = onward[<<i, h[i - 1]>>]
  BY <1>6 DEF Rounds
<1>8. \A n \in 0 .. N : h[n] = IF n = 0 THEN Closed ELSE Read(h[n - 1], document[n])
  <2> SUFFICES ASSUME NEW n \in 0 .. N
               PROVE  h[n] = IF n = 0 THEN Closed ELSE Read(h[n - 1], document[n])
    OBVIOUS
  <2>1. CASE n = 0
    BY <1>7, <2>1
  <2>2. CASE n # 0
    <3>1. n \in 1 .. N /\ n - 1 \in 0 .. N
      BY <1>1, <2>2
    <3>2. h[n - 1] \in Readers
      BY <1>7, <3>1
    <3> QED BY <1>5, <1>7, <2>2, <3>1, <3>2
  <2> QED BY <2>1, <2>2
<1>9. h = goal(h)
  BY <1>7, <1>8
<1>10. loop = CHOOSE f : f = goal(f)
  BY DEF Reading, N
<1>11. loop = goal(loop)
  BY <1>9, <1>10
<1>12. ReadAll(document) = loop[N]
  BY DEF ReadAll, Reading, N
<1> HIDE DEF loop
<1>13. loop[0] = Closed /\ \A n \in 1 .. N : loop[n] = Read(loop[n - 1], document[n])
  <2>1. \A n \in 0 .. N : loop[n] = IF n = 0 THEN Closed ELSE Read(loop[n - 1], document[n])
    BY <1>11
  <2>2. 0 \in 0 .. N /\ \A n \in 1 .. N : n \in 0 .. N /\ n # 0
    BY <1>1
  <2> QED BY <2>1, <2>2
<1> QED BY <1>12, <1>13 DEF loop, N

LEMMA EscapedMeaning ==
    ASSUME NEW byte \in 1 .. 255
    PROVE  Escaped(byte) \in Seq(Nat)
<1>1. Hex(byte) \in Seq(Nat)
  <2>1. byte \div 16 \in 0 .. 15 /\ byte % 16 \in 0 .. 15
    OBVIOUS
  <2>2. Digit(byte \div 16) \in Nat /\ Digit(byte % 16) \in Nat
    BY <2>1, DigitMeaning
  <2> QED BY <2>2 DEF Hex
<1>2. <<Backslash, byte>> \in Seq(Nat) /\ <<byte>> \in Seq(Nat)
      /\ <<Backslash, 117>> \in Seq(Nat)
      /\ \A c \in DOMAIN Short : <<Backslash, Short[c]>> \in Seq(Nat)
  BY DEF Backslash, Short
<1>3. <<Backslash, 117>> \o Hex(byte) \in Seq(Nat)
  BY <1>1, <1>2, ConcatProperties
<1> QED BY <1>2, <1>3 DEF Escaped

Writing(t) ==
    CHOOSE f : f = [n \in 0 .. Len(t) |-> IF n = 0 THEN <<Quote>> ELSE f[n - 1] \o Escaped(t[n])]

LEMMA WritingMeaning ==
    ASSUME NEW t \in Seq(1 .. 255)
    PROVE  /\ JsonString(t) = Append(Writing(t)[Len(t)], Quote)
           /\ Writing(t)[0] = <<Quote>>
           /\ \A n \in 0 .. Len(t) : Writing(t)[n] \in Seq(Nat)
           /\ \A n \in 1 .. Len(t) : Writing(t)[n] = Writing(t)[n - 1] \o Escaped(t[n])
<1> DEFINE N == Len(t)
           T == Seq(Nat)
           onward == [x \in (1 .. N) \X T |-> x[2] \o Escaped(t[x[1]])]
           value(f, n) == IF n = 0 THEN <<Quote>> ELSE f[n - 1] \o Escaped(t[n])
           goal(f) == [n \in 0 .. N |-> value(f, n)]
           loop == Writing(t)
<1>1. N \in Nat /\ \A i \in 1 .. N : t[i] \in 1 .. 255
  <2> DEFINE B == 1 .. 255
  <2>1. t \in Seq(B)
    OBVIOUS
  <2> HIDE DEF B
  <2>2. N \in Nat /\ \A i \in 1 .. N : t[i] \in B
    BY <2>1
  <2> QED BY <2>2 DEF B
<1>2. \A i \in 1 .. N, x \in T : x \o Escaped(t[i]) \in T
  BY <1>1, EscapedMeaning, ConcatProperties
<1>3. <<Quote>> \in T
  BY DEF Quote
<1> HIDE DEF N, T
<1>4. onward \in [(1 .. N) \X T -> T]
  BY <1>2
<1>5. \A i \in 1 .. N, x \in T : onward[<<i, x>>] = x \o Escaped(t[i])
  OBVIOUS
<1> HIDE DEF onward
<1>6. PICK h : h \in Rounds(T, <<Quote>>, onward, N)
  BY <1>1, <1>3, <1>4, RoundsExist
<1>7. /\ h \in [0 .. N -> T] /\ h[0] = <<Quote>>
      /\ \A i \in 1 .. N : h[i] = onward[<<i, h[i - 1]>>]
  BY <1>6 DEF Rounds
<1>8. \A n \in 0 .. N : h[n] = value(h, n)
  <2> SUFFICES ASSUME NEW n \in 0 .. N PROVE h[n] = value(h, n)
    OBVIOUS
  <2>1. CASE n = 0
    BY <1>7, <2>1
  <2>2. CASE n # 0
    <3>1. n \in 1 .. N /\ n - 1 \in 0 .. N
      BY <1>1, <2>2
    <3>2. h[n - 1] \in T
      BY <1>7, <3>1
    <3> QED BY <1>5, <1>7, <2>2, <3>1, <3>2
  <2> QED BY <2>1, <2>2
<1>9. loop = CHOOSE f : f = goal(f)
  BY DEF Writing, N
<1> HIDE DEF value, loop
<1>10. h = goal(h)
  BY <1>7, <1>8
<1>11. loop = goal(loop)
  BY <1>9, <1>10
<1>12. JsonString(t) = Append(loop[N], Quote)
  BY DEF JsonString, Writing, N, loop
<1>13. loop[0] = <<Quote>> /\ \A n \in 1 .. N : loop[n] = loop[n - 1] \o Escaped(t[n])
  <2>1. \A n \in 0 .. N : loop[n] = value(loop, n)
    BY <1>11
  <2>2. 0 \in 0 .. N /\ \A n \in 1 .. N : n \in 0 .. N /\ n # 0
    BY <1>1
  <2> QED BY <2>1, <2>2 DEF value
<1>14. ASSUME NEW n \in 0 .. N PROVE loop[n] \in T
  <2> DEFINE S == {m \in 0 .. N : loop[m] \notin T}
  <2>1. SUFFICES ASSUME S # {} PROVE FALSE
    OBVIOUS
  <2>2. S \subseteq Nat
    BY <1>1
  <2>3. PICK m \in S : \A l \in S : m <= l
    BY <2>1, <2>2, LeastExists
  <2>4. m # 0
    BY <1>3, <1>13, <2>3
  <2>5. m \in 1 .. N /\ m - 1 \in 0 .. N /\ m - 1 \notin S
    BY <1>1, <2>3, <2>4
  <2>6. loop[m - 1] \in T
    BY <2>5
  <2>7. loop[m] \in T
    BY <1>2, <1>13, <2>5, <2>6
  <2> QED BY <2>3, <2>7
<1> QED BY <1>12, <1>13, <1>14 DEF loop, N, T

-----------------------------------------------------------------------------
(* What has been written is read back.                                     *)

\* The document goes on with the chunk behind its first p bytes.
At(document, p, chunk) ==
    /\ p + Len(chunk) <= Len(document)
    /\ \A i \in 1 .. Len(chunk) : document[p + i] = chunk[i]

LEMMA ReadNext ==
    ASSUME NEW document \in Seq(Nat), NEW p \in Nat, NEW chunk \in Seq(Nat),
           At(document, p, chunk), NEW i \in 1 .. Len(chunk)
    PROVE  Reading(document)[p + i] = Read(Reading(document)[p + i - 1], chunk[i])
<1>1. Len(chunk) \in Nat /\ Len(document) \in Nat
  OBVIOUS
<1>2. p + i \in 1 .. Len(document) /\ document[p + i] = chunk[i]
  BY <1>1 DEF At
<1> QED BY <1>2, ReadingMeaning, SMTT(30)

LEMMA ReadEscaped ==
    ASSUME JsonAssumption, NEW document \in Seq(Nat), NEW p \in Nat, NEW byte \in 1 .. 255,
           At(document, p, Escaped(byte)), NEW done \in Seq(Seq(Nat)), NEW t \in Seq(Nat),
           Reading(document)[p] = In("inside", done, t, <<>>)
    PROVE  Reading(document)[p + Len(Escaped(byte))] = In("inside", done, Append(t, byte), <<>>)
<1> DEFINE chunk == Escaped(byte)
           f == Reading(document)
<1>1. chunk \in Seq(Nat)
  BY EscapedMeaning
<1>2. \A i \in 1 .. Len(chunk) : f[p + i] = Read(f[p + i - 1], chunk[i])
  BY <1>1, ReadNext
<1>3. f[p] = In("inside", done, t, <<>>)
  OBVIOUS
<1> HIDE DEF f
<1>4. ASSUME Len(chunk) >= 2
      PROVE  f[p + 1] = Read(f[p], chunk[1]) /\ f[p + 2] = Read(f[p + 1], chunk[2])
  <2>1. 1 \in 1 .. Len(chunk) /\ 2 \in 1 .. Len(chunk) /\ p + 1 - 1 = p /\ p + 2 - 1 = p + 1
    BY <1>1, <1>4
  <2> QED BY <1>2, <2>1
<1>5. CASE byte \in {Quote, Backslash}
  <2>1. chunk = <<Backslash, byte>>
    BY <1>5 DEF Escaped, Short, Quote, Backslash
  <2>2. Len(chunk) = 2 /\ chunk[1] = Backslash /\ chunk[2] = byte
    BY <2>1
  <2> HIDE DEF chunk
  <2>3. f[p + 1] = In("escape", done, t, <<>>)
    BY <1>3, <1>4, <2>2, ReadInside
  <2>4. f[p + 2] = In("inside", done, Append(t, byte), <<>>)
    BY <1>4, <1>5, <2>2, <2>3, ReadEscape
  <2> QED BY <2>2, <2>4 DEF f, chunk
<1>6. CASE byte \in DOMAIN Short
  <2>1. chunk = <<Backslash, Short[byte]>>
    BY <1>6 DEF Escaped, Short, Quote, Backslash
  <2>2. Len(chunk) = 2 /\ chunk[1] = Backslash /\ chunk[2] = Short[byte]
    BY <2>1
  <2> HIDE DEF chunk
  <2>3. f[p + 1] = In("escape", done, t, <<>>)
    BY <1>3, <1>4, <2>2, ReadInside
  <2>4. f[p + 2] = In("inside", done, Append(t, byte), <<>>)
    BY <1>4, <1>6, <2>2, <2>3, ReadEscape
  <2> QED BY <2>2, <2>4 DEF f, chunk
<1>7. CASE /\ byte \notin {Quote, Backslash} /\ byte \notin DOMAIN Short
           /\ byte \notin ControlLimit .. NonAsciiLimit - 1
  <2>1. chunk = <<Backslash, 117>> \o <<48, 48, Digit(byte \div 16), Digit(byte % 16)>>
    BY <1>7 DEF Escaped, Hex
  <2> DEFINE high == byte \div 16
             low == byte % 16
  <2>2. high \in 0 .. 15 /\ low \in 0 .. 15 /\ 16 * high + low = byte
    OBVIOUS
  <2>3. Digit(high) \in Nat /\ Digit(low) \in Nat /\ Digit(0) = 48
    <3>1. Digit(high) \in Nat /\ Digit(low) \in Nat
      BY <2>2, DigitMeaning
    <3>2. Digit(0) = 48
      BY DEF Digit
    <3> QED BY <3>1, <3>2
  <2> HIDE DEF high, low
  <2>4. /\ Len(chunk) = 6 /\ chunk[1] = Backslash /\ chunk[2] = 117
        /\ chunk[3] = Digit(0) /\ chunk[4] = Digit(0)
        /\ chunk[5] = Digit(high) /\ chunk[6] = Digit(low)
    BY <2>1, <2>3 DEF high, low, Backslash
  <2> HIDE DEF chunk
  <2>5. /\ f[p + 3] = Read(f[p + 2], chunk[3]) /\ f[p + 4] = Read(f[p + 3], chunk[4])
        /\ f[p + 5] = Read(f[p + 4], chunk[5]) /\ f[p + 6] = Read(f[p + 5], chunk[6])
    <3>1. /\ 3 \in 1 .. Len(chunk) /\ 4 \in 1 .. Len(chunk) /\ 5 \in 1 .. Len(chunk)
          /\ 6 \in 1 .. Len(chunk) /\ p + 3 - 1 = p + 2 /\ p + 4 - 1 = p + 3
          /\ p + 5 - 1 = p + 4 /\ p + 6 - 1 = p + 5
      BY <2>4
    <3> QED BY <1>2, <3>1
  <2>6. f[p + 1] = In("escape", done, t, <<>>)
    BY <1>3, <1>4, <2>4, ReadInside
  <2>7. f[p + 2] = In("hex", done, t, <<>>)
    BY <1>4, <2>4, <2>6, ReadEscape
  <2> DEFINE one == Append(<<>>, 0)
             two == Append(one, 0)
             three == Append(two, high)
  <2>8. one \in Seq(Nat) /\ Len(one) = 1 /\ one[1] = 0
    OBVIOUS
  <2> HIDE DEF one
  <2>9. two \in Seq(Nat) /\ Len(two) = 2 /\ two[1] = 0 /\ two[2] = 0
    <3>1. /\ two \in Seq(Nat) /\ Len(two) = Len(one) + 1 /\ two[Len(one) + 1] = 0
          /\ \A i \in 1 .. Len(one) : two[i] = one[i]
      <4>1. 0 \in Nat
        OBVIOUS
      <4> QED BY ONLY <2>8, <4>1, NumbersAppended
    <3> HIDE DEF two
    <3>2. 1 \in 1 .. Len(one) /\ Len(one) + 1 = 2
      BY <2>8
    <3> QED BY <2>8, <3>1, <3>2
  <2> HIDE DEF two
  <2>10. three \in Seq(Nat) /\ Len(three) = 3 /\ three[1] = 0 /\ three[2] = 0 /\ three[3] = high
    <3>1. /\ three \in Seq(Nat) /\ Len(three) = Len(two) + 1 /\ three[Len(two) + 1] = high
          /\ \A i \in 1 .. Len(two) : three[i] = two[i]
      <4>1. high \in Nat
        BY <2>2
      <4> QED BY ONLY <2>9, <4>1, NumbersAppended
    <3> HIDE DEF three
    <3>2. 1 \in 1 .. Len(two) /\ 2 \in 1 .. Len(two) /\ Len(two) + 1 = 3
      BY <2>9
    <3> QED BY <2>9, <3>1, <3>2
  <2> HIDE DEF three
  <2>11. f[p + 3] = In("hex", done, t, one)
    <3>1. <<>> \in Seq(Nat) /\ Len(<<>>) < 3 /\ 0 \in 0 .. 15
      OBVIOUS
    <3>2. Read(In("hex", done, t, <<>>), Digit(0)) = In("hex", done, t, one)
      BY <3>1, ReadHex DEF one
    <3> QED BY <2>4, <2>5, <2>7, <3>2
  <2>12. f[p + 4] = In("hex", done, t, two)
    <3>1. Len(one) < 3 /\ 0 \in 0 .. 15
      BY <2>8
    <3>2. Read(In("hex", done, t, one), Digit(0)) = In("hex", done, t, two)
      BY <2>8, <3>1, ReadHex DEF two
    <3> QED BY <2>4, <2>5, <2>11, <3>2
  <2>13. f[p + 5] = In("hex", done, t, three)
    <3>1. Len(two) < 3
      BY <2>9
    <3>2. Read(In("hex", done, t, two), Digit(high)) = In("hex", done, t, three)
      BY <2>2, <2>9, <3>1, ReadHex DEF three
    <3> QED BY <2>4, <2>5, <2>12, <3>2
  <2>14. f[p + 6] = In("inside", done, Append(t, byte), <<>>)
    <3>1. Read(In("hex", done, t, three), Digit(low)) =
            In("inside", done,
               Append(t, 16 * (16 * (16 * three[1] + three[2]) + three[3]) + low), <<>>)
      BY <2>2, <2>10, ReadHex
    <3>2. 16 * (16 * (16 * three[1] + three[2]) + three[3]) + low = byte
      BY <2>2, <2>10
    <3> QED BY <2>4, <2>5, <2>13, <3>1, <3>2
  <2> QED BY <2>4, <2>14 DEF f, chunk
<1>8. CASE /\ byte \notin {Quote, Backslash} /\ byte \notin DOMAIN Short
           /\ byte \in ControlLimit .. NonAsciiLimit - 1
  <2>1. chunk = <<byte>>
    BY <1>8 DEF Escaped
  <2>2. Len(chunk) = 1 /\ chunk[1] = byte /\ 1 \in 1 .. Len(chunk)
    BY <2>1
  <2>3. byte >= 32 /\ byte \in Nat
    BY <1>8 DEF JsonAssumption
  <2> HIDE DEF chunk
  <2>4. f[p + 1] = Read(f[p], byte)
    <3>1. p + 1 - 1 = p
      OBVIOUS
    <3> QED BY <1>2, <2>2, <3>1
  <2>5. f[p + 1] = In("inside", done, Append(t, byte), <<>>)
    BY <1>3, <1>8, <2>3, <2>4, ReadInside
  <2> QED BY <2>2, <2>5 DEF f, chunk
<1> QED BY <1>5, <1>6, <1>7, <1>8

LEMMA ConcatMeaning ==
    ASSUME NEW S, NEW s \in Seq(S), NEW t \in Seq(S)
    PROVE  /\ s \o t \in Seq(S)
           /\ Len(s \o t) = Len(s) + Len(t)
           /\ \A i \in 1 .. Len(s) : (s \o t)[i] = s[i]
           /\ \A i \in 1 .. Len(t) : (s \o t)[Len(s) + i] = t[i]
<1> DEFINE both == s \o t
<1>1. /\ both \in Seq(S) /\ Len(both) = Len(s) + Len(t)
      /\ \A i \in 1 .. Len(s) + Len(t) : both[i] = IF i <= Len(s) THEN s[i] ELSE t[i - Len(s)]
  BY ConcatProperties
<1>2. Len(s) \in Nat /\ Len(t) \in Nat
  OBVIOUS
<1> HIDE DEF both
<1>3. \A i \in 1 .. Len(s) : both[i] = s[i]
  BY <1>1, <1>2
<1>4. ASSUME NEW i \in 1 .. Len(t) PROVE both[Len(s) + i] = t[i]
  <2>1. PICK j \in 1 .. Len(s) + Len(t) : j = Len(s) + i
    BY <1>2
  <2>2. ~(j <= Len(s)) /\ j - Len(s) = i
    BY <1>2, <2>1
  <2> QED BY <1>1, <2>1, <2>2
<1> QED BY <1>1, <1>3, <1>4 DEF both

\* A chunk of a chunk.
LEMMA AtConcat ==
    ASSUME NEW S, NEW document \in Seq(S), NEW p \in Nat, NEW s \in Seq(S), NEW t \in Seq(S),
           At(document, p, s \o t)
    PROVE  At(document, p, s) /\ At(document, p + Len(s), t)
<1> DEFINE both == s \o t
<1>1. /\ Len(both) = Len(s) + Len(t)
      /\ \A i \in 1 .. Len(s) : both[i] = s[i]
      /\ \A i \in 1 .. Len(t) : both[Len(s) + i] = t[i]
  BY ConcatMeaning
<1>2. Len(s) \in Nat /\ Len(t) \in Nat /\ Len(document) \in Nat
  OBVIOUS
<1>3. /\ p + Len(both) <= Len(document)
      /\ \A i \in 1 .. Len(both) : document[p + i] = both[i]
  BY DEF At
<1> HIDE DEF both
<1>4. At(document, p, s)
  <2>1. \A i \in 1 .. Len(s) : i \in 1 .. Len(both)
    BY <1>1, <1>2
  <2>2. \A i \in 1 .. Len(s) : document[p + i] = s[i]
    BY <1>1, <1>3, <2>1
  <2>3. p + Len(s) <= Len(document)
    BY <1>1, <1>2, <1>3
  <2> QED BY <2>2, <2>3 DEF At
<1>5. At(document, p + Len(s), t)
  <2>1. ASSUME NEW i \in 1 .. Len(t) PROVE document[p + Len(s) + i] = t[i]
    <3>1. PICK j \in 1 .. Len(both) : j = Len(s) + i
      BY <1>1, <1>2
    <3>2. document[p + j] = t[i] /\ p + j = p + Len(s) + i
      BY <1>1, <1>2, <1>3, <3>1
    <3> QED BY <3>2
  <2>2. p + Len(s) + Len(t) <= Len(document)
    BY <1>1, <1>2, <1>3
  <2> QED BY <2>1, <2>2 DEF At
<1> QED BY <1>4, <1>5

\* A beginning grows by the element behind it, and the longest is the whole.
LEMMA BeginningsGrow ==
    ASSUME NEW S, NEW t \in Seq(S), NEW n \in 1 .. Len(t)
    PROVE  Append(SubSeq(t, 1, n - 1), t[n]) = SubSeq(t, 1, n)
<1> DEFINE before == SubSeq(t, 1, n - 1)
           longer == SubSeq(t, 1, n)
           more == Append(before, t[n])
<1>1. /\ before \in Seq(S) /\ Len(before) = n - 1
      /\ \A j \in 1 .. n - 1 : before[j] = t[j]
  <2>1. n - 1 \in 0 .. Len(t)
    OBVIOUS
  <2> QED BY <2>1, Beginning
<1>2. longer \in Seq(S) /\ Len(longer) = n /\ \A j \in 1 .. n : longer[j] = t[j]
  <2>1. n \in 0 .. Len(t)
    OBVIOUS
  <2> QED BY <2>1, Beginning
<1> HIDE DEF before, longer
<1>3. /\ more \in Seq(S) /\ Len(more) = Len(before) + 1 /\ more[Len(before) + 1] = t[n]
      /\ \A j \in 1 .. Len(before) : more[j] = before[j]
  BY <1>1, AppendMeaning
<1> HIDE DEF more
<1>4. Len(before) + 1 = n /\ \A j \in 1 .. n : j \in 1 .. n - 1 \/ j = n
  BY <1>1
<1>5. Len(more) = n /\ \A j \in 1 .. n : more[j] = longer[j]
  BY <1>1, <1>2, <1>3, <1>4
<1>6. more = longer
  BY <1>2, <1>3, <1>5, SeqEqual
<1> QED BY <1>6 DEF more, longer, before

LEMMA BeginningsEnd ==
    ASSUME NEW S, NEW t \in Seq(S)
    PROVE  SubSeq(t, 1, 0) = <<>> /\ SubSeq(t, 1, Len(t)) = t
<1>1. 0 \in 0 .. Len(t) /\ Len(t) \in 0 .. Len(t)
  OBVIOUS
<1>2. SubSeq(t, 1, 0) \in Seq(S) /\ Len(SubSeq(t, 1, 0)) = 0
  BY <1>1, Beginning
<1>3. SubSeq(t, 1, 0) = <<>>
  BY <1>2
<1>4. /\ SubSeq(t, 1, Len(t)) \in Seq(S) /\ Len(SubSeq(t, 1, Len(t))) = Len(t)
      /\ \A j \in 1 .. Len(t) : SubSeq(t, 1, Len(t))[j] = t[j]
  BY <1>1, Beginning
<1>5. SubSeq(t, 1, Len(t)) = t
  BY <1>4, SeqEqual
<1> QED BY <1>3, <1>5

LEMMA NumbersDivided ==
    ASSUME NEW document \in Seq(Nat), NEW p \in Nat, NEW s \in Seq(Nat), NEW t \in Seq(Nat),
           At(document, p, s \o t)
    PROVE  /\ At(document, p, s) /\ At(document, p + Len(s), t)
           /\ Len(s) \in Nat /\ Len(t) \in Nat /\ Len(s \o t) = Len(s) + Len(t)
<1> DEFINE S == Nat
<1>1. document \in Seq(S) /\ s \in Seq(S) /\ t \in Seq(S)
  OBVIOUS
<1> HIDE DEF S
<1>2. /\ At(document, p, s) /\ At(document, p + Len(s), t)
      /\ Len(s) \in Nat /\ Len(t) \in Nat /\ Len(s \o t) = Len(s) + Len(t)
  BY <1>1, AtConcat, ConcatMeaning
<1> QED BY <1>2

LEMMA ReadOpening ==
    ASSUME NEW done
    PROVE  Read(After(done), Quote) = In("inside", done, <<>>, <<>>)
<1> DEFINE r == After(done)
           strings == Append(done, <<>>)
           inside == [r EXCEPT !.at = "inside"]
<1>1. r = [at |-> "outside", strings |-> done, digits |-> <<>>]
  BY DEF After
<1> HIDE DEF strings
<1>2. Read(r, Quote) = [inside EXCEPT !.strings = strings]
  BY DEF Read, After, Quote, strings
<1> HIDE DEF r
<1>3. inside = [at |-> "inside", strings |-> done, digits |-> <<>>]
  BY <1>1
<1> HIDE DEF inside
<1>4. [inside EXCEPT !.strings = strings] = [at |-> "inside", strings |-> strings, digits |-> <<>>]
  BY <1>3
<1>5. In("inside", done, <<>>, <<>>) = [at |-> "inside", strings |-> strings, digits |-> <<>>]
  BY Zenon DEF In, strings
<1> QED BY ONLY <1>2, <1>4, <1>5, Zenon DEF r

\* Where in the document each round of the writing stands.
LEMMA AtWriting ==
    ASSUME NEW document \in Seq(Nat), NEW p \in Nat, NEW t \in Seq(1 .. 255),
           At(document, p, Writing(t)[Len(t)])
    PROVE  \A n \in 0 .. Len(t) : At(document, p, Writing(t)[n])
<1>a. /\ Len(t) \in Nat
      /\ \A n \in 0 .. Len(t) : Writing(t)[n] \in Seq(Nat)
      /\ \A n \in 1 .. Len(t) : Writing(t)[n] = Writing(t)[n - 1] \o Escaped(t[n])
  <2>1. Len(t) \in Nat
    BY BytesOf
  <2> QED BY ONLY <2>1, WritingMeaning, t \in Seq(1 .. 255), Zenon
<1>b. \A n \in 1 .. Len(t) : Escaped(t[n]) \in Seq(Nat)
  BY BytesOf, EscapedMeaning
<1> DEFINE L == Len(t)
           w == Writing(t)
           S == {n \in Nat : n <= L /\ ~At(document, p, w[L - n])}
<1>1. /\ L \in Nat
      /\ \A n \in 0 .. L : w[n] \in Seq(Nat)
      /\ \A n \in 1 .. L : w[n] = w[n - 1] \o Escaped(t[n])
  BY ONLY <1>a, Zenon
<1>2. \A n \in 1 .. L : Escaped(t[n]) \in Seq(Nat)
  BY ONLY <1>b, Zenon
<1>3. At(document, p, w[L])
  OBVIOUS
<1> HIDE DEF L, w
<1>4. S = {}
  <2>1. SUFFICES ASSUME S # {} PROVE FALSE
    OBVIOUS
  <2>2. PICK n \in S : \A m \in S : n <= m
    BY <2>1, LeastExists
  <2>3. n # 0
    <3>1. L - 0 = L
      BY <1>1
    <3> QED BY <1>3, <2>2, <3>1
  <2>4. n - 1 \in Nat /\ n - 1 <= L /\ n - 1 \notin S
    <3>1. n \in Nat /\ n <= L
      BY <2>2
    <3>2. n - 1 \in Nat /\ n - 1 <= L /\ ~(n <= n - 1)
      BY <1>1, <2>3, <3>1
    <3>3. n - 1 \notin S
      BY ONLY <2>2, <3>2, Zenon
    <3> QED BY <3>2, <3>3
  <2>5. PICK k \in 1 .. L : k = L - (n - 1) /\ k - 1 = L - n
    BY <1>1, <2>2, <2>3
  <2>6. At(document, p, w[k])
    BY <2>4, <2>5
  <2>7. k \in 0 .. L /\ k - 1 \in 0 .. L
    BY <1>1
  <2>8. At(document, p, w[k - 1] \o Escaped(t[k])) /\ w[k - 1] \in Seq(Nat)
    BY <1>1, <2>6, <2>7
  <2>9. At(document, p, w[k - 1])
    BY <1>2, <2>8, AtConcat
  <2> QED BY <2>2, <2>5, <2>9
<1>5. ASSUME NEW n \in 0 .. L PROVE At(document, p, w[n])
  <2>1. PICK m \in Nat : m <= L /\ L - m = n
    <3>1. L - n \in Nat /\ L - n <= L /\ L - (L - n) = n
      BY <1>1
    <3> QED BY <3>1
  <2> QED BY <1>4, <2>1
<1> QED BY <1>5 DEF L, w

\* A string is read back whatever comes before and behind it.
LEMMA ReadString ==
    ASSUME JsonAssumption, NEW document \in Seq(Nat), NEW p \in Nat, NEW t \in Seq(1 .. 255),
           At(document, p, JsonString(t)), NEW done \in Seq(Seq(Nat)),
           Reading(document)[p] = After(done)
    PROVE  Reading(document)[p + Len(JsonString(t))] = After(Append(done, t))
<1>a. /\ Len(t) \in Nat
      /\ JsonString(t) = Append(Writing(t)[Len(t)], Quote) /\ Writing(t)[0] = <<Quote>>
      /\ \A n \in 0 .. Len(t) : Writing(t)[n] \in Seq(Nat)
      /\ \A n \in 1 .. Len(t) : Writing(t)[n] = Writing(t)[n - 1] \o Escaped(t[n])
  <2>1. Len(t) \in Nat
    BY BytesOf
  <2> QED BY ONLY <2>1, WritingMeaning, t \in Seq(1 .. 255), Zenon
<1>b. t \in Seq(Nat) /\ \A n \in 1 .. Len(t) : t[n] \in 1 .. 255
  BY BytesOf
<1> DEFINE L == Len(t)
           w == Writing(t)
           f == Reading(document)
           S == {n \in Nat : n <= L /\ f[p + Len(w[n])] # In("inside", done, SubSeq(t, 1, n), <<>>)}
<1>1. /\ L \in Nat
      /\ JsonString(t) = Append(w[L], Quote) /\ w[0] = <<Quote>>
      /\ \A n \in 0 .. L : w[n] \in Seq(Nat)
      /\ \A n \in 1 .. L : w[n] = w[n - 1] \o Escaped(t[n])
  BY ONLY <1>a, Zenon
<1>2. /\ \A n \in 1 .. L : t[n] \in 1 .. 255
      /\ t \in Seq(Nat)
  BY ONLY <1>b, Zenon
<1>3. f[p] = After(done)
  OBVIOUS
<1>4. /\ At(document, p, w[L]) /\ Len(JsonString(t)) = Len(w[L]) + 1
      /\ f[p + Len(w[L]) + 1] = Read(f[p + Len(w[L])], Quote)
  <2> DEFINE s == JsonString(t)
  <2>1. /\ s \in Seq(Nat) /\ Len(s) = Len(w[L]) + 1 /\ s[Len(w[L]) + 1] = Quote
        /\ \A i \in 1 .. Len(w[L]) : s[i] = w[L][i]
    <3>1. w[L] \in Seq(Nat) /\ Quote \in Nat
      BY <1>1 DEF Quote
    <3>2. s = Append(w[L], Quote)
      BY <1>1
    <3> HIDE DEF s, w, L
    <3> QED BY <3>1, <3>2, AppendMeaning
  <2>2. At(document, p, s)
    OBVIOUS
  <2>3. Len(w[L]) \in Nat /\ Len(document) \in Nat
    BY <1>1
  <2> HIDE DEF s, w, L
  <2>4. At(document, p, w[L])
    <3>1. \A i \in 1 .. Len(w[L]) : i \in 1 .. Len(s)
      BY <2>1, <2>3
    <3>2. \A i \in 1 .. Len(w[L]) : document[p + i] = w[L][i]
      BY <2>1, <2>2, <3>1 DEF At
    <3>3. p + Len(w[L]) <= Len(document)
      BY <2>1, <2>2, <2>3 DEF At
    <3> QED BY <3>2, <3>3 DEF At
  <2>5. f[p + (Len(w[L]) + 1)] = Read(f[p + (Len(w[L]) + 1) - 1], Quote)
    <3>1. Len(w[L]) + 1 \in 1 .. Len(s)
      BY <2>1, <2>3
    <3> QED BY <2>1, <2>2, <3>1, ReadNext
  <2>6. p + (Len(w[L]) + 1) = p + Len(w[L]) + 1 /\ p + (Len(w[L]) + 1) - 1 = p + Len(w[L])
    BY <2>3
  <2> HIDE DEF f
  <2> QED BY <2>1, <2>4, <2>5, <2>6 DEF s
<1>5. \A n \in 0 .. L : At(document, p, w[n])
  BY <1>4, AtWriting
<1>6. f[p + Len(w[0])] = In("inside", done, SubSeq(t, 1, 0), <<>>)
  <2>1. w[0] \in Seq(Nat) /\ Len(w[0]) = 1 /\ w[0][1] = Quote /\ At(document, p, w[0])
    <3>1. w[0] = <<Quote>> /\ 0 \in 0 .. L
      BY <1>1
    <3>2. At(document, p, w[0])
      BY <1>5, <3>1
    <3> HIDE DEF w
    <3>3. <<Quote>> \in Seq(Nat) /\ Len(<<Quote>>) = 1 /\ <<Quote>>[1] = Quote
      BY DEF Quote
    <3> QED BY ONLY <3>1, <3>2, <3>3, Zenon
  <2>2. f[p + 1] = Read(f[p + 1 - 1], Quote)
    <3>1. 1 \in 1 .. Len(w[0])
      BY <2>1
    <3> QED BY <2>1, <3>1, ReadNext
  <2>3. p + 1 - 1 = p
    OBVIOUS
  <2> HIDE DEF f, w
  <2>4. Read(After(done), Quote) = In("inside", done, <<>>, <<>>)
    BY ReadOpening
  <2>5. SubSeq(t, 1, 0) = <<>>
    BY <1>2, BeginningsEnd
  <2> QED BY <1>3, <2>1, <2>2, <2>3, <2>4, <2>5
<1>7. S = {}
  <2>1. SUFFICES ASSUME S # {} PROVE FALSE
    OBVIOUS
  <2> HIDE DEF f, w, L
  <2>2. PICK n \in S : \A m \in S : n <= m
    BY <2>1, LeastExists
  <2>3. n # 0
    BY <1>6, <2>2
  <2>4. /\ n \in 1 .. L /\ n \in 0 .. L /\ n - 1 \in 0 .. L
        /\ f[p + Len(w[n - 1])] = In("inside", done, SubSeq(t, 1, n - 1), <<>>)
    <3>1. n \in Nat /\ n <= L
      BY <2>2
    <3>2. n - 1 \in Nat /\ n - 1 <= L /\ ~(n <= n - 1)
      BY <1>1, <2>3, <3>1
    <3>3. n - 1 \notin S
      BY ONLY <2>2, <3>2, Zenon
    <3>4. f[p + Len(w[n - 1])] = In("inside", done, SubSeq(t, 1, n - 1), <<>>)
      BY ONLY <3>2, <3>3, Zenon
    <3>5. n \in 1 .. L /\ n \in 0 .. L /\ n - 1 \in 0 .. L
      BY <1>1, <3>1, <3>2
    <3> QED BY <3>4, <3>5
  <2>a. f[p + Len(w[n])] # In("inside", done, SubSeq(t, 1, n), <<>>)
    BY <2>2
  <2> HIDE DEF S
  <2> DEFINE before == SubSeq(t, 1, n - 1)
             q == p + Len(w[n - 1])
             chunk == Escaped(t[n])
  <2>5. before \in Seq(Nat) /\ Append(before, t[n]) = SubSeq(t, 1, n)
    <3>1. n \in 1 .. Len(t) /\ n - 1 \in 0 .. Len(t)
      BY <2>4 DEF L
    <3> QED BY <1>2, <3>1, Beginning, BeginningsGrow
  <2>6. f[q] = In("inside", done, before, <<>>)
    BY <2>4
  <2>7. /\ w[n - 1] \in Seq(Nat) /\ chunk \in Seq(Nat) /\ t[n] \in 1 .. 255
        /\ w[n] = w[n - 1] \o chunk /\ At(document, p, w[n])
    <3>1. t[n] \in 1 .. 255
      BY <1>2, <2>4
    <3>2. chunk \in Seq(Nat)
      BY <3>1, EscapedMeaning
    <3> QED BY <1>1, <1>5, <2>4, <3>1, <3>2
  <2> HIDE DEF before
  <2>8. /\ At(document, q, chunk) /\ q \in Nat
        /\ Len(w[n - 1]) \in Nat /\ Len(chunk) \in Nat /\ Len(w[n]) = Len(w[n - 1]) + Len(chunk)
    <3> DEFINE first == w[n - 1]
    <3> HIDE DEF chunk
    <3>1. At(document, p, first \o chunk)
      BY <2>7
    <3>2. first \in Seq(Nat)
      BY <2>7
    <3>3. chunk \in Seq(Nat)
      BY <2>7
    <3> HIDE DEF first
    <3>4. /\ At(document, p, first) /\ At(document, p + Len(first), chunk)
          /\ Len(first) \in Nat /\ Len(chunk) \in Nat
          /\ Len(first \o chunk) = Len(first) + Len(chunk)
      BY ONLY <3>1, <3>2, <3>3, NumbersDivided, document \in Seq(Nat), p \in Nat, SMT
    <3>5. p + Len(first) \in Nat
      BY <3>4
    <3> QED BY ONLY <2>7, <3>4, <3>5, Zenon DEF q, first
  <2>10. q + Len(chunk) = p + Len(w[n])
    <3> HIDE DEF chunk
    <3> QED BY ONLY <2>8, p \in Nat DEF q
  <2> HIDE DEF q
  <2>9. f[q + Len(chunk)] = In("inside", done, Append(before, t[n]), <<>>)
    <3> DEFINE byte == t[n]
    <3>1. byte \in 1 .. 255 /\ At(document, q, Escaped(byte)) /\ q \in Nat /\ before \in Seq(Nat)
          /\ Reading(document)[q] = In("inside", done, before, <<>>)
      BY <2>5, <2>6, <2>7, <2>8 DEF f
    <3> HIDE DEF byte
    <3>2. byte \in 1 .. 255 /\ q \in Nat
      BY <3>1
    <3>3. Reading(document)[q + Len(Escaped(byte))] = In("inside", done, Append(before, byte), <<>>)
      BY ONLY <3>1, <3>2, ReadEscaped, JsonAssumption, document \in Seq(Nat), done \in Seq(Seq(Nat)), ZenonT(30)
    <3> QED BY ONLY <3>3, Zenon DEF f, byte
  <2>11. f[p + Len(w[n])] = In("inside", done, SubSeq(t, 1, n), <<>>)
    BY <2>5, <2>9, <2>10 DEF before
  <2> QED BY <2>a, <2>11
<1> HIDE DEF f, w
<1>8. f[p + Len(w[L])] = In("inside", done, t, <<>>)
  <2>1. f[p + Len(w[L])] = In("inside", done, SubSeq(t, 1, L), <<>>)
    <3>1. L \in Nat /\ L <= L
      BY <1>1
    <3> HIDE DEF L
    <3> QED BY ONLY <1>7, <3>1, Zenon
  <2>2. SubSeq(t, 1, L) = t
    BY <1>2, BeginningsEnd
  <2> QED BY <2>1, <2>2
<1>9. f[p + Len(w[L]) + 1] = After(Append(done, t))
  BY <1>2, <1>4, <1>8, ReadInside
<1>10. p + Len(JsonString(t)) = p + Len(w[L]) + 1
  <2>1. Len(w[L]) \in Nat
    BY <1>1
  <2> QED BY <1>4, <2>1
<1> QED BY <1>9, <1>10 DEF f

LEMMA JsonStringNumbers ==
    ASSUME NEW t \in Seq(1 .. 255)
    PROVE  JsonString(t) \in Seq(Nat)
<1> DEFINE most == Writing(t)[Len(t)]
<1>1. JsonString(t) = Append(most, Quote)
  BY WritingMeaning
<1>2. most \in Seq(Nat)
  <2>1. Len(t) \in 0 .. Len(t)
    <3>1. Len(t) \in Nat
      BY BytesOf
    <3> QED BY <3>1
  <2>2. \A n \in 0 .. Len(t) : Writing(t)[n] \in Seq(Nat)
    BY ONLY WritingMeaning, t \in Seq(1 .. 255), Zenon
  <2> QED BY ONLY <2>1, <2>2, Zenon
<1>3. Quote \in Nat
  BY DEF Quote
<1> HIDE DEF most
<1> QED BY ONLY <1>1, <1>2, <1>3, NumbersAppended, Zenon

\* The comma between two strings changes nothing.
LEMMA ReadComma ==
    ASSUME NEW done
    PROVE  Read(After(done), 44) = After(done)
<1> DEFINE r == After(done)
<1>1. r.at = "outside"
  BY DEF After
<1> HIDE DEF r
<1>2. Read(r, 44) = r
  BY <1>1 DEF Read, Quote
<1> QED BY <1>2 DEF r

\* Two elements appended to nothing.
LEMMA TwoAppended ==
    ASSUME NEW S, NEW one \in S, NEW two \in S
    PROVE  Append(Append(<<>>, one), two) = <<one, two>>
<1> DEFINE first == Append(<<>>, one)
           both == Append(first, two)
           pair == <<one, two>>
<1>1. first \in Seq(S) /\ Len(first) = 1 /\ first[1] = one
  OBVIOUS
<1>2. pair \in Seq(S) /\ Len(pair) = 2 /\ pair[1] = one /\ pair[2] = two
  OBVIOUS
<1> HIDE DEF first, pair
<1>3. /\ both \in Seq(S) /\ Len(both) = Len(first) + 1 /\ both[Len(first) + 1] = two
      /\ \A i \in 1 .. Len(first) : both[i] = first[i]
  BY <1>1, AppendMeaning
<1> HIDE DEF both
<1>4. Len(both) = 2 /\ both[2] = two /\ both[1] = one
  BY <1>1, <1>3
<1>5. \A i \in 1 .. 2 : i = 1 \/ i = 2
  OBVIOUS
<1>6. both = pair
  BY <1>2, <1>3, <1>4, <1>5, SeqEqual
<1> QED BY <1>6 DEF both, first, pair

LEMMA TwoReadBack ==
    ASSUME JsonAssumption, NEW one \in Seq(1 .. 255), NEW two \in Seq(1 .. 255)
    PROVE  ReadAll(JsonString(one) \o <<44>> \o JsonString(two))
             = [Closed EXCEPT !.strings = <<one, two>>]
<1> DEFINE a == JsonString(one)
           b == JsonString(two)
           comma == <<44>>
           front == a \o comma
           document == front \o b
           f == Reading(document)
<1>1. a \in Seq(Nat) /\ b \in Seq(Nat)
  BY JsonStringNumbers
<1>2. comma \in Seq(Nat) /\ Len(comma) = 1 /\ comma[1] = 44
  OBVIOUS
<1> HIDE DEF a, b, comma
<1>3. front \in Seq(Nat)
  BY <1>1, <1>2
<1> HIDE DEF front
<1>4. document \in Seq(Nat)
  BY <1>1, <1>3
<1>5. At(document, 0, front) /\ At(document, Len(front), b) /\ Len(front) \in Nat
      /\ Len(b) \in Nat /\ Len(document) = Len(front) + Len(b)
  <2>1. At(document, 0, document)
    <3> HIDE DEF document
    <3>1. Len(document) \in Nat
      BY <1>4
    <3> QED BY <3>1 DEF At
  <2>2. At(document, 0, front \o b)
    BY <2>1
  <2>3. 0 \in Nat
    OBVIOUS
  <2> HIDE DEF document
  <2>4. /\ At(document, 0, front) /\ At(document, 0 + Len(front), b) /\ Len(front) \in Nat
        /\ Len(b) \in Nat /\ Len(front \o b) = Len(front) + Len(b)
    BY ONLY <1>1, <1>3, <1>4, <2>2, <2>3, NumbersDivided, SMT
  <2>5. 0 + Len(front) = Len(front)
    BY <2>4
  <2> QED BY <2>4, <2>5 DEF document
<1> HIDE DEF document
<1>6. At(document, 0, a) /\ At(document, Len(a), comma) /\ Len(a) \in Nat /\ Len(front) = Len(a) + 1
  <2>1. At(document, 0, a \o comma)
    BY <1>5 DEF front
  <2>2. 0 \in Nat
    OBVIOUS
  <2>3. comma \in Seq(Nat)
    BY <1>2
  <2>4. /\ At(document, 0, a) /\ At(document, 0 + Len(a), comma) /\ Len(a) \in Nat
        /\ Len(a \o comma) = Len(a) + Len(comma)
    BY ONLY <1>1, <1>4, <2>1, <2>2, <2>3, NumbersDivided, SMT
  <2>5. 0 + Len(a) = Len(a)
    BY <2>4
  <2> QED BY <1>2, <2>4, <2>5 DEF front
<1> DEFINE none == <<>>
           first == Append(none, one)
           both == Append(first, two)
<1>7. none \in Seq(Seq(Nat)) /\ first \in Seq(Seq(Nat))
  <2>1. one \in Seq(Nat)
    BY BytesOf
  <2> DEFINE T == Seq(Nat)
  <2>2. one \in T /\ none \in Seq(T)
    BY <2>1
  <2> HIDE DEF T
  <2>3. first \in Seq(T)
    BY <2>2
  <2> QED BY <2>2, <2>3 DEF T
<1> HIDE DEF none
<1>8. f[0] = After(none) /\ ReadAll(document) = f[Len(document)]
  <2>1. f[0] = Closed /\ ReadAll(document) = f[Len(document)]
    BY ONLY <1>4, ReadingMeaning, Zenon
  <2> QED BY ONLY <2>1, Zenon DEF Closed, After, none
<1> HIDE DEF f, first
<1>9. f[Len(a)] = After(first)
  <2>1. At(document, 0, JsonString(one)) /\ 0 \in Nat /\ Reading(document)[0] = After(none)
    BY <1>6, <1>8 DEF a, f
  <2>2. Reading(document)[0 + Len(JsonString(one))] = After(Append(none, one))
    BY ONLY <1>4, <1>7, <2>1, ReadString, JsonAssumption, one \in Seq(1 .. 255), ZenonT(30)
  <2>3. 0 + Len(a) = Len(a)
    BY <1>6
  <2> QED BY ONLY <2>2, <2>3, Zenon DEF a, f, first
<1>10. f[Len(front)] = After(first)
  <2>1. 1 \in 1 .. Len(comma)
    BY <1>2
  <2>2. Reading(document)[Len(a) + 1] = Read(Reading(document)[Len(a) + 1 - 1], comma[1])
    BY ONLY <1>2, <1>4, <1>6, <2>1, ReadNext, Zenon
  <2>3. Len(a) + 1 - 1 = Len(a)
    BY <1>6
  <2>4. f[Len(front)] = Read(f[Len(a)], 44)
    BY ONLY <1>2, <1>6, <2>2, <2>3, Zenon DEF f
  <2> QED BY ONLY <1>9, <2>4, ReadComma, Zenon
<1>11. f[Len(document)] = After(both)
  <2>1. At(document, Len(front), JsonString(two)) /\ Reading(document)[Len(front)] = After(first)
    BY <1>5, <1>10 DEF b, f
  <2>2. Reading(document)[Len(front) + Len(JsonString(two))] = After(Append(first, two))
    BY ONLY <1>4, <1>5, <1>7, <2>1, ReadString, JsonAssumption, two \in Seq(1 .. 255), ZenonT(30)
  <2> QED BY ONLY <1>5, <2>2, Zenon DEF b, f
<1>12. both = <<one, two>>
  <2>1. one \in Seq(Nat) /\ two \in Seq(Nat)
    BY BytesOf
  <2> DEFINE T == Seq(Nat)
  <2>2. one \in T /\ two \in T
    BY <2>1
  <2> HIDE DEF T
  <2> QED BY <2>2, TwoAppended DEF none, first
<1>13. After(both) = [Closed EXCEPT !.strings = <<one, two>>]
  <2> DEFINE pair == <<one, two>>
  <2> HIDE DEF pair, both
  <2>1. both = pair
    BY <1>12 DEF pair
  <2>2. After(pair) = [Closed EXCEPT !.strings = pair]
    BY DEF After, Closed
  <2> QED BY ONLY <2>1, <2>2, Zenon DEF pair
<1>14. ReadAll(document) = [Closed EXCEPT !.strings = <<one, two>>]
  BY <1>8, <1>11, <1>13
<1> QED BY <1>14 DEF document, front, a, b, comma

LEMMA Middle ==
    ASSUME NEW S, NEW t \in Seq(S), NEW k \in 0 .. Len(t)
    PROVE  SubSeq(t, 1, k) \in Seq(S) /\ SubSeq(t, k + 1, Len(t)) \in Seq(S)
<1>1. \A i \in 1 .. k : t[i] \in S
  OBVIOUS
<1>2. SubSeq(t, 1, k) \in Seq(S)
  BY Beginning
<1>3. SubSeq(t, k + 1, Len(t)) \in Seq(S)
  BY SubSeqProperties
<1> QED BY <1>2, <1>3

\* What the writer makes of two texts is read back as the two texts, whatever bytes they
\* have and wherever they are divided: p101_report_json_string escapes enough, no byte
\* of a log ends its string or alters the next one (json.c:16-56).
THEOREM StringsSurvive == StringsSpec => []StringsReadBack
<1> DEFINE TextInv == text \in Seq(Byte)
<1>1. StringsInit => TextInv
  BY DEF StringsInit
<1>2. TextInv /\ [StringsNext]_text => TextInv'
  BY DEF StringsNext, Grow
<1>3. TextInv => StringsReadBack
  <2> SUFFICES ASSUME TextInv, NEW k \in 0 .. Len(text)
               PROVE  ReadAll(JsonString(SubSeq(text, 1, k)) \o <<44>>
                                \o JsonString(SubSeq(text, k + 1, Len(text))))
                        = [Closed EXCEPT !.strings = <<SubSeq(text, 1, k),
                                                       SubSeq(text, k + 1, Len(text))>>]
    BY DEF StringsReadBack
  <2>1. text \in Seq(1 .. 255)
    <3> DEFINE S == 1 .. 255
    <3>1. Byte \subseteq S
      BY JsonAssumption DEF JsonAssumption
    <3> HIDE DEF S
    <3>2. text \in Seq(S)
      BY <3>1
    <3> QED BY <3>2 DEF S
  <2>2. /\ SubSeq(text, 1, k) \in Seq(1 .. 255)
        /\ SubSeq(text, k + 1, Len(text)) \in Seq(1 .. 255)
    <3> DEFINE S == 1 .. 255
    <3>1. text \in Seq(S)
      BY <2>1
    <3> HIDE DEF S
    <3>2. SubSeq(text, 1, k) \in Seq(S) /\ SubSeq(text, k + 1, Len(text)) \in Seq(S)
      BY <3>1, Middle
    <3> QED BY <3>2 DEF S
  <2> QED BY ONLY <2>2, TwoReadBack, JsonAssumption, Zenon
<1> QED BY <1>1, <1>2, <1>3, PTL DEF StringsSpec
=============================================================================
