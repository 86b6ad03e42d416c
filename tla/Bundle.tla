------------------------------- MODULE Bundle -------------------------------
(***************************************************************************)
(* The bundle of p101-report -b (src/src/bundle.c): three reports printed  *)
(* while descriptor 1 is redirected to their files, and the run model,     *)
(* written through a stream of its own.                                    *)
(*                                                                         *)
(* Any call may fail.  A wrapper that fails sets the error; one called     *)
(* with the error set still does its work.  A descriptor is gone after     *)
(* close even if close fails (as on Linux).  The one call whose result is  *)
(* dropped is the library's that writes the run model: it may fail in      *)
(* silence.                                                                *)
(***************************************************************************)
EXTENDS Integers

CONSTANTS
    Outcomes,       \* results a call that may fail can have: TRUE is success
    Leaf,           \* Leaf[a]: the length of the name of artefact a
    Prefixes,       \* lengths the output directory may have, with its slash
    PathMax         \* PATH_MAX_BYTES

Artefact == 1 .. 4
RunModel == 4

ASSUME BundleAssumption ==
    /\ Outcomes \subseteq BOOLEAN /\ TRUE \in Outcomes
    /\ Leaf \in [Artefact -> Nat] /\ Prefixes \subseteq Nat /\ PathMax \in Nat
    /\ \E a \in Artefact \ {RunModel} : Leaf[RunModel] <= Leaf[a]   \* "run-model.json"

Console == 0                \* what descriptor 1 refers to at the start
Text(a) == {a} \X (1 .. 2)  \* a report reaches its file in two pieces
Old == {<<0, 1>>}           \* what an earlier run left in a file

VARIABLES
    artefact,       \* the artefact in hand
    step,           \* the call that comes next
    err,            \* the p101_error
    prefix,         \* the length of the output directory
    output_fd,      \* output_fd is a descriptor
    saved_stdout,   \* saved_stdout is a descriptor
    stdout,         \* what descriptor 1 refers to
    buffer,         \* the pieces in the buffer of the stream stdout
    content,        \* content[f]: the pieces in each file and on the console
    strayed,        \* a path that did not fit has been opened
    pending,        \* the pieces in the buffer of the run model's stream
    unheard         \* the library could not write the run model and did not say so

fds    == <<output_fd, saved_stdout, stdout>>
stream == <<pending, unheard>>
data   == <<buffer, content, strayed, stream>>
vars   == <<artefact, step, err, prefix, fds, data>>

Init ==
    /\ artefact = 1 /\ step = "enter"
    /\ err = FALSE
    /\ prefix \in Prefixes
    /\ output_fd = FALSE /\ saved_stdout = FALSE
    /\ stdout = Console /\ buffer = {}
    /\ content \in {[f \in 0 .. 4 |-> IF f \in reused THEN Old ELSE {}] : reused \in SUBSET Artefact}
    /\ strayed = FALSE
    /\ pending = {} /\ unheard = FALSE

\* The call `name` is made; its failure sets the error.
Call(name, ok) ==
    /\ step = name
    /\ err' = (err \/ ~ok)
    /\ UNCHANGED prefix

Then(next) == step' = next /\ UNCHANGED artefact

\* Where the code looks at the error: to the end of the function, or on.
ThenUnlessErr(next) == Then(IF err' THEN "restore" ELSE next)

\* Mutant: an artefact is tried although an earlier one has failed.
SkipsNone == FALSE

Skips == err

NextArtefact ==
    IF artefact = RunModel THEN step' = "exit" /\ UNCHANGED artefact
                           ELSE step' = "enter" /\ artefact' = artefact + 1

Enter ==
    /\ Call("enter", TRUE)
    /\ IF Skips THEN NextArtefact ELSE Then("join")
    /\ UNCHANGED <<fds, data>>

\* With its terminating zero.
Fits(a) == prefix + Leaf[a] < PathMax

\* The path of the run model is opened whether or not it could be joined.
Join ==
    /\ Call("join", Fits(artefact))
    /\ IF artefact = RunModel THEN Then("fopen") ELSE ThenUnlessErr("flush")
    /\ UNCHANGED <<fds, data>>

\* Mutant: a name passed twice in p101_report_write_bundle.
NamedTwice(a) == IF a = 3 THEN 2 ELSE a

\* The file that artefact a is written to.
File(a) == a

\* A flush that fails may have written a part, and may drop or keep the rest.
Flushes(ok) ==
    IF ok THEN /\ content' = [content EXCEPT ![stdout] = @ \cup buffer]
               /\ buffer' = {}
          ELSE \E written \in SUBSET buffer :
               /\ content' = [content EXCEPT ![stdout] = @ \cup written]
               /\ buffer' \in {buffer \ written, {}}

Flush == \E ok \in Outcomes :
    /\ Call("flush", ok) /\ Flushes(ok)
    /\ Then("open")
    /\ UNCHANGED <<fds, strayed, stream>>

\* Creates the file or empties it, if it is the right one.
Truncates(a) ==
    content' = IF Fits(a) THEN [content EXCEPT ![File(a)] = {}] ELSE content

Open == \E ok \in Outcomes :
    /\ Call("open", ok)
    /\ output_fd' = ok
    /\ IF ok THEN Truncates(artefact) ELSE UNCHANGED content
    /\ strayed' = (strayed \/ ~Fits(artefact))
    /\ ThenUnlessErr("save")
    /\ UNCHANGED <<saved_stdout, stdout, buffer, stream>>

Save == \E ok \in Outcomes :
    /\ Call("save", ok)
    /\ saved_stdout' = ok
    /\ ThenUnlessErr("redirect")
    /\ UNCHANGED <<output_fd, stdout, data>>

Redirect == \E ok \in Outcomes :
    /\ Call("redirect", ok)
    /\ stdout' = IF ok THEN File(artefact) ELSE stdout
    /\ Then("release")
    /\ UNCHANGED <<output_fd, saved_stdout, data>>

Release == \E ok \in Outcomes :
    /\ Call("release", ok)
    /\ output_fd' = FALSE
    /\ ThenUnlessErr("print")
    /\ UNCHANGED <<saved_stdout, stdout, data>>

\* A long report overflows the buffer, so a part is in the file before the end.
PrintReport == \E ok \in Outcomes :
    /\ Call("print", ok)
    /\ \E produced \in IF ok THEN {Text(artefact)} ELSE SUBSET Text(artefact) :
       \E written \in SUBSET produced :
         /\ content' = [content EXCEPT ![stdout] = @ \cup written]
         /\ buffer' = buffer \cup (produced \ written)
    /\ Then("drain")
    /\ UNCHANGED <<fds, strayed, stream>>

\* Mutant: stdout is restored without flushing the report first.
DrainNot(ok) == UNCHANGED <<content, buffer>>

Drains(ok) == Flushes(ok)

Drain == \E ok \in Outcomes :
    /\ Call("drain", ok) /\ Drains(ok)
    /\ Then("restore")
    /\ UNCHANGED <<fds, strayed, stream>>

Restore == \E ok \in IF saved_stdout THEN Outcomes ELSE {TRUE} :
    /\ Call("restore", ok)
    /\ stdout' = IF saved_stdout /\ ok THEN Console ELSE stdout
    /\ Then("discard")
    /\ UNCHANGED <<output_fd, saved_stdout, data>>

Discard == \E ok \in IF saved_stdout THEN Outcomes ELSE {TRUE} :
    /\ Call("discard", ok)
    /\ saved_stdout' = FALSE
    /\ Then("leave")
    /\ UNCHANGED <<output_fd, stdout, data>>

\* Mutant: only the path on which all went well closes the artefact.
KeepsOutput == output_fd' = output_fd

ClosesOutput == output_fd' = FALSE

Leave == \E ok \in IF output_fd THEN Outcomes ELSE {TRUE} :
    /\ Call("leave", ok)
    /\ ClosesOutput
    /\ NextArtefact
    /\ UNCHANGED <<saved_stdout, stdout, data>>

\* Without a stream there is nothing to write or to close.
Fopen == \E ok \in Outcomes :
    /\ Call("fopen", ok)
    /\ IF ok THEN Truncates(artefact) ELSE UNCHANGED content
    /\ strayed' = (strayed \/ ~Fits(artefact))
    /\ Then(IF ok THEN "write" ELSE "exit")
    /\ UNCHANGED <<fds, buffer, stream>>

\* What reaches the file of the run model.
Reaches(written) ==
    content' = IF Fits(artefact) THEN [content EXCEPT ![File(artefact)] = @ \cup written] ELSE content

\* p101_tool_model_write_json (external), whose result is dropped: where it fails
\* it may set the error or not.  A part may be in the file before the stream is closed.
WriteModel == \E ok \in Outcomes, told \in BOOLEAN :
    /\ Call("write", ok \/ ~told)
    /\ unheard' = (~ok /\ ~told)
    /\ \E produced \in IF ok THEN {Text(artefact)} ELSE SUBSET Text(artefact) :
       \E written \in SUBSET produced :
         Reaches(written) /\ pending' = produced \ written
    /\ Then("fclose")
    /\ UNCHANGED <<fds, buffer, strayed>>

\* What is still in the stream's buffer is written or lost.
Fclose == \E ok \in Outcomes :
    /\ Call("fclose", ok)
    /\ \E written \in IF ok THEN {pending} ELSE SUBSET pending : Reaches(written)
    /\ pending' = {}
    /\ Then("exit")
    /\ UNCHANGED <<fds, buffer, strayed, unheard>>

\* What is left in the buffer is written when the program exits (external).
Exit ==
    /\ Call("exit", TRUE) /\ Flushes(TRUE)
    /\ Then("gone")
    /\ UNCHANGED <<fds, strayed, stream>>

Next ==
    \/ Enter \/ Join \/ Flush \/ Open \/ Save \/ Redirect \/ Release \/ PrintReport \/ Drain
    \/ Restore \/ Discard \/ Leave \/ Fopen \/ WriteModel \/ Fclose \/ Exit

Spec == Init /\ [][Next]_vars

-----------------------------------------------------------------------------
(* Properties.                                                             *)

\* If no error is left, every file of the bundle holds the whole of its own
\* report and nothing older, and nothing went to the console; only the run model
\* may be short, where the library could not write it and did not say so
\* (bundle.c:15-22, 35-39, 62-84; README.md:73-75).
BundleIsWhole ==
    step = "gone" /\ ~err =>
      /\ \A a \in Artefact : content[a] = Text(a) \/ (a = RunModel /\ unheard)
      /\ content[Console] = {}

\* Whatever fails, no file ever receives a piece of another report, not even of
\* one whose flush failed and whose text was still in the buffer.
EachReportToItsFile == \A a \in Artefact : content[a] \subseteq Text(a) \cup Old

\* Between two artefacts and at the end no descriptor is left open, and stdout
\* is back on the console unless the error tells (bundle.c:86-95).
DescriptorsAreReturned ==
    step \in {"enter", "exit", "gone"} =>
      /\ ~output_fd /\ ~saved_stdout
      /\ stdout # Console => err

\* Although write_run_model opens its path without looking at the error, no path
\* that did not fit is ever opened: an earlier, longer one has failed before
\* (bundle.c:29-34, 56-63; io.c:63-66).
NoStrayPath == ~strayed
=============================================================================
